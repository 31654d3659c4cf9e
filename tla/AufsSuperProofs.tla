--------------------------- MODULE AufsSuperProofs ---------------------------
(***************************************************************************)
(* Proofs about AufsSuper, for any number of processes, works, inodes and  *)
(* calls.                                                                  *)
(***************************************************************************)
EXTENDS AufsSuper, FiniteSetTheorems, TLAPS

(* What the variables hold, and which operation fits which place.          *)
TypeOK ==
  /\ activity \in Int /\ nwLen \in Int /\ calls \in Nat
  /\ pc \in [Agent -> Pc]
  /\ op \in [Agent -> TaskOps \cup WorkKinds \cup {"rewait", "none"}]
  /\ maintPid \in Task \cup {NoTask}
  /\ plm \in [Task -> {"NULL", "set", "maint"}]
  /\ plink \in BOOLEAN /\ udba \in BOOLEAN
  /\ plinks \in SUBSET Inode
  /\ sb \in {"listed", "dying", "cleared", "freed"}

OpFits ==
  /\ \A a \in Agent : pc[a] = "idle" <=> op[a] = "none"
  /\ \A w \in Work : op[w] \in Kinds \cup {"none"} /\ pc[w] \notin {"kick", "lastflush"}
  /\ \A t \in Task : op[t] \in Ops \cup {"rewait", "none"} /\ pc[t] # "done"
  /\ \A t \in Task : op[t] = "rewait" => "write" \in Ops
  /\ \A t \in Task : pc[t] = "kick" => op[t] \in Modifying \cup {"touch"}
  /\ \A t \in Task : op[t] = "touch" => pc[t] = "kick"
  /\ \A t \in Task : pc[t] = "lastflush" => op[t] = "umount"

(* si_nowait.nw_len counts the works that are pending and those about to   *)
(* be queued or given up.                                                  *)
Kicking == {t \in Task : pc[t] = "kick"}
Pending == {w \in Work : pc[w] # "idle"}
NwExact == nwLen = Cardinality(Kicking) + Cardinality(Pending)

(* How far the one unmount has come, and who may still be inside.          *)
Phases ==
  /\ \A t \in Task : op[t] = "umount" =>
       /\ sb = "cleared" <=> pc[t] \in {"out", "lastflush"}
       /\ sb \in {"dying", "cleared"}
       /\ \A u \in Task : op[u] = "umount" => u = t
  /\ sb # "listed" =>
       \A t \in Task : op[t] \in Procfs \cup {"touch", "umount", "none"}
  /\ sb \in {"cleared", "freed"} => ~udba /\ plinks = {}
  /\ ~plink => plinks = {}
  /\ sb = "freed" => Kicking = {} /\ Pending = {}

KillInv == TypeOK /\ OpFits /\ NwExact /\ Phases

-----------------------------------------------------------------------------
(* The lock: nobody, readers who are counted, or one writer; or it is lost *)
(* for good, since a writer has given it back as a reader in the wait of   *)
(* au_plink_maint (plink.c:73).                                            *)
Holders == {a \in Agent : Holding(a)}
Lost == activity = -2 /\ Holders = {}
LockCount ==
  \/ activity = Cardinality(Holders) /\ \A a \in Holders : Of(a).mode = "r"
  \/ activity = -1 /\ \E a \in Agent : Holders = {a} /\ Of(a).mode = "w"
  \/ Lost

(* A writer that waits has lost it.                                        *)
WriterWaits ==
  \A a \in Agent : pc[a] \in {"plmwait", "plmflush", "plmlock"} /\ Of(a).mode = "w" => Lost

AloneInv == TypeOK /\ OpFits /\ LockCount /\ WriterWaits

(* What the theorem on the maintenance mode supposes of the calls: there   *)
(* is no such mode, or nothing that would wait for its end as a writer     *)
(* (plink.c:72) and nobody who switches pseudo links off and on (so that a *)
(* file was opened outside the mode, plink.c:92).                          *)
PlainMaint ==
  \/ "enter" \notin Ops
  \/ "setplink" \notin Ops /\ "umount" \notin Ops /\ "notify" \notin Kinds

Waiting == {"plmloop", "plmwait", "plmflush", "plmlock"}

MaintOwned ==
  /\ "enter" \notin Ops => maintPid = NoTask
  /\ "setplink" \notin Ops => plink
  /\ maintPid # NoTask => plink
  /\ \A t \in Task : plm[t] # "NULL" => plm[t] = "maint" /\ maintPid = t
  /\ \A t \in Task : op[t] = "clean" => plm[t] # "NULL"

WaitersRead == \A a \in Agent : pc[a] \in Waiting => Of(a).mode = "r"

OwnersInside ==
  \A a \in Agent : maintPid # NoTask /\ Inside(a) /\ Of(a).plm # "none" => Exempt(a)

LockInv == AloneInv /\ MaintOwned /\ WaitersRead /\ OwnersInside

-----------------------------------------------------------------------------
LEMMA NextSteps ==
  ASSUME Next
  PROVE  \/ \E a \in Agent : \/ Flush(a) \/ Lock(a) \/ Check(a) \/ PlmLoop(a) \/ PlmWait(a)
                             \/ PlmLock(a) \/ Other(a) \/ Unlock(a)
         \/ \E t \in Task : \/ Enter(t) \/ Clean(t) \/ SetPlink(t) \/ Kill(t) \/ LastFlush(t)
                            \/ KickFail(t) \/ Kick(t) \/ Release(t)
                            \/ Touch(t) /\ "touch" \in Ops
                            \/ \E w \in Work, k \in Kinds : KickQueue(t, w, k)
                            \/ \E o \in Ops \ {"touch"} : Begin(t, o)
                            \/ \E i \in Inode : AddPlink(t, i)
         \/ \E w \in Work : WorkDone(w)
  BY DEF Next, TaskStep, WorkStep, Step, Agent

LEMMA TypeStep == ASSUME TypeOK, OpFits, Next PROVE TypeOK'
  <1> USE AgentAssumption, OpsAssumption
      DEF Move, Goto, fsVars, maintVars, SiUnlock, up_read, up_write, down_read,
          down_write, TypeOK, OpFits, Agent, Pc, TaskOps, WorkKinds, Modifying
  <1>1. ASSUME NEW a \in Agent, Flush(a) PROVE TypeOK' BY <1>1 DEF Flush
  <1>2. ASSUME NEW a \in Agent, Lock(a) PROVE TypeOK' BY <1>2 DEF Lock
  <1>3. ASSUME NEW a \in Agent, Check(a) PROVE TypeOK' BY <1>3 DEF Check, Refused
  <1>4. ASSUME NEW a \in Agent, PlmLoop(a) PROVE TypeOK' BY <1>4 DEF PlmLoop
  <1>5. ASSUME NEW a \in Agent, PlmWait(a) PROVE TypeOK' BY <1>5 DEF PlmWait
  <1>6. ASSUME NEW a \in Agent, PlmLock(a) PROVE TypeOK' BY <1>6 DEF PlmLock
  <1>7. ASSUME NEW a \in Agent, Other(a) PROVE TypeOK' BY <1>7 DEF Other
  <1>8. ASSUME NEW a \in Agent, Unlock(a) PROVE TypeOK' BY <1>8 DEF Unlock
  <1>9. ASSUME NEW t \in Task, Enter(t) PROVE TypeOK' BY <1>9 DEF Enter
  <1>10. ASSUME NEW t \in Task, Clean(t) PROVE TypeOK' BY <1>10 DEF Clean
  <1>11. ASSUME NEW t \in Task, SetPlink(t) PROVE TypeOK' BY <1>11 DEF SetPlink
  <1>12. ASSUME NEW t \in Task, Kill(t) PROVE TypeOK' BY <1>12 DEF Kill
  <1>13. ASSUME NEW t \in Task, LastFlush(t) PROVE TypeOK' BY <1>13 DEF LastFlush
  <1>14. ASSUME NEW t \in Task, KickFail(t) PROVE TypeOK'
    BY <1>14 DEF KickFail, AfterKick
  <1>15. ASSUME NEW t \in Task, Kick(t) PROVE TypeOK' BY <1>15 DEF Kick
  <1>16. ASSUME NEW t \in Task, Release(t) PROVE TypeOK' BY <1>16 DEF Release
  <1>17. ASSUME NEW t \in Task, Touch(t), "touch" \in Ops PROVE TypeOK'
    BY <1>17 DEF Touch
  <1>18. ASSUME NEW t \in Task, NEW w \in Work, NEW k \in Kinds, KickQueue(t, w, k) PROVE TypeOK'
    BY <1>18 DEF KickQueue, AfterKick
  <1>19. ASSUME NEW t \in Task, NEW o \in Ops \ {"touch"}, Begin(t, o) PROVE TypeOK'
    BY <1>19 DEF Begin
  <1>20. ASSUME NEW t \in Task, NEW i \in Inode, AddPlink(t, i) PROVE TypeOK'
    BY <1>20 DEF AddPlink
  <1>21. ASSUME NEW w \in Work, WorkDone(w) PROVE TypeOK' BY <1>21 DEF WorkDone
  <1> HIDE DEF Move, Goto, fsVars, maintVars, SiUnlock, up_read, up_write, down_read,
               down_write, TypeOK, OpFits, Agent, Pc, TaskOps, WorkKinds, Modifying
  <1> QED BY <1>1, <1>2, <1>3, <1>4, <1>5, <1>6, <1>7, <1>8, <1>9, <1>10, <1>11, <1>12,
             <1>13, <1>14, <1>15, <1>16, <1>17, <1>18, <1>19, <1>20, <1>21, NextSteps

LEMMA OpFitsStep == ASSUME TypeOK, OpFits, Next PROVE OpFits'
  <1> USE AgentAssumption, OpsAssumption
      DEF Move, Goto, fsVars, maintVars, TypeOK, OpFits, Agent, TaskOps, WorkKinds,
          Modifying
  <1>1. ASSUME NEW a \in Agent, Flush(a) PROVE OpFits' BY <1>1 DEF Flush
  <1>2. ASSUME NEW a \in Agent, Lock(a) PROVE OpFits' BY <1>2 DEF Lock
  <1>3. ASSUME NEW a \in Agent, Check(a) PROVE OpFits' BY <1>3 DEF Check, Refused
  <1>4. ASSUME NEW a \in Agent, PlmLoop(a) PROVE OpFits' BY <1>4 DEF PlmLoop
  <1>5. ASSUME NEW a \in Agent, PlmWait(a) PROVE OpFits' BY <1>5 DEF PlmWait
  <1>6. ASSUME NEW a \in Agent, PlmLock(a) PROVE OpFits' BY <1>6 DEF PlmLock
  <1>7. ASSUME NEW a \in Agent, Other(a) PROVE OpFits' BY <1>7 DEF Other
  <1>8. ASSUME NEW a \in Agent, Unlock(a) PROVE OpFits' BY <1>8 DEF Unlock
  <1>9. ASSUME NEW t \in Task, Enter(t) PROVE OpFits' BY <1>9 DEF Enter
  <1>10. ASSUME NEW t \in Task, Clean(t) PROVE OpFits' BY <1>10 DEF Clean
  <1>11. ASSUME NEW t \in Task, SetPlink(t) PROVE OpFits' BY <1>11 DEF SetPlink
  <1>12. ASSUME NEW t \in Task, Kill(t) PROVE OpFits' BY <1>12 DEF Kill
  <1>13. ASSUME NEW t \in Task, LastFlush(t) PROVE OpFits' BY <1>13 DEF LastFlush
  <1>14. ASSUME NEW t \in Task, KickFail(t) PROVE OpFits'
    BY <1>14 DEF KickFail, AfterKick
  <1>15. ASSUME NEW t \in Task, Kick(t) PROVE OpFits' BY <1>15 DEF Kick
  <1>16. ASSUME NEW t \in Task, Release(t) PROVE OpFits' BY <1>16 DEF Release
  <1>17. ASSUME NEW t \in Task, Touch(t), "touch" \in Ops PROVE OpFits'
    BY <1>17 DEF Touch
  <1>18. ASSUME NEW t \in Task, NEW w \in Work, NEW k \in Kinds, KickQueue(t, w, k) PROVE OpFits'
    BY <1>18 DEF KickQueue, AfterKick
  <1>19. ASSUME NEW t \in Task, NEW o \in Ops \ {"touch"}, Begin(t, o) PROVE OpFits'
    BY <1>19 DEF Begin
  <1>20. ASSUME NEW t \in Task, NEW i \in Inode, AddPlink(t, i) PROVE OpFits'
    BY <1>20 DEF AddPlink
  <1>21. ASSUME NEW w \in Work, WorkDone(w) PROVE OpFits' BY <1>21 DEF WorkDone
  <1> HIDE DEF Move, Goto, fsVars, maintVars, TypeOK, OpFits, Agent, TaskOps, WorkKinds,
               Modifying
  <1> QED BY <1>1, <1>2, <1>3, <1>4, <1>5, <1>6, <1>7, <1>8, <1>9, <1>10, <1>11, <1>12,
             <1>13, <1>14, <1>15, <1>16, <1>17, <1>18, <1>19, <1>20, <1>21, NextSteps

(* How works take the lock.                                                *)
LEMMA WorkFlags ==
  /\ \A k \in WorkKinds : LockFlags[k].plm # "NOPLM"
  /\ \A k \in WorkKinds \ {"notify"} : LockFlags[k].plm = "none"
  BY DEF WorkKinds, LockFlags, Flags

LEMMA CountsFinite ==
  /\ IsFiniteSet(Kicking) /\ IsFiniteSet(Pending)
  /\ Cardinality(Kicking) \in Nat /\ Cardinality(Pending) \in Nat
  BY FiniteAssumption, FS_Subset, FS_CardinalityType DEF Kicking, Pending

(* A step that leaves "kick" and "idle" alone keeps the count.             *)
LEMMA NwKept ==
  ASSUME TypeOK, NwExact, nwLen' = nwLen,
         \A t \in Task : pc'[t] = "kick" <=> pc[t] = "kick",
         \A w \in Work : pc'[w] = "idle" <=> pc[w] = "idle"
  PROVE  NwExact'
  <1>1. Kicking' = Kicking BY DEF Kicking
  <1>2. Pending' = Pending BY DEF Pending
  <1> QED BY <1>1, <1>2 DEF NwExact

LEMMA NwStep == ASSUME TypeOK, OpFits, NwExact, Next PROVE NwExact'
  <1> USE AgentAssumption, OpsAssumption
      DEF Move, Goto, fsVars, maintVars, TypeOK, OpFits, Agent
  <1>1. ASSUME NEW a \in Agent, Flush(a) PROVE NwExact' BY <1>1, NwKept DEF Flush
  <1>2. ASSUME NEW a \in Agent, Lock(a) PROVE NwExact' BY <1>2, NwKept DEF Lock
  <1>3. ASSUME NEW a \in Agent, Check(a) PROVE NwExact'
    <2>1. ASSUME a \in Work PROVE Of(a).plm # "NOPLM"
      <3>1. op[a] \in WorkKinds BY <1>3, <2>1 DEF Check
      <3> QED BY <3>1, WorkFlags DEF Of
    <2> QED BY <1>3, <2>1, NwKept DEF Check, Refused
  <1>4. ASSUME NEW a \in Agent, PlmLoop(a) PROVE NwExact' BY <1>4, NwKept DEF PlmLoop
  <1>5. ASSUME NEW a \in Agent, PlmWait(a) PROVE NwExact' BY <1>5, NwKept DEF PlmWait
  <1>6. ASSUME NEW a \in Agent, PlmLock(a) PROVE NwExact' BY <1>6, NwKept DEF PlmLock
  <1>7. ASSUME NEW a \in Agent, Other(a) PROVE NwExact' BY <1>7, NwKept DEF Other
  <1>8. ASSUME NEW a \in Agent, Unlock(a) PROVE NwExact' BY <1>8, NwKept DEF Unlock
  <1>9. ASSUME NEW t \in Task, Enter(t) PROVE NwExact' BY <1>9, NwKept DEF Enter
  <1>10. ASSUME NEW t \in Task, Clean(t) PROVE NwExact' BY <1>10, NwKept DEF Clean
  <1>11. ASSUME NEW t \in Task, SetPlink(t) PROVE NwExact' BY <1>11, NwKept DEF SetPlink
  <1>12. ASSUME NEW t \in Task, Kill(t) PROVE NwExact' BY <1>12, NwKept DEF Kill
  <1>13. ASSUME NEW t \in Task, LastFlush(t) PROVE NwExact'
    BY <1>13, NwKept DEF LastFlush
  <1>14. ASSUME NEW t \in Task, KickFail(t) PROVE NwExact'
    <2>1. Kicking' = Kicking \ {t} /\ t \in Kicking /\ Pending' = Pending
      BY <1>14 DEF KickFail, AfterKick, Kicking, Pending
    <2>2. Cardinality(Kicking') = Cardinality(Kicking) - 1
      BY <2>1, CountsFinite, FS_RemoveElement
    <2> QED BY <1>14, <2>1, <2>2, CountsFinite DEF KickFail, NwExact
  <1>15. ASSUME NEW t \in Task, Kick(t) PROVE NwExact'
    <2>1. Kicking' = Kicking \cup {t} /\ t \notin Kicking /\ Pending' = Pending
      BY <1>15 DEF Kick, Kicking, Pending
    <2>2. Cardinality(Kicking') = Cardinality(Kicking) + 1
      BY <2>1, CountsFinite, FS_AddElement
    <2> QED BY <1>15, <2>1, <2>2, CountsFinite DEF Kick, NwExact
  <1>16. ASSUME NEW t \in Task, Release(t) PROVE NwExact' BY <1>16, NwKept DEF Release
  <1>17. ASSUME NEW t \in Task, Touch(t), "touch" \in Ops PROVE NwExact'
    <2>1. Kicking' = Kicking \cup {t} /\ t \notin Kicking /\ Pending' = Pending
      BY <1>17 DEF Touch, Kicking, Pending
    <2>2. Cardinality(Kicking') = Cardinality(Kicking) + 1
      BY <2>1, CountsFinite, FS_AddElement
    <2> QED BY <1>17, <2>1, <2>2, CountsFinite DEF Touch, NwExact
  <1>18. ASSUME NEW t \in Task, NEW w \in Work, NEW k \in Kinds, KickQueue(t, w, k) PROVE NwExact'
    <2>1. Kicking' = Kicking \ {t} /\ t \in Kicking
      BY <1>18 DEF KickQueue, AfterKick, Kicking
    <2>2. Pending' = Pending \cup {w} /\ w \notin Pending
      BY <1>18 DEF KickQueue, AfterKick, Pending
    <2>3. Cardinality(Kicking') = Cardinality(Kicking) - 1
      BY <2>1, CountsFinite, FS_RemoveElement
    <2>4. Cardinality(Pending') = Cardinality(Pending) + 1
      BY <2>2, CountsFinite, FS_AddElement
    <2> QED BY <1>18, <2>3, <2>4, CountsFinite DEF KickQueue, NwExact
  <1>19. ASSUME NEW t \in Task, NEW o \in Ops \ {"touch"}, Begin(t, o) PROVE NwExact'
    BY <1>19, NwKept DEF Begin
  <1>20. ASSUME NEW t \in Task, NEW i \in Inode, AddPlink(t, i) PROVE NwExact'
    BY <1>20, NwKept DEF AddPlink
  <1>21. ASSUME NEW w \in Work, WorkDone(w) PROVE NwExact'
    <2>1. Kicking' = Kicking /\ Pending' = Pending \ {w} /\ w \in Pending
      BY <1>21 DEF WorkDone, Kicking, Pending
    <2>2. Cardinality(Pending') = Cardinality(Pending) - 1
      BY <2>1, CountsFinite, FS_RemoveElement
    <2> QED BY <1>21, <2>1, <2>2, CountsFinite DEF WorkDone, NwExact
  <1> HIDE DEF Move, Goto, fsVars, maintVars, TypeOK, OpFits, Agent
  <1> QED BY <1>1, <1>2, <1>3, <1>4, <1>5, <1>6, <1>7, <1>8, <1>9, <1>10, <1>11, <1>12,
             <1>13, <1>14, <1>15, <1>16, <1>17, <1>18, <1>19, <1>20, <1>21, NextSteps

LEMMA PhasesStep == ASSUME TypeOK, OpFits, NwExact, Phases, Next PROVE Phases'
  <1> USE AgentAssumption, OpsAssumption
      DEF Move, Goto, fsVars, maintVars, TypeOK, OpFits, Phases, Agent, TaskOps,
          WorkKinds, Modifying, Procfs, Kicking, Pending
  <1>1. ASSUME NEW a \in Agent, Flush(a) PROVE Phases' BY <1>1 DEF Flush
  <1>2. ASSUME NEW a \in Agent, Lock(a) PROVE Phases' BY <1>2 DEF Lock
  <1>3. ASSUME NEW a \in Agent, Check(a) PROVE Phases' BY <1>3 DEF Check, Refused
  <1>4. ASSUME NEW a \in Agent, PlmLoop(a) PROVE Phases' BY <1>4 DEF PlmLoop
  <1>5. ASSUME NEW a \in Agent, PlmWait(a) PROVE Phases' BY <1>5 DEF PlmWait
  <1>6. ASSUME NEW a \in Agent, PlmLock(a) PROVE Phases' BY <1>6 DEF PlmLock
  <1>7. ASSUME NEW a \in Agent, Other(a) PROVE Phases' BY <1>7 DEF Other
  <1>8. ASSUME NEW a \in Agent, Unlock(a) PROVE Phases' BY <1>8 DEF Unlock
  <1>9. ASSUME NEW t \in Task, Enter(t) PROVE Phases' BY <1>9 DEF Enter
  <1>10. ASSUME NEW t \in Task, Clean(t) PROVE Phases' BY <1>10 DEF Clean
  <1>11. ASSUME NEW t \in Task, SetPlink(t) PROVE Phases' BY <1>11 DEF SetPlink
  <1>12. ASSUME NEW t \in Task, Kill(t) PROVE Phases' BY <1>12 DEF Kill
  <1>13. ASSUME NEW t \in Task, LastFlush(t) PROVE Phases'
    <2>1. Cardinality(Kicking) = 0 /\ Cardinality(Pending) = 0
      BY <1>13, CountsFinite DEF LastFlush, NwExact
    <2>2. Kicking = {} /\ Pending = {} BY <2>1, CountsFinite, FS_EmptySet
    <2>3. Kicking' = {} /\ Pending' = {} BY <1>13, <2>2 DEF LastFlush
    <2> QED BY <1>13, <2>3 DEF LastFlush
  <1>14. ASSUME NEW t \in Task, KickFail(t) PROVE Phases'
    BY <1>14 DEF KickFail, AfterKick
  <1>15. ASSUME NEW t \in Task, Kick(t) PROVE Phases' BY <1>15 DEF Kick
  <1>16. ASSUME NEW t \in Task, Release(t) PROVE Phases' BY <1>16 DEF Release
  <1>17. ASSUME NEW t \in Task, Touch(t), "touch" \in Ops PROVE Phases'
    BY <1>17 DEF Touch
  <1>18. ASSUME NEW t \in Task, NEW w \in Work, NEW k \in Kinds, KickQueue(t, w, k) PROVE Phases'
    BY <1>18 DEF KickQueue, AfterKick
  <1>19. ASSUME NEW t \in Task, NEW o \in Ops \ {"touch"}, Begin(t, o) PROVE Phases'
    BY <1>19 DEF Begin
  <1>20. ASSUME NEW t \in Task, NEW i \in Inode, AddPlink(t, i) PROVE Phases'
    BY <1>20 DEF AddPlink
  <1>21. ASSUME NEW w \in Work, WorkDone(w) PROVE Phases' BY <1>21 DEF WorkDone
  <1> HIDE DEF Move, Goto, fsVars, maintVars, TypeOK, OpFits, Phases, Agent, TaskOps,
               WorkKinds, Modifying, Procfs, Kicking, Pending
  <1> QED BY <1>1, <1>2, <1>3, <1>4, <1>5, <1>6, <1>7, <1>8, <1>9, <1>10, <1>11, <1>12,
             <1>13, <1>14, <1>15, <1>16, <1>17, <1>18, <1>19, <1>20, <1>21, NextSteps

-----------------------------------------------------------------------------
(* Who holds the lock took it with these flags; "touch" takes no lock.      *)
Opers == (TaskOps \ {"touch"}) \cup WorkKinds \cup {"rewait"}

(* Readers and writers among the entry points, and what waits as a writer. *)
LEMMA Modes ==
  /\ \A o \in Opers : LockFlags[o].mode \in {"r", "w"}
  /\ \A o \in Opers : LockFlags[o].plm \in {"none", "NOPLM", "NOPLMW"}
  /\ \A o \in Modifying \cup {"rewait"} : LockFlags[o].mode = "r"
  /\ \A o \in Opers \ {"clean", "umount", "notify"} :
       LockFlags[o].plm = "NOPLMW" => LockFlags[o].mode = "r"
  /\ LockFlags["enter"].mode = "w" /\ LockFlags["enter"].plm = "none"
  BY DEF LockFlags, Flags, Opers, TaskOps, WorkKinds, Modifying

LEMMA HoldersFinite == IsFiniteSet(Holders) /\ Cardinality(Holders) \in Nat
  <1>1. IsFiniteSet(Agent) BY FiniteAssumption, FS_Union DEF Agent
  <1> QED BY <1>1, FS_Subset, FS_CardinalityType DEF Holders

LEMMA LockKept ==
  ASSUME LockCount, activity' = activity,
         \A a \in Agent : Holding(a)' <=> Holding(a),
         \A a \in Agent : Holding(a) => Of(a)'.mode = Of(a).mode
  PROVE  LockCount'
  <1>1. Holders' = Holders BY DEF Holders
  <1> QED BY <1>1 DEF LockCount, Holders, Lost

LEMMA LockTaken ==
  ASSUME LockCount, NEW a \in Agent, ~Holding(a), Holding(a)',
         IF Of(a).mode = "r" THEN down_read ELSE down_write,
         Of(a)' = Of(a), Of(a).mode \in {"r", "w"},
         \A b \in Agent \ {a} : (Holding(b)' <=> Holding(b)) /\ Of(b)' = Of(b)
  PROVE  LockCount'
  <1>1. Holders' = Holders \cup {a} /\ a \notin Holders BY DEF Holders
  <1>2. Cardinality(Holders') = Cardinality(Holders) + 1
    BY <1>1, HoldersFinite, FS_AddElement
  <1>3. CASE Of(a).mode = "r"
    <2>1. activity = Cardinality(Holders) /\ activity' = activity + 1
      BY <1>3 DEF LockCount, down_read, Lost
    <2>2. \A b \in Holders : Of(b).mode = "r"
      BY <1>3 DEF LockCount, down_read, Lost
    <2>3. \A b \in Holders' : Of(b)'.mode = "r"
      BY <1>1, <1>3, <2>2 DEF Holders
    <2> QED BY <1>2, <2>1, <2>3 DEF LockCount
  <1>4. CASE Of(a).mode = "w"
    <2>1. activity = 0 /\ activity' = -1 BY <1>4 DEF down_write
    <2>2. Holders = {} BY <2>1, HoldersFinite, FS_EmptySet DEF LockCount, Lost
    <2> QED BY <1>1, <1>4, <2>1, <2>2 DEF LockCount
  <1> QED BY <1>3, <1>4

LEMMA LockGiven ==
  ASSUME LockCount, NEW a \in Agent, Holding(a), ~Holding(a)', SiUnlock(a),
         \A b \in Agent \ {a} : (Holding(b)' <=> Holding(b)) /\ Of(b)' = Of(b)
  PROVE  LockCount'
  <1>1. Holders' = Holders \ {a} /\ a \in Holders BY DEF Holders
  <1>2. CASE activity = -1 /\ \E b \in Agent : Holders = {b} /\ Of(b).mode = "w"
    <2>1. Holders' = {} /\ Of(a).mode = "w" BY <1>1, <1>2
    <2>2. activity' = 0 BY <2>1 DEF SiUnlock, up_write
    <2> QED BY <2>1, <2>2, FS_EmptySet DEF LockCount
  <1>3. CASE activity = Cardinality(Holders) /\ \A b \in Holders : Of(b).mode = "r"
    <2>1. activity' = activity - 1 BY <1>1, <1>3 DEF SiUnlock, up_read
    <2>2. Cardinality(Holders') = Cardinality(Holders) - 1
      BY <1>1, HoldersFinite, FS_RemoveElement
    <2>3. \A b \in Holders' : Of(b)'.mode = "r" BY <1>1, <1>3 DEF Holders
    <2> QED BY <1>3, <2>1, <2>2, <2>3 DEF LockCount
  <1>4. ~Lost BY <1>1 DEF Lost
  <1> QED BY <1>2, <1>3, <1>4 DEF LockCount

(* A writer goes into the wait: up_read takes the count of -1 to -2.       *)
LEMMA LockLost ==
  ASSUME TypeOK, LockCount, NEW a \in Agent, Holding(a), ~Holding(a)', Of(a).mode = "w", up_read,
         \A b \in Agent \ {a} : Holding(b)' <=> Holding(b)
  PROVE  Lost'
  <1>1. Holders' = Holders \ {a} /\ a \in Holders BY DEF Holders
  <1>2. activity = -1 /\ Holders = {a} BY <1>1 DEF LockCount, Lost
  <1> QED BY <1>1, <1>2 DEF Lost, up_read

(* What is lost stays lost: nobody has it to give back, and -2 lets nobody *)
(* in.                                                                     *)
LEMMA StaysLost ==
  ASSUME Lost, NEW a \in Agent,
         \/ activity' = activity
         \/ down_read \/ down_write
         \/ Holding(a),
         \A b \in Agent : Holding(b)' => Holding(b) \/ down_read \/ down_write
  PROVE  Lost'
  <1>1. ~down_read /\ ~down_write BY DEF Lost, down_read, down_write
  <1>2. ~Holding(a) BY DEF Lost, Holders
  <1> QED BY <1>1, <1>2 DEF Lost, Holders

(* A writer is let in at once: whoever cleans is in the mode, and without  *)
(* the mode nobody waits.                                                  *)
LEMMA WriterFree ==
  ASSUME PlainMaint, LockInv, NEW a \in Agent, pc[a] = "check", ~Free(a), Of(a).plm = "NOPLMW"
  PROVE  Of(a).mode = "r"
  <1> USE AgentAssumption, OpsAssumption DEF LockInv, AloneInv, TypeOK, OpFits, Agent, MaintOwned
  <1>1. op[a] \in Opers BY DEF Opers, TaskOps
  <1>2. op[a] # "clean" BY DEF Free, Exempt, WorkKinds
  <1>3. op[a] \notin {"umount", "notify"}
    BY DEF Free, PlainMaint, WorkKinds, TaskOps
  <1> QED BY <1>1, <1>2, <1>3, Modes DEF Of

LEMMA MaintOwnedStep == ASSUME PlainMaint, LockInv, Next PROVE MaintOwned'
  <1> USE AgentAssumption, OpsAssumption
      DEF Move, Goto, fsVars, maintVars, TypeOK, OpFits, Agent, PlainMaint, LockInv,
          AloneInv, MaintOwned, Modifying
  <1>1. ASSUME NEW a \in Agent, Flush(a) PROVE MaintOwned' BY <1>1 DEF Flush
  <1>2. ASSUME NEW a \in Agent, Lock(a) PROVE MaintOwned' BY <1>2 DEF Lock
  <1>3. ASSUME NEW a \in Agent, Check(a) PROVE MaintOwned' BY <1>3 DEF Check, Refused
  <1>4. ASSUME NEW a \in Agent, PlmLoop(a) PROVE MaintOwned' BY <1>4 DEF PlmLoop
  <1>5. ASSUME NEW a \in Agent, PlmWait(a) PROVE MaintOwned' BY <1>5 DEF PlmWait
  <1>6. ASSUME NEW a \in Agent, PlmLock(a) PROVE MaintOwned' BY <1>6 DEF PlmLock
  <1>7. ASSUME NEW a \in Agent, Other(a) PROVE MaintOwned' BY <1>7 DEF Other
  <1>8. ASSUME NEW a \in Agent, Unlock(a) PROVE MaintOwned' BY <1>8 DEF Unlock
  <1>9. ASSUME NEW t \in Task, Enter(t) PROVE MaintOwned' BY <1>9 DEF Enter
  <1>10. ASSUME NEW t \in Task, Clean(t) PROVE MaintOwned' BY <1>10 DEF Clean
  <1>11. ASSUME NEW t \in Task, SetPlink(t) PROVE MaintOwned' BY <1>11 DEF SetPlink
  <1>12. ASSUME NEW t \in Task, Kill(t) PROVE MaintOwned' BY <1>12 DEF Kill
  <1>13. ASSUME NEW t \in Task, LastFlush(t) PROVE MaintOwned' BY <1>13 DEF LastFlush
  <1>14. ASSUME NEW t \in Task, KickFail(t) PROVE MaintOwned'
    BY <1>14 DEF KickFail, AfterKick
  <1>15. ASSUME NEW t \in Task, Kick(t) PROVE MaintOwned' BY <1>15 DEF Kick
  <1>16. ASSUME NEW t \in Task, Release(t) PROVE MaintOwned' BY <1>16 DEF Release
  <1>17. ASSUME NEW t \in Task, Touch(t), "touch" \in Ops PROVE MaintOwned'
    BY <1>17 DEF Touch
  <1>18. ASSUME NEW t \in Task, NEW w \in Work, NEW k \in Kinds, KickQueue(t, w, k) PROVE MaintOwned'
    BY <1>18 DEF KickQueue, AfterKick
  <1>19. ASSUME NEW t \in Task, NEW o \in Ops \ {"touch"}, Begin(t, o) PROVE MaintOwned'
    BY <1>19 DEF Begin
  <1>20. ASSUME NEW t \in Task, NEW i \in Inode, AddPlink(t, i) PROVE MaintOwned'
    BY <1>20 DEF AddPlink
  <1>21. ASSUME NEW w \in Work, WorkDone(w) PROVE MaintOwned' BY <1>21 DEF WorkDone
  <1> HIDE DEF Move, Goto, fsVars, maintVars, TypeOK, OpFits, Agent, PlainMaint,
               LockInv, AloneInv, MaintOwned, Modifying
  <1> QED BY <1>1, <1>2, <1>3, <1>4, <1>5, <1>6, <1>7, <1>8, <1>9, <1>10, <1>11, <1>12,
             <1>13, <1>14, <1>15, <1>16, <1>17, <1>18, <1>19, <1>20, <1>21, NextSteps

LEMMA WaitersReadStep == ASSUME PlainMaint, LockInv, Next PROVE WaitersRead'
  <1> USE AgentAssumption, OpsAssumption
      DEF Move, Goto, fsVars, maintVars, TypeOK, OpFits, Agent, LockInv, AloneInv, Waiting,
          WaitersRead, Of
  <1>1. ASSUME NEW a \in Agent, Flush(a) PROVE WaitersRead' BY <1>1 DEF Flush
  <1>2. ASSUME NEW a \in Agent, Lock(a) PROVE WaitersRead' BY <1>2 DEF Lock
  <1>3. ASSUME NEW a \in Agent, Check(a) PROVE WaitersRead'
    <2>1. CASE ~Free(a) /\ Of(a).plm = "NOPLMW" BY <1>3, <2>1, WriterFree DEF Check
    <2>2. CASE Free(a) \/ Of(a).plm = "NOPLM" BY <1>3, <2>2 DEF Check, Refused
    <2> QED BY <1>3, <2>1, <2>2 DEF Check
  <1>4. ASSUME NEW a \in Agent, PlmLoop(a) PROVE WaitersRead' BY <1>4 DEF PlmLoop
  <1>5. ASSUME NEW a \in Agent, PlmWait(a) PROVE WaitersRead' BY <1>5 DEF PlmWait
  <1>6. ASSUME NEW a \in Agent, PlmLock(a) PROVE WaitersRead' BY <1>6 DEF PlmLock
  <1>7. ASSUME NEW a \in Agent, Other(a) PROVE WaitersRead' BY <1>7 DEF Other
  <1>8. ASSUME NEW a \in Agent, Unlock(a) PROVE WaitersRead' BY <1>8 DEF Unlock
  <1>9. ASSUME NEW t \in Task, Enter(t) PROVE WaitersRead' BY <1>9 DEF Enter
  <1>10. ASSUME NEW t \in Task, Clean(t) PROVE WaitersRead' BY <1>10 DEF Clean
  <1>11. ASSUME NEW t \in Task, SetPlink(t) PROVE WaitersRead' BY <1>11 DEF SetPlink
  <1>12. ASSUME NEW t \in Task, Kill(t) PROVE WaitersRead' BY <1>12 DEF Kill
  <1>13. ASSUME NEW t \in Task, LastFlush(t) PROVE WaitersRead' BY <1>13 DEF LastFlush
  <1>14. ASSUME NEW t \in Task, KickFail(t) PROVE WaitersRead'
    BY <1>14 DEF KickFail, AfterKick
  <1>15. ASSUME NEW t \in Task, Kick(t) PROVE WaitersRead' BY <1>15 DEF Kick
  <1>16. ASSUME NEW t \in Task, Release(t) PROVE WaitersRead' BY <1>16 DEF Release
  <1>17. ASSUME NEW t \in Task, Touch(t), "touch" \in Ops PROVE WaitersRead'
    BY <1>17 DEF Touch
  <1>18. ASSUME NEW t \in Task, NEW w \in Work, NEW k \in Kinds, KickQueue(t, w, k) PROVE WaitersRead'
    BY <1>18 DEF KickQueue, AfterKick
  <1>19. ASSUME NEW t \in Task, NEW o \in Ops \ {"touch"}, Begin(t, o) PROVE WaitersRead'
    BY <1>19 DEF Begin
  <1>20. ASSUME NEW t \in Task, NEW i \in Inode, AddPlink(t, i) PROVE WaitersRead'
    BY <1>20 DEF AddPlink
  <1>21. ASSUME NEW w \in Work, WorkDone(w) PROVE WaitersRead' BY <1>21 DEF WorkDone
  <1> HIDE DEF Move, Goto, fsVars, maintVars, TypeOK, OpFits, Agent, LockInv, AloneInv, Waiting,
               WaitersRead, Of
  <1> QED BY <1>1, <1>2, <1>3, <1>4, <1>5, <1>6, <1>7, <1>8, <1>9, <1>10, <1>11, <1>12,
             <1>13, <1>14, <1>15, <1>16, <1>17, <1>18, <1>19, <1>20, <1>21, NextSteps

LEMMA LockCountStep == ASSUME AloneInv, Next PROVE LockCount'
  <1> USE AgentAssumption, OpsAssumption
      DEF Move, Goto, fsVars, maintVars, AloneInv, TypeOK, OpFits, Agent, Holding,
          Inside, Of, Modifying
  <1>1. ASSUME NEW a \in Agent, Flush(a) PROVE LockCount' BY <1>1, LockKept DEF Flush
  <1>2. ASSUME NEW a \in Agent, Lock(a) PROVE LockCount'
    <2>1. op[a] \in Opers /\ Of(a).mode \in {"r", "w"} BY <1>2, Modes DEF Lock, Opers
    <2> QED BY <1>2, <2>1, LockTaken DEF Lock
  <1>3. ASSUME NEW a \in Agent, Check(a) PROVE LockCount'
    <2>1. CASE Free(a) /\ Goto(a, "check", "in") /\ UNCHANGED activity BY <2>1, LockKept
    <2>2. CASE ~Free(a) /\ Of(a).plm = "NOPLMW" /\ Goto(a, "check", "plmloop") /\ UNCHANGED activity
      BY <2>2, LockKept
    <2>3. CASE ~Free(a) /\ Of(a).plm = "NOPLM" /\ Refused(a) /\ SiUnlock(a)
      BY <2>3, LockGiven DEF Refused
    <2> QED BY <1>3, <2>1, <2>2, <2>3 DEF Check
  <1>4. ASSUME NEW a \in Agent, PlmLoop(a) PROVE LockCount'
    <2>1. Of(a).mode \in {"r", "w"} BY <1>4, Modes DEF PlmLoop, Opers
    <2>2. CASE maintPid = NoTask BY <1>4, <2>2, LockKept DEF PlmLoop
    <2>3. CASE maintPid # NoTask /\ Of(a).mode = "r"
      BY <1>4, <2>3, LockGiven DEF PlmLoop, SiUnlock
    <2>4. CASE maintPid # NoTask /\ Of(a).mode = "w"
      BY <1>4, <2>4, LockLost DEF PlmLoop, LockCount
    <2> QED BY <2>1, <2>2, <2>3, <2>4
  <1>5. ASSUME NEW a \in Agent, PlmWait(a) PROVE LockCount'
    BY <1>5, LockKept DEF PlmWait
  <1>6. ASSUME NEW a \in Agent, PlmLock(a) PROVE LockCount'
    <2>1. Of(a).mode \in {"r", "w"} BY <1>6, Modes DEF PlmLock, Opers
    <2>2. ~Lost BY <1>6 DEF PlmLock, Lost, down_read
    <2>3. Of(a).mode = "r" BY <1>6, <2>1, <2>2 DEF PlmLock, WriterWaits
    <2> QED BY <1>6, <2>3, LockTaken DEF PlmLock
  <1>7. ASSUME NEW a \in Agent, Other(a) PROVE LockCount' BY <1>7, LockKept DEF Other
  <1>8. ASSUME NEW a \in Agent, Unlock(a) PROVE LockCount'
    <2>1. SiUnlock(a) /\ pc[a] = "out" /\ pc'[a] \notin {"in", "out", "kick", "check", "plmloop"}
      BY <1>8 DEF Unlock
    <2>2. \A b \in Agent \ {a} : pc'[b] = pc[b] /\ op'[b] = op[b] BY <1>8 DEF Unlock
    <2> QED BY <2>1, <2>2, LockGiven
  <1>9. ASSUME NEW t \in Task, Enter(t) PROVE LockCount' BY <1>9, LockKept DEF Enter
  <1>10. ASSUME NEW t \in Task, Clean(t) PROVE LockCount' BY <1>10, LockKept DEF Clean
  <1>11. ASSUME NEW t \in Task, SetPlink(t) PROVE LockCount'
    BY <1>11, LockKept DEF SetPlink
  <1>12. ASSUME NEW t \in Task, Kill(t) PROVE LockCount' BY <1>12, LockKept DEF Kill
  <1>13. ASSUME NEW t \in Task, LastFlush(t) PROVE LockCount'
    BY <1>13, LockKept DEF LastFlush
  <1>14. ASSUME NEW t \in Task, KickFail(t) PROVE LockCount'
    BY <1>14, LockKept DEF KickFail, AfterKick
  <1>15. ASSUME NEW t \in Task, Kick(t) PROVE LockCount' BY <1>15, LockKept DEF Kick
  <1>16. ASSUME NEW t \in Task, Release(t) PROVE LockCount'
    BY <1>16, LockKept DEF Release
  <1>17. ASSUME NEW t \in Task, Touch(t), "touch" \in Ops PROVE LockCount'
    BY <1>17, LockKept DEF Touch
  <1>18. ASSUME NEW t \in Task, NEW w \in Work, NEW k \in Kinds, KickQueue(t, w, k) PROVE LockCount'
    BY <1>18, LockKept DEF KickQueue, AfterKick
  <1>19. ASSUME NEW t \in Task, NEW o \in Ops \ {"touch"}, Begin(t, o) PROVE LockCount'
    BY <1>19, LockKept DEF Begin
  <1>20. ASSUME NEW t \in Task, NEW i \in Inode, AddPlink(t, i) PROVE LockCount'
    BY <1>20, LockKept DEF AddPlink
  <1>21. ASSUME NEW w \in Work, WorkDone(w) PROVE LockCount'
    BY <1>21, LockKept DEF WorkDone
  <1> HIDE DEF Move, Goto, fsVars, maintVars, AloneInv, TypeOK, OpFits, Agent, Holding,
               Inside, Of, Modifying
  <1> QED BY <1>1, <1>2, <1>3, <1>4, <1>5, <1>6, <1>7, <1>8, <1>9, <1>10, <1>11, <1>12,
             <1>13, <1>14, <1>15, <1>16, <1>17, <1>18, <1>19, <1>20, <1>21, NextSteps

(* A waiting writer has lost the lock, whatever comes after.               *)
LEMMA WriterWaitsStep == ASSUME AloneInv, Next PROVE WriterWaits'
  <1> USE AgentAssumption, OpsAssumption
      DEF Move, Goto, fsVars, maintVars, AloneInv, TypeOK, OpFits, Agent, Holding,
          Inside, Of, Modifying, WriterWaits
  <1> DEFINE Waits(b) == pc[b] \in {"plmwait", "plmflush", "plmlock"} /\ Of(b).mode = "w"
  <1>0. \A b \in Agent : Waits(b) => Lost BY DEF WriterWaits
  <1>1. ASSUME NEW a \in Agent, Flush(a) PROVE WriterWaits'
    <2>1. Lost => Lost' BY <1>1, StaysLost DEF Flush
    <2> QED BY <1>1, <2>1 DEF Flush
  <1>2. ASSUME NEW a \in Agent, Lock(a) PROVE WriterWaits'
    <2>1. Lost => Lost' BY <1>2, StaysLost DEF Lock
    <2> QED BY <1>2, <2>1 DEF Lock
  <1>3. ASSUME NEW a \in Agent, Check(a) PROVE WriterWaits'
    <2>1. ~Lost BY <1>3 DEF Check, Lost, Holders
    <2> QED BY <1>3, <2>1 DEF Check, Refused
  <1>4. ASSUME NEW a \in Agent, PlmLoop(a) PROVE WriterWaits'
    <2>1. ~Lost BY <1>4 DEF PlmLoop, Lost, Holders
    <2>2. \A b \in Agent \ {a} : ~Waits(b)' BY <1>4, <2>1 DEF PlmLoop
    <2>3. CASE Waits(a)'
      <3>1. Of(a).mode = "w" /\ up_read BY <1>4, <2>3 DEF PlmLoop
      <3>2. Lost' BY <1>4, <2>3, <3>1, LockLost DEF PlmLoop
      <3> QED BY <3>2
    <2> QED BY <2>2, <2>3
  <1>5. ASSUME NEW a \in Agent, PlmWait(a) PROVE WriterWaits'
    <2>1. Lost => Lost' BY <1>5, StaysLost DEF PlmWait
    <2> QED BY <1>5, <2>1 DEF PlmWait
  <1>6. ASSUME NEW a \in Agent, PlmLock(a) PROVE WriterWaits'
    <2>1. Lost => Lost' BY <1>6, StaysLost DEF PlmLock
    <2> QED BY <1>6, <2>1 DEF PlmLock
  <1>7. ASSUME NEW a \in Agent, Other(a) PROVE WriterWaits'
    <2>1. Lost => Lost' BY <1>7, StaysLost DEF Other
    <2> QED BY <1>7, <2>1 DEF Other
  <1>8. ASSUME NEW a \in Agent, Unlock(a) PROVE WriterWaits'
    <2>1. ~Lost BY <1>8 DEF Unlock, Lost, Holders
    <2> QED BY <1>8, <2>1 DEF Unlock
  <1>9. ASSUME NEW t \in Task, Enter(t) PROVE WriterWaits'
    <2>1. Lost => Lost' BY <1>9, StaysLost DEF Enter
    <2> QED BY <1>9, <2>1 DEF Enter
  <1>10. ASSUME NEW t \in Task, Clean(t) PROVE WriterWaits'
    <2>1. Lost => Lost' BY <1>10, StaysLost DEF Clean
    <2> QED BY <1>10, <2>1 DEF Clean
  <1>11. ASSUME NEW t \in Task, SetPlink(t) PROVE WriterWaits'
    <2>1. Lost => Lost' BY <1>11, StaysLost DEF SetPlink
    <2> QED BY <1>11, <2>1 DEF SetPlink
  <1>12. ASSUME NEW t \in Task, Kill(t) PROVE WriterWaits'
    <2>1. Lost => Lost' BY <1>12, StaysLost DEF Kill
    <2> QED BY <1>12, <2>1 DEF Kill
  <1>13. ASSUME NEW t \in Task, LastFlush(t) PROVE WriterWaits'
    <2>1. Lost => Lost' BY <1>13, StaysLost DEF LastFlush
    <2> QED BY <1>13, <2>1 DEF LastFlush
  <1>14. ASSUME NEW t \in Task, KickFail(t) PROVE WriterWaits'
    <2>1. Lost => Lost' BY <1>14, StaysLost DEF KickFail, AfterKick
    <2> QED BY <1>14, <2>1 DEF KickFail, AfterKick
  <1>15. ASSUME NEW t \in Task, Kick(t) PROVE WriterWaits'
    <2>1. Lost => Lost' BY <1>15, StaysLost DEF Kick
    <2> QED BY <1>15, <2>1 DEF Kick
  <1>16. ASSUME NEW t \in Task, Release(t) PROVE WriterWaits'
    <2>1. Lost => Lost' BY <1>16, StaysLost DEF Release
    <2> QED BY <1>16, <2>1 DEF Release
  <1>17. ASSUME NEW t \in Task, Touch(t), "touch" \in Ops PROVE WriterWaits'
    <2>1. Lost => Lost' BY <1>17, StaysLost DEF Touch
    <2> QED BY <1>17, <2>1 DEF Touch
  <1>18. ASSUME NEW t \in Task, NEW w \in Work, NEW k \in Kinds, KickQueue(t, w, k) PROVE WriterWaits'
    <2>1. Lost => Lost' BY <1>18, StaysLost DEF KickQueue, AfterKick
    <2> QED BY <1>18, <2>1 DEF KickQueue, AfterKick
  <1>19. ASSUME NEW t \in Task, NEW o \in Ops \ {"touch"}, Begin(t, o) PROVE WriterWaits'
    <2>1. Lost => Lost' BY <1>19, StaysLost DEF Begin
    <2> QED BY <1>19, <2>1 DEF Begin
  <1>20. ASSUME NEW t \in Task, NEW i \in Inode, AddPlink(t, i) PROVE WriterWaits'
    <2>1. Lost => Lost' BY <1>20, StaysLost DEF AddPlink
    <2> QED BY <1>20, <2>1 DEF AddPlink
  <1>21. ASSUME NEW w \in Work, WorkDone(w) PROVE WriterWaits'
    <2>1. Lost => Lost' BY <1>21, StaysLost DEF WorkDone
    <2> QED BY <1>21, <2>1 DEF WorkDone
  <1> HIDE DEF Move, Goto, fsVars, maintVars, AloneInv, TypeOK, OpFits, Agent, Holding,
               Inside, Of, Modifying, WriterWaits
  <1> QED BY <1>1, <1>2, <1>3, <1>4, <1>5, <1>6, <1>7, <1>8, <1>9, <1>10, <1>11, <1>12,
             <1>13, <1>14, <1>15, <1>16, <1>17, <1>18, <1>19, <1>20, <1>21, NextSteps

(* The mode begins under the lock held for write, so nobody else is inside *)
(* then (plink.c:111-131); afterwards only its owners get in.              *)
LEMMA OwnersInsideStep == ASSUME PlainMaint, LockInv, Next PROVE OwnersInside'
  <1> USE AgentAssumption, OpsAssumption
      DEF Move, Goto, fsVars, maintVars, LockInv, AloneInv, TypeOK, OpFits, Agent, Holding,
          Inside, Of, OwnersInside, Exempt, Modifying
  <1>1. ASSUME NEW a \in Agent, Flush(a) PROVE OwnersInside' BY <1>1 DEF Flush
  <1>2. ASSUME NEW a \in Agent, Lock(a) PROVE OwnersInside' BY <1>2 DEF Lock
  <1>3. ASSUME NEW a \in Agent, Check(a) PROVE OwnersInside'
    <2>1. CASE Free(a) /\ Goto(a, "check", "in")
      BY <1>3, <2>1 DEF Check, Free, MaintOwned
    <2>2. CASE ~Free(a) BY <1>3, <2>2 DEF Check, Refused
    <2> QED BY <1>3, <2>1, <2>2 DEF Check
  <1>4. ASSUME NEW a \in Agent, PlmLoop(a) PROVE OwnersInside' BY <1>4 DEF PlmLoop
  <1>5. ASSUME NEW a \in Agent, PlmWait(a) PROVE OwnersInside' BY <1>5 DEF PlmWait
  <1>6. ASSUME NEW a \in Agent, PlmLock(a) PROVE OwnersInside' BY <1>6 DEF PlmLock
  <1>7. ASSUME NEW a \in Agent, Other(a) PROVE OwnersInside' BY <1>7 DEF Other
  <1>8. ASSUME NEW a \in Agent, Unlock(a) PROVE OwnersInside' BY <1>8 DEF Unlock
  <1>9. ASSUME NEW t \in Task, Enter(t) PROVE OwnersInside'
    <2>1. t \in Holders /\ Of(t).mode = "w" /\ Of(t).plm = "none"
      BY <1>9, Modes DEF Enter, Holders
    <2>2. \A b \in Agent \ {t} : ~Inside(b) BY <2>1 DEF LockCount, Holders, Lost
    <2>3. Of(t)'.plm = "none" BY <1>9, <2>1 DEF Enter
    <2>4. \A b \in Agent \ {t} : ~Inside(b)' BY <1>9, <2>2 DEF Enter
    <2> QED BY <2>3, <2>4
  <1>10. ASSUME NEW t \in Task, Clean(t) PROVE OwnersInside' BY <1>10 DEF Clean
  <1>11. ASSUME NEW t \in Task, SetPlink(t) PROVE OwnersInside' BY <1>11 DEF SetPlink
  <1>12. ASSUME NEW t \in Task, Kill(t) PROVE OwnersInside' BY <1>12 DEF Kill
  <1>13. ASSUME NEW t \in Task, LastFlush(t) PROVE OwnersInside' BY <1>13 DEF LastFlush
  <1>14. ASSUME NEW t \in Task, KickFail(t) PROVE OwnersInside'
    BY <1>14 DEF KickFail, AfterKick
  <1>15. ASSUME NEW t \in Task, Kick(t) PROVE OwnersInside' BY <1>15 DEF Kick
  <1>16. ASSUME NEW t \in Task, Release(t) PROVE OwnersInside' BY <1>16 DEF Release
  <1>17. ASSUME NEW t \in Task, Touch(t), "touch" \in Ops PROVE OwnersInside'
    BY <1>17 DEF Touch
  <1>18. ASSUME NEW t \in Task, NEW w \in Work, NEW k \in Kinds, KickQueue(t, w, k) PROVE OwnersInside'
    BY <1>18 DEF KickQueue, AfterKick
  <1>19. ASSUME NEW t \in Task, NEW o \in Ops \ {"touch"}, Begin(t, o) PROVE OwnersInside'
    BY <1>19 DEF Begin
  <1>20. ASSUME NEW t \in Task, NEW i \in Inode, AddPlink(t, i) PROVE OwnersInside'
    BY <1>20 DEF AddPlink
  <1>21. ASSUME NEW w \in Work, WorkDone(w) PROVE OwnersInside' BY <1>21 DEF WorkDone
  <1> HIDE DEF Move, Goto, fsVars, maintVars, LockInv, AloneInv, TypeOK, OpFits, Agent, Holding,
               Inside, Of, OwnersInside, Exempt, Modifying
  <1> QED BY <1>1, <1>2, <1>3, <1>4, <1>5, <1>6, <1>7, <1>8, <1>9, <1>10, <1>11, <1>12,
             <1>13, <1>14, <1>15, <1>16, <1>17, <1>18, <1>19, <1>20, <1>21, NextSteps

-----------------------------------------------------------------------------
LEMMA KillInvInit == Init => KillInv
  <1> SUFFICES ASSUME Init PROVE KillInv OBVIOUS
  <1> USE AgentAssumption, BoundAssumption DEF Init
  <1>1. TypeOK /\ OpFits BY DEF TypeOK, OpFits, Pc, Agent
  <1>2. Kicking = {} /\ Pending = {} BY DEF Kicking, Pending, Agent
  <1>3. NwExact BY <1>2, FS_EmptySet DEF NwExact
  <1>4. Phases BY DEF Phases, Agent
  <1> QED BY <1>1, <1>3, <1>4 DEF KillInv

LEMMA KillInvStep == KillInv /\ [Next]_vars => KillInv'
  <1> SUFFICES ASSUME KillInv, [Next]_vars PROVE KillInv' OBVIOUS
  <1>1. CASE Next
    BY <1>1, TypeStep, OpFitsStep, NwStep, PhasesStep DEF KillInv
  <1>2. CASE UNCHANGED vars
    BY <1>2 DEF vars, KillInv, TypeOK, OpFits, NwExact, Phases, Kicking, Pending
  <1> QED BY <1>1, <1>2

(* After aufs_kill_sb no work is pending or being queued, and no pseudo    *)
(* link outlives its option or the mount, whatever calls are made          *)
(* (super.c:995, sbinfo.c:35).                                             *)
THEOREM NothingAfterKill == Spec => []KillIsFinal
  <1>1. KillInv => KillIsFinal
    BY DEF KillInv, Phases, KillIsFinal, Kicking, Pending, TypeOK
  <1> QED BY <1>1, KillInvInit, KillInvStep, PTL DEF Spec

LEMMA AloneInvInit == Init => AloneInv
  <1> SUFFICES ASSUME Init PROVE AloneInv OBVIOUS
  <1>1. TypeOK /\ OpFits BY KillInvInit DEF KillInv
  <1>2. WriterWaits BY DEF Init, WriterWaits
  <1>3. Holders = {} BY DEF Init, Holders, Holding, Inside
  <1>4. LockCount BY <1>3, FS_EmptySet DEF Init, LockCount
  <1> QED BY <1>1, <1>2, <1>4 DEF AloneInv

LEMMA AloneInvStep == AloneInv /\ [Next]_vars => AloneInv'
  <1> SUFFICES ASSUME AloneInv, [Next]_vars PROVE AloneInv' OBVIOUS
  <1>1. CASE Next
    BY <1>1, TypeStep, OpFitsStep, LockCountStep, WriterWaitsStep DEF AloneInv
  <1>2. CASE UNCHANGED vars
    <2> USE <1>2 DEF vars, AloneInv
    <2>1. TypeOK' /\ OpFits' BY DEF TypeOK, OpFits
    <2>2. Holders' = Holders BY DEF Holders, Holding, Inside
    <2>3. LockCount' BY <2>2 DEF LockCount, Lost, Of
    <2>4. WriterWaits' BY <2>2 DEF WriterWaits, Lost, Of
    <2> QED BY <2>1, <2>3, <2>4
  <1> QED BY <1>1, <1>2

(* Whoever took si_rwsem for write is alone under it, for any number of    *)
(* processes and works and every kind of call, those included that wait    *)
(* for the maintenance mode as writers (plink.c:72-79).                    *)
THEOREM WritersAreAlone == Spec => []WriterAlone
  <1>1. AloneInv => WriterAlone
    BY DEF AloneInv, LockCount, Lost, Holders, WriterAlone
  <1> QED BY <1>1, AloneInvInit, AloneInvStep, PTL DEF Spec

LEMMA LockInvInit == Init => LockInv
  <1> SUFFICES ASSUME Init PROVE LockInv OBVIOUS
  <1>1. MaintOwned BY DEF Init, MaintOwned, Agent
  <1>2. WaitersRead /\ OwnersInside BY DEF Init, WaitersRead, Waiting, OwnersInside, Inside
  <1> QED BY <1>1, <1>2, AloneInvInit DEF LockInv

LEMMA LockInvStep == ASSUME PlainMaint PROVE LockInv /\ [Next]_vars => LockInv'
  <1> SUFFICES ASSUME LockInv, [Next]_vars PROVE LockInv' OBVIOUS
  <1>0. AloneInv' BY AloneInvStep DEF LockInv
  <1>1. CASE Next
    BY <1>0, <1>1, MaintOwnedStep, WaitersReadStep, OwnersInsideStep DEF LockInv
  <1>2. CASE UNCHANGED vars
    <2> USE <1>2 DEF vars, LockInv
    <2>1. MaintOwned' /\ WaitersRead' BY DEF MaintOwned, WaitersRead, Of
    <2>2. OwnersInside' BY DEF OwnersInside, Inside, Of, Exempt
    <2> QED BY <1>0, <2>1, <2>2
  <1> QED BY <1>1, <1>2

(* While a process holds the maintenance mode nobody but it and its        *)
(* children is inside with pseudo links (plink.c:26-27).                   *)
THEOREM MaintIsExclusive == ASSUME PlainMaint PROVE Spec => []MaintExclusive
  <1>1. LockInv => MaintExclusive
    BY AgentAssumption, ParentAssumption
    DEF LockInv, AloneInv, MaintOwned, OwnersInside, MaintExclusive, Exempt, TypeOK
  <1> QED BY <1>1, LockInvInit, LockInvStep, PTL DEF Spec

=============================================================================
