--------------------------- MODULE SoloBootProofs ---------------------------
(***************************************************************************)
(* Proofs about SoloBoot, for any number of tarballs and of faults.        *)
(***************************************************************************)
EXTENDS SoloBoot, TLAPS

(* What the commands keep of the types.  A command on a partition that     *)
(* does not exist changes nothing.                                         *)
LEMMA BlankType == ASSUME NEW f \in {"raw", "broken", "fs"} PROVE Blank(f) \in Contents
  BY DEF Blank, Contents, NoImage, Tar, Flag

LEMMA MkpartType ==
  ASSUME TypeOK, NEW r \in Region, Mkpart(r)
  PROVE  ptab' \in [2 .. 4 -> Region \cup {NoPart}]
  BY DEF TypeOK, Mkpart

LEMMA RmType ==
  ASSUME TypeOK, NEW n \in 2 .. 4, PartedRm(n)
  PROVE  ptab' \in [2 .. 4 -> Region \cup {NoPart}]
  BY DEF TypeOK, PartedRm

LEMMA MkfsType ==
  ASSUME TypeOK, NEW n \in 2 .. 4, Mkfs(n)
  PROVE  disk' \in [Region -> Contents] /\ cache' \in [Region -> Contents]
  <1> DEFINE b == Blank("fs")
  <1>1. b \in Contents BY BlankType
  <1> HIDE DEF b
  <1>2. CASE ptab[n] = NoPart BY <1>2 DEF Mkfs, TypeOK
  <1>3. CASE ptab[n] # NoPart
    <2>1. disk' = [disk EXCEPT ![ptab[n]] = b] /\ cache' = [cache EXCEPT ![ptab[n]] = b]
      BY <1>3 DEF Mkfs, b
    <2> QED BY <1>1, <2>1 DEF TypeOK
  <1> QED BY <1>2, <1>3

LEMMA SpoilType ==
  ASSUME TypeOK, NEW r, Spoil(r)
  PROVE  disk' \in [Region -> Contents] /\ cache' \in [Region -> Contents]
  <1> DEFINE b == Blank("broken")
  <1>1. b \in Contents BY BlankType
  <1>2. disk' = [disk EXCEPT ![r] = b] /\ cache' = [cache EXCEPT ![r] = b] BY DEF Spoil
  <1> HIDE DEF b
  <1> QED BY <1>1, <1>2 DEF TypeOK

LEMMA WriteType ==
  ASSUME TypeOK, NEW n, NEW c, Write(n, c), ptab[n] \in Region => c \in Contents
  PROVE  cache' \in [Region -> Contents]
  BY DEF TypeOK, Write

LEMMA ScriptType == ASSUME TypeOK, Script PROVE TypeOK'
  <1> DEFINE CardOK == disk' \in [Region -> Contents] /\ cache' \in [Region -> Contents]
             TabOK  == ptab' \in [2 .. 4 -> Region \cup {NoPart}]
  <1>a. (Mkfs(2) => CardOK) /\ (Mkfs(3) => CardOK) /\ (Mkfs(4) => CardOK)
    BY MkfsType
  <1>b. (Mkpart("mb100") => TabOK) /\ (Mkpart("mb200") => TabOK) /\ (Mkpart("mb300") => TabOK)
    BY MkpartType DEF Region
  <1>c. (PartedRm(2) => TabOK) /\ (PartedRm(3) => TabOK) /\ (PartedRm(4) => TabOK)
    BY RmType
  <1>d. cache[ptab[4]] \in Contents \/ ptab[4] \notin Region
    BY DEF TypeOK
  <1>e. cache[ptab[2]] \in Contents \/ ptab[2] \notin Region
    BY DEF TypeOK
  <1> DEFINE SmallOK == /\ ret' \in {"boot", "reset"} /\ force' \in BOOLEAN /\ root' \in {1, 2}
                        /\ latest' \in Tar \cup {Unset, 0} /\ uboot' \in {"ok", "dirty", "bad", "torn"}
                        /\ led' \in BOOLEAN /\ faults' \in Nat
                        /\ failed' \in {NoneFailed, "mkfs"} \cup Silent
  <1>f. pc' \in Label /\ SmallOK /\ TabOK /\ CardOK => TypeOK'
    BY DEF TypeOK
  <1> USE DEF At, Goto
  <1>1. CASE Main
    <2>1. pc' \in Label BY <1>1 DEF Main, Label
    <2>2. SmallOK BY <1>1 DEF Main, TypeOK
    <2>3. TabOK /\ CardOK BY <1>1 DEF Main, TypeOK
    <2> QED BY <2>1, <2>2, <2>3, <1>f
  <1>2. CASE remove_partitions BY <1>2, <1>c DEF remove_partitions, TypeOK, Label
  <1>3. CASE create_partitions
    <2>1. pc' \in Label BY <1>3 DEF create_partitions, Label
    <2>2. SmallOK BY <1>3 DEF create_partitions, TypeOK
    <2>3. TabOK /\ CardOK BY <1>3, <1>a, <1>b DEF create_partitions, TypeOK
    <2> QED BY <2>1, <2>2, <2>3, <1>f
  <1>4. CASE factory_reset BY <1>4 DEF factory_reset, TypeOK, Label
  <1>5. CASE checkLog
    <2>1. pc' \in Label BY <1>5 DEF checkLog, Label
    <2>2. SmallOK BY <1>5 DEF checkLog, TypeOK
    <2>3. TabOK /\ CardOK BY <1>5, <1>a, <1>b, <1>c DEF checkLog, TypeOK, MntLogExists
    <2> QED BY <2>1, <2>2, <2>3, <1>f
  <1>6. CASE checkUpdate
    <2>1. Write(4, [cache[ptab[4]] EXCEPT !.files = @ \ {"READY"}])
            => cache' \in [Region -> Contents]
      <3> DEFINE c == [cache[ptab[4]] EXCEPT !.files = @ \ {"READY"}]
      <3>1. ptab[4] \in Region => c \in Contents
        BY <1>d DEF Contents
      <3> QED BY <3>1, WriteType
    <2>3. pc' \in Label BY <1>6 DEF checkUpdate, Label
    <2>4. SmallOK BY <1>6 DEF checkUpdate, TypeOK
    <2>5. TabOK /\ CardOK BY <1>6, <2>1 DEF checkUpdate, TypeOK
    <2> QED BY <2>3, <2>4, <2>5, <1>f
  <1>7. CASE readySync BY <1>7 DEF readySync, Sync, DdDone, TypeOK, Label
  <1>8. CASE findTarball BY <1>8 DEF findTarball, TypeOK, Label
  <1>9. CASE updateFailed
    <2> DEFINE log == cache[ptab[4]]
    <2>1. ptab[4] \in Region =>
             /\ [log EXCEPT !.tars[latest] = "none"] \in Contents
             /\ [log EXCEPT !.md5 = @ \ {latest}] \in Contents
             /\ [log EXCEPT !.files = @ \ {"UPDATE"}] \in Contents
             /\ [log EXCEPT !.files = @ \cup {"UPDATEFAILED"}] \in Contents
      BY <1>d DEF Contents, Flag
    <2>2. /\ Write(4, [log EXCEPT !.tars[latest] = "none"]) => cache' \in [Region -> Contents]
          /\ Write(4, [log EXCEPT !.md5 = @ \ {latest}]) => cache' \in [Region -> Contents]
          /\ Write(4, [log EXCEPT !.files = @ \ {"UPDATE"}]) => cache' \in [Region -> Contents]
          /\ Write(4, [log EXCEPT !.files = @ \cup {"UPDATEFAILED"}]) => cache' \in [Region -> Contents]
      BY <2>1, WriteType
    <2>3. pc' \in Label BY <1>9 DEF updateFailed, Label
    <2>4. SmallOK BY <1>9 DEF updateFailed, TypeOK
    <2>5. TabOK /\ CardOK BY <1>9, <2>2 DEF updateFailed, TypeOK
    <2> QED BY <2>3, <2>4, <2>5, <1>f
  <1>10. CASE updateLatest
    <2> DEFINE log == cache[ptab[4]]
               lat == cache[ptab[2]]
               img == IF log.tars[latest] = "good" THEN latest ELSE Corrupt
    <2>1. /\ ptab[2] \in Region => [lat EXCEPT !.image = Partial] \in Contents
          /\ ptab[2] \in Region => [lat EXCEPT !.image = img] \in Contents
          /\ ptab[4] \in Region => [log EXCEPT !.files = @ \ {"UPDATE"}] \in Contents
      BY <1>d, <1>e DEF Contents, TypeOK, Unset, NoImage, Partial, Corrupt
    <2>2. /\ Write(2, [lat EXCEPT !.image = Partial]) => cache' \in [Region -> Contents]
          /\ Write(2, [lat EXCEPT !.image = img]) => cache' \in [Region -> Contents]
          /\ Write(4, [log EXCEPT !.files = @ \ {"UPDATE"}]) => cache' \in [Region -> Contents]
      BY <2>1, WriteType
    <2>3. pc' \in Label BY <1>10 DEF updateLatest, Label
    <2>4. SmallOK
      <3>1. /\ ret' = ret /\ force' = force /\ root' = root /\ latest' = latest
            /\ uboot' \in {uboot, "dirty", "bad"} /\ led' \in {led, FALSE}
        BY <1>10 DEF updateLatest
      <3>2. faults' \in {faults, faults + 1} /\ failed' \in {failed, "mkfs", "mount", "tar"}
        <4>1. Works => faults' = faults /\ failed' = failed BY DEF Works
        <4>2. /\ Fails("mkfs")  => faults' = faults + 1 /\ failed' = "mkfs"
              /\ Fails("mount") => faults' = faults + 1 /\ failed' = "mount"
              /\ Fails("tar")   => faults' = faults + 1 /\ failed' = "tar"
          BY DEF Fails
        <4> QED BY <1>10, <4>1, <4>2 DEF updateLatest
      <3>3. uboot' \in {"ok", "dirty", "bad", "torn"} /\ led' \in BOOLEAN
        <4>1. uboot \in {"ok", "dirty", "bad", "torn"} /\ led \in BOOLEAN BY DEF TypeOK
        <4> QED BY <3>1, <4>1
      <3>4. faults' \in Nat
        <4>1. faults \in Nat BY DEF TypeOK
        <4> QED BY <3>2, <4>1
      <3>5. failed' \in {NoneFailed, "mkfs"} \cup Silent
        BY <3>2 DEF TypeOK, Silent
      <3>6. ret' \in {"boot", "reset"} /\ force' \in BOOLEAN /\ root' \in {1, 2}
            /\ latest' \in Tar \cup {Unset, 0}
        BY <3>1 DEF TypeOK
      <3> QED BY <3>3, <3>4, <3>5, <3>6
    <2>5. Spoil(ptab[2]) => CardOK BY SpoilType
    <2>6. CASE pc = "upMkfs"
      <3>1. ptab' = ptab /\ (Mkfs(2) \/ UNCHANGED <<disk, cache>> \/ Spoil(ptab[2]))
        BY <1>10, <2>6 DEF updateLatest
      <3> QED BY <1>a, <1>f, <2>3, <2>4, <2>5, <3>1 DEF TypeOK
    <2>7. CASE pc # "upMkfs"
      <3>1. TabOK /\ CardOK BY <1>10, <2>2, <2>7 DEF updateLatest, TypeOK
      <3> QED BY <2>3, <2>4, <3>1, <1>f
    <2> QED BY <2>6, <2>7
  <1>11. CASE resetSettings
    <2>1. pc' \in Label BY <1>11 DEF resetSettings, Label
    <2>2. SmallOK BY <1>11 DEF resetSettings, TypeOK
    <2>3. TabOK /\ CardOK BY <1>11, <1>a, <1>b, <1>c DEF resetSettings, TypeOK
    <2> QED BY <2>1, <2>2, <2>3, <1>f
  <1>12. CASE syncAndShutdown BY <1>12 DEF syncAndShutdown, Sync, DdDone, TypeOK, Label
  <1>13. CASE mount_and_boot
    <2>1. pc' \in Label BY <1>13 DEF mount_and_boot, Label
    <2>2. SmallOK BY <1>13 DEF mount_and_boot, TypeOK
    <2>3. TabOK /\ CardOK BY <1>13, <1>a DEF mount_and_boot, TypeOK
    <2> QED BY <2>1, <2>2, <2>3, <1>f
  <1> QED BY <1>1, <1>2, <1>3, <1>4, <1>5, <1>6, <1>7, <1>8, <1>9, <1>10, <1>11, <1>12, <1>13
          DEF Script

LEMMA EnvType ==
  ASSUME TypeOK,
         PowerOn \/ Request \/ MarkReady \/ ChangeSettings \/ Restart \/ Flush \/ PowerLoss \/ Damage
  PROVE  TypeOK'
  <1> USE DEF At, Goto
  <1>a. \A n \in 2 .. 4 : Mounts(n) => ptab[n] \in Region
    BY DEF TypeOK, Mounts
  <1>b. Blank("broken") \in Contents BY BlankType
  <1>1. CASE PowerOn BY <1>1 DEF PowerOn, TypeOK, Label
  <1>2. CASE Request
    <2>1. cache[ptab[4]] \in Contents
      BY <1>2, <1>a DEF Request, TypeOK
    <2>2. PICK fs \in Requests, t \in Tar, q \in {"none", "good", "bad"}, m \in BOOLEAN :
            /\ disk'  = [disk EXCEPT ![ptab[4]] = Staged(cache[ptab[4]], fs, t, q, m)]
            /\ cache' = [cache EXCEPT ![ptab[4]] = Staged(cache[ptab[4]], fs, t, q, m)]
      BY <1>2 DEF Request
    <2>3. Staged(cache[ptab[4]], fs, t, q, m) \in Contents
      BY <2>1 DEF Staged, Contents, Flag, Requests
    <2>4. disk' \in [Region -> Contents] /\ cache' \in [Region -> Contents]
      BY <2>2, <2>3 DEF TypeOK
    <2> QED BY <1>2, <2>4 DEF Request, TypeOK
  <1>3. CASE MarkReady
    <2>1. \A c \in Contents : [c EXCEPT !.files = @ \cup {"READY"}] \in Contents
      BY DEF Contents, Flag
    <2>2. ptab[4] \in Region BY <1>3, <1>a DEF MarkReady
    <2>3. disk' \in [Region -> Contents] /\ cache' \in [Region -> Contents]
      BY <1>3, <2>1, <2>2 DEF MarkReady, TypeOK
    <2> QED BY <1>3, <2>3 DEF MarkReady, TypeOK
  <1>4. CASE ChangeSettings
    <2>1. \A c \in Contents : [c EXCEPT !.used = TRUE] \in Contents
      BY DEF Contents
    <2>2. ptab[3] \in Region BY <1>4, <1>a DEF ChangeSettings
    <2>3. disk' \in [Region -> Contents] /\ cache' \in [Region -> Contents]
      BY <1>4, <2>1, <2>2 DEF ChangeSettings, TypeOK
    <2> QED BY <1>4, <2>3 DEF ChangeSettings, TypeOK
  <1>5. CASE Restart BY <1>5 DEF Restart, TypeOK, Label
  <1>6. CASE Flush BY <1>6 DEF Flush, DdDone, TypeOK
  <1>7. CASE PowerLoss
    <2> DEFINE b == Blank("broken")
               form == Formatting
    <2>0. b \in Contents BY <1>b
    <2> HIDE DEF b, form
    <2>1. PICK torn \in BOOLEAN :
            /\ disk' = [r \in Region |-> IF torn /\ r = form THEN b ELSE disk[r]]
            /\ cache' = disk'
            /\ uboot' = IF uboot \in {"dirty", "bad"} THEN IF torn THEN "torn" ELSE "ok" ELSE uboot
      BY <1>7 DEF PowerLoss, b, form
    <2>2. disk' \in [Region -> Contents] /\ cache' \in [Region -> Contents]
      BY <2>1, <2>0 DEF TypeOK
    <2> QED BY <1>7, <2>1, <2>2 DEF PowerLoss, TypeOK, Label
  <1>8. CASE Damage
    <2>1. disk' \in [Region -> Contents] /\ cache' \in [Region -> Contents]
      BY <1>8, SpoilType DEF Damage
    <2> QED BY <1>8, <2>1 DEF Damage, TypeOK
  <1> QED BY <1>1, <1>2, <1>3, <1>4, <1>5, <1>6, <1>7, <1>8

LEMMA NextType == ASSUME TypeOK, [Next]_vars PROVE TypeOK'
  <1>1. CASE UNCHANGED vars BY <1>1 DEF vars, TypeOK
  <1>2. CASE Next BY <1>2, ScriptType, EnvType DEF Next
  <1> QED BY <1>1, <1>2

LEMMA InitType == Init => TypeOK
  <1> SUFFICES ASSUME Init PROVE TypeOK OBVIOUS
  <1>1. Blank("raw") \in Contents BY BlankType
  <1> QED BY <1>1 DEF Init, TypeOK, Label

(* The state keeps its types through every command, restart and fault,     *)
(* with commands on missing partitions included.                           *)
THEOREM TypeCorrect == Spec => []TypeOK
  BY InitType, NextType, PTL DEF Spec

-----------------------------------------------------------------------------
(* The inductive invariant.  Tables: what the partition numbers can denote *)
(* (2 is the LATEST region or missing, 3 and 4 never the same region).     *)
Tables ==
  /\ ptab[2] \in {NoPart, "mb100"}
  /\ ptab[3] \in {NoPart, "mb200", "mb300"} /\ ptab[4] \in {NoPart, "mb200", "mb300"}
  /\ ptab[3] = ptab[4] => ptab[3] = NoPart

Fresh(r) == disk[r] = Blank("fs") /\ cache[r] = Blank("fs")

(* How far create_partitions and, in a reset, remove_partitions have come. *)
Progress ==
  /\ pc \in {"rm2", "rm3", "rm4", "resetDd"} => ret = "reset"
  /\ pc \in {"rm3", "rm4", "mkpart2"} => ptab[2] = NoPart
  /\ pc \in {"mkpart3", "mkpart4"} => ptab[2] = "mb100"
  /\ pc = "rm4" \/ (pc \in {"mkpart2", "mkpart3"} /\ ret = "reset") => ptab[3] = NoPart
  /\ pc \in {"mkpart2", "mkpart3", "mkpart4"} /\ ret = "reset" => ptab[4] = NoPart
  /\ pc = "mkpart4" /\ ret = "reset" => ptab[3] = "mb200"
  /\ pc \in {"mkfs2", "mkfs3", "mkfs4", "resetDd"} /\ ret = "reset" => StandardLayout
  /\ pc \in {"mkfs3", "mkfs4", "resetDd"} /\ ret = "reset" => Fresh("mb100")
  /\ pc \in {"mkfs4", "resetDd"} /\ ret = "reset" => Fresh("mb200")
  /\ pc = "resetDd" => Fresh("mb300")

(* The settings reset deletes and makes partitions 3 and 4.                *)
Resetting ==
  /\ pc \in {"rsRm4", "rsMkpart3"} => ptab[3] = NoPart
  /\ pc \in {"rsMkpart3", "rsMkpart4"} => ptab[4] = NoPart
  /\ pc = "rsMkpart4" => ptab[3] = "mb200"
  /\ pc \in {"rsMkfs3", "rsMkfs4"} => ptab[3] = "mb200" /\ ptab[4] = "mb300"

SearchPc  == {"readySync", "findTarball"}
FailPc    == {"failRmTar", "failRmMd5", "failRmUpdate", "failNote"}
ExtractPc == {"upMkfs", "upMount", "upTar", "upTarDone"}
DonePc    == {"upDd", "upRmUpdate", "umountLog", "umountLatest"}
ResetPc   == {"rsRm3", "rsRm4", "rsMkpart3", "rsMkpart4", "rsMkfs3", "rsMkfs4"}
BeforePc  == {"start", "rm2", "rm3", "rm4", "mkpart2", "mkpart3", "mkpart4", "mkfs2", "mkfs3",
              "mkfs4", "resetDd", "checkLog", "ckRm4", "ckMkpart", "ckMkfs4", "ckReady",
              "checkUpdate"} \cup SearchPc
LatestPc  == {"checkLog", "ckRm4", "ckMkpart", "ckMkfs4", "ckReady", "checkUpdate"}
               \cup SearchPc \cup FailPc \cup ExtractPc \cup DonePc \cup ResetPc

(* Which partitions the update works on.                                   *)
Mounted ==
  /\ pc \in LatestPc => ptab[2] = "mb100"
  /\ pc \in SearchPc \cup FailPc \cup ExtractPc \cup DonePc => ptab[4] # NoPart
  /\ pc \in BeforePc => latest = Unset

(* What is known of the request's outcome.                                 *)
Extracted ==
  latest \in Tar /\ (cache[ptab[2]].image = latest \/ failed \in Silent)
Settled(card) ==
  /\ ptab[4] # NoPart /\ ptab[2] = "mb100"
  /\ "UPDATE" \notin card[ptab[4]].files
  /\ \/ latest # 0 /\ card[ptab[2]].image = latest
     \/ "UPDATEFAILED" \in card[ptab[4]].files
     \/ failed \in Silent

Outcome ==
  /\ pc \in ExtractPc => latest \in Tar /\ cache[ptab[4]].tars[latest] = "good"
  /\ pc \in DonePc => Extracted
  /\ pc \in ResetPc /\ latest # Unset => Extracted
  /\ pc \in {"umountLog", "umountLatest", "failNote"} => "UPDATE" \notin cache[ptab[4]].files
  /\ pc \in {"sync", "shutdown"} /\ latest # Unset => Settled(cache)
  /\ pc = "shutdown" => disk = cache

IInv == TypeOK /\ Tables /\ Progress /\ Resetting /\ Mounted /\ Outcome /\ VerifiedImageOnly

(* What parted does to a table of the shape that Tables describes.         *)
LEMMA RmEffect ==
  ASSUME TypeOK, NEW n \in 2 .. 4, PartedRm(n)
  PROVE  ptab'[n] = NoPart /\ \A m \in 2 .. 4 : m # n => ptab'[m] = ptab[m]
  BY DEF TypeOK, PartedRm

LEMMA MkpartLatest ==
  ASSUME TypeOK, Tables, ptab[2] = NoPart, Mkpart("mb100")
  PROVE  ptab'[2] = "mb100" /\ ptab'[3] = ptab[3] /\ ptab'[4] = ptab[4]
  BY DEF TypeOK, Tables, Mkpart, NoPart

LEMMA MkpartOther ==
  ASSUME TypeOK, Tables, ptab[2] = "mb100", NEW r \in {"mb200", "mb300"}, Mkpart(r)
  PROVE  /\ ptab'[2] = "mb100" /\ Tables'
         /\ ptab[3] = NoPart /\ ptab[4] # r => ptab'[3] = r /\ ptab'[4] = ptab[4]
         /\ ptab[3] \notin {NoPart, r} /\ ptab[4] = NoPart => ptab'[4] = r /\ ptab'[3] = ptab[3]
  BY DEF TypeOK, Tables, Mkpart, NoPart

LEMMA MkfsEffect ==
  ASSUME TypeOK, NEW n \in 2 .. 4, Mkfs(n)
  PROVE  /\ ptab[n] # NoPart => disk'[ptab[n]] = Blank("fs") /\ cache'[ptab[n]] = Blank("fs")
         /\ \A r \in Region : r # ptab[n] => disk'[r] = disk[r] /\ cache'[r] = cache[r]
         /\ ptab[n] = NoPart => disk' = disk /\ cache' = cache
  <1> DEFINE b == Blank("fs")
  <1> HIDE DEF b
  <1>1. CASE ptab[n] = NoPart BY <1>1 DEF Mkfs
  <1>2. CASE ptab[n] # NoPart
    <2>1. disk' = [disk EXCEPT ![ptab[n]] = b] /\ cache' = [cache EXCEPT ![ptab[n]] = b]
      BY <1>2 DEF Mkfs, b
    <2>2. ptab[n] \in Region BY <1>2 DEF TypeOK
    <2> QED BY <1>2, <2>1, <2>2 DEF TypeOK, b
  <1> QED BY <1>1, <1>2

LEMMA TablesStep == ASSUME IInv, Next PROVE Tables'
  <1> USE DEF At, Goto
  <1>0. TypeOK /\ Tables BY DEF IInv
  <1>1. ASSUME ptab' = ptab PROVE Tables' BY <1>0, <1>1 DEF Tables
  <1>2. ASSUME NEW n \in 2 .. 4, PartedRm(n) PROVE Tables'
    BY <1>0, <1>2, RmEffect DEF Tables
  <1>3. CASE remove_partitions BY <1>3, <1>2 DEF remove_partitions
  <1>4. CASE create_partitions
    <2>1. CASE pc = "mkpart2" /\ Mkpart("mb100")
      BY <2>1, <1>0, MkpartLatest DEF IInv, Progress, Tables
    <2>2. CASE pc \in {"mkpart3", "mkpart4"} /\ (Mkpart("mb200") \/ Mkpart("mb300"))
      BY <2>2, <1>0, MkpartOther DEF IInv, Progress
    <2> QED BY <1>4, <1>1, <2>1, <2>2 DEF create_partitions
  <1>5. CASE checkLog
    <2>1. CASE pc = "ckMkpart" /\ Mkpart("mb300")
      BY <2>1, <1>0, MkpartOther DEF IInv, Mounted, LatestPc
    <2> QED BY <1>5, <1>1, <1>2, <2>1 DEF checkLog
  <1>6. CASE resetSettings
    <2>1. CASE pc \in {"rsMkpart3", "rsMkpart4"} /\ (Mkpart("mb200") \/ Mkpart("mb300"))
      BY <2>1, <1>0, MkpartOther DEF IInv, Mounted, LatestPc, ResetPc
    <2> QED BY <1>6, <1>1, <1>2, <2>1 DEF resetSettings
  <1>7. CASE Main \/ factory_reset \/ checkUpdate \/ readySync \/ findTarball
    BY <1>7, <1>1 DEF Main, factory_reset, checkUpdate, readySync, findTarball
  <1>8. CASE updateFailed \/ updateLatest \/ syncAndShutdown \/ mount_and_boot
    BY <1>8, <1>1 DEF updateFailed, updateLatest, syncAndShutdown, mount_and_boot
  <1>9. CASE PowerOn \/ Request \/ MarkReady \/ ChangeSettings
    BY <1>9, <1>1 DEF PowerOn, Request, MarkReady, ChangeSettings
  <1>10. CASE Restart \/ Flush \/ PowerLoss \/ Damage
    BY <1>10, <1>1 DEF Restart, Flush, PowerLoss, Damage
  <1> QED BY <1>3, <1>4, <1>5, <1>6, <1>7, <1>8, <1>9, <1>10 DEF Next, Script

LEMMA ProgressStep == ASSUME IInv, Next PROVE Progress'
  <1> USE DEF At, Goto
  <1>0. TypeOK /\ Tables /\ Progress BY DEF IInv
  <1>1. ASSUME pc' \notin {"rm2", "rm3", "rm4", "mkpart2", "mkpart3", "mkpart4",
                           "mkfs2", "mkfs3", "mkfs4", "resetDd"}
        PROVE  Progress'
    BY <1>1 DEF Progress
  <1>2. CASE Main BY <1>2 DEF Main, Progress
  <1>3. CASE remove_partitions
    BY <1>0, <1>3, RmEffect DEF remove_partitions, Progress
  <1>4. CASE create_partitions
    <2>1. CASE pc = "mkpart2"
      <3>1. pc' = "mkpart3" /\ ret' = ret /\ Mkpart("mb100") BY <1>4, <2>1 DEF create_partitions
      <3> QED BY <1>0, <2>1, <3>1, MkpartLatest DEF Progress
    <2>2. CASE pc = "mkpart3"
      <3>1. pc' = "mkpart4" /\ ret' = ret /\ Mkpart("mb200") BY <1>4, <2>2 DEF create_partitions
      <3> QED BY <1>0, <2>2, <3>1, MkpartOther DEF Progress, NoPart
    <2>3. CASE pc = "mkpart4"
      <3>1. pc' = "mkfs2" /\ ret' = ret /\ Mkpart("mb300") BY <1>4, <2>3 DEF create_partitions
      <3> QED BY <1>0, <2>3, <3>1, MkpartOther DEF Progress, NoPart, StandardLayout
    <2>4. CASE pc = "mkfs2"
      <3>1. pc' = "mkfs3" /\ ret' = ret /\ ptab' = ptab /\ Mkfs(2)
        BY <1>4, <2>4 DEF create_partitions
      <3> QED BY <1>0, <2>4, <3>1, MkfsEffect DEF Progress, StandardLayout, Fresh, NoPart
    <2>5. CASE pc = "mkfs3"
      <3>1. pc' = "mkfs4" /\ ret' = ret /\ ptab' = ptab /\ Mkfs(3)
        BY <1>4, <2>5 DEF create_partitions
      <3> QED BY <1>0, <2>5, <3>1, MkfsEffect DEF Progress, StandardLayout, Fresh, NoPart, Region
    <2>6. CASE pc = "mkfs4"
      <3>1. /\ ret' = ret /\ ptab' = ptab /\ Mkfs(4)
            /\ pc' = IF ret = "boot" THEN "checkRwfs" ELSE "resetDd"
        BY <1>4, <2>6 DEF create_partitions
      <3>2. CASE ret = "boot" BY <3>1, <3>2, <1>1
      <3>3. CASE ret = "reset"
        BY <1>0, <2>6, <3>1, <3>3, MkfsEffect DEF Progress, StandardLayout, Fresh, NoPart, Region
      <3> QED BY <1>0, <3>2, <3>3 DEF TypeOK
    <2> QED BY <1>4, <2>1, <2>2, <2>3, <2>4, <2>5, <2>6 DEF create_partitions
  <1>5. CASE checkUpdate BY <1>1, <1>5 DEF checkUpdate, Progress
  <1>6. CASE factory_reset \/ checkLog \/ readySync \/ findTarball
    BY <1>1, <1>6 DEF factory_reset, checkLog, readySync, findTarball
  <1>7. CASE updateFailed \/ updateLatest \/ resetSettings \/ syncAndShutdown \/ mount_and_boot
    BY <1>1, <1>7 DEF updateFailed, updateLatest, resetSettings, syncAndShutdown, mount_and_boot
  <1>8. CASE Flush
    <2>1. UNCHANGED <<pc, ret, ptab, cache>> BY <1>8 DEF Flush
    <2>2. \A r \in Region : disk'[r] \in {disk[r], cache[r]}
      BY <1>0, <1>8 DEF Flush, TypeOK
    <2>3. \A r \in Region : Fresh(r) => Fresh(r)' BY <2>1, <2>2 DEF Fresh
    <2> QED BY <1>0, <2>1, <2>3 DEF Progress, StandardLayout, Region
  <1>9. CASE PowerOn \/ Request \/ MarkReady \/ ChangeSettings
    BY <1>1, <1>9 DEF PowerOn, Request, MarkReady, ChangeSettings
  <1>10. CASE Restart \/ PowerLoss \/ Damage
    BY <1>1, <1>10 DEF Restart, PowerLoss, Damage
  <1> QED BY <1>2, <1>3, <1>4, <1>5, <1>6, <1>7, <1>8, <1>9, <1>10 DEF Next, Script

LEMMA ResettingStep == ASSUME IInv, Next PROVE Resetting'
  <1> USE DEF At, Goto
  <1>0. TypeOK /\ Tables /\ Resetting BY DEF IInv
  <1>1. ASSUME pc' \notin {"rsRm4", "rsMkpart3", "rsMkpart4", "rsMkfs3", "rsMkfs4"}
        PROVE  Resetting'
    BY <1>1 DEF Resetting
  <1>2. CASE resetSettings
    <2>0. ptab[2] = "mb100" BY <1>2 DEF resetSettings, IInv, Mounted, LatestPc, ResetPc
    <2>1. CASE pc = "rsRm3"
      <3>1. pc' = "rsRm4" /\ PartedRm(3) BY <1>2, <2>1 DEF resetSettings
      <3> QED BY <1>0, <3>1, RmEffect DEF Resetting
    <2>2. CASE pc = "rsRm4"
      <3>1. pc' = "rsMkpart3" /\ PartedRm(4) BY <1>2, <2>2 DEF resetSettings
      <3> QED BY <1>0, <2>2, <3>1, RmEffect DEF Resetting
    <2>3. CASE pc = "rsMkpart3"
      <3>1. pc' = "rsMkpart4" /\ Mkpart("mb200") BY <1>2, <2>3 DEF resetSettings
      <3> QED BY <1>0, <2>0, <2>3, <3>1, MkpartOther DEF Resetting, NoPart
    <2>4. CASE pc = "rsMkpart4"
      <3>1. pc' = "rsMkfs3" /\ Mkpart("mb300") BY <1>2, <2>4 DEF resetSettings
      <3> QED BY <1>0, <2>0, <2>4, <3>1, MkpartOther DEF Resetting, NoPart
    <2>5. CASE pc = "rsMkfs3" BY <1>0, <1>2, <2>5 DEF resetSettings, Resetting
    <2>6. CASE pc = "rsMkfs4" BY <1>1, <1>2, <2>6 DEF resetSettings
    <2> QED BY <1>2, <2>1, <2>2, <2>3, <2>4, <2>5, <2>6 DEF resetSettings
  <1>3. CASE Main \/ remove_partitions \/ create_partitions \/ factory_reset \/ checkLog
    BY <1>1, <1>3 DEF Main, remove_partitions, create_partitions, factory_reset, checkLog
  <1>4. CASE checkUpdate \/ readySync \/ findTarball \/ updateFailed
    BY <1>1, <1>4 DEF checkUpdate, readySync, findTarball, updateFailed
  <1>5. CASE updateLatest \/ syncAndShutdown \/ mount_and_boot
    BY <1>1, <1>5 DEF updateLatest, syncAndShutdown, mount_and_boot
  <1>6. CASE Flush BY <1>0, <1>6 DEF Flush, Resetting
  <1>7. CASE PowerOn \/ Request \/ MarkReady \/ ChangeSettings
    BY <1>1, <1>7 DEF PowerOn, Request, MarkReady, ChangeSettings
  <1>8. CASE Restart \/ PowerLoss \/ Damage
    BY <1>1, <1>8 DEF Restart, PowerLoss, Damage
  <1> QED BY <1>2, <1>3, <1>4, <1>5, <1>6, <1>7, <1>8 DEF Next, Script

LEMMA MountedStep == ASSUME IInv, Next PROVE Mounted'
  <1> USE DEF At, Goto, SearchPc, FailPc, ExtractPc, DonePc, ResetPc, BeforePc, LatestPc
  <1>0. TypeOK /\ Tables /\ Mounted /\ Progress BY DEF IInv
  <1>1. ASSUME pc' \in {"off", "sync", "shutdown", "checkRwfs", "rwMkfs3", "switchRoot",
                        "running", "panic", "brick"}
        PROVE  Mounted'
    BY <1>1 DEF Mounted
  <1>2. CASE PowerOn BY <1>2 DEF PowerOn, Mounted
  <1>3. CASE Main BY <1>0, <1>3 DEF Main, Mounted, Tables
  <1>4. CASE remove_partitions \/ create_partitions
    BY <1>0, <1>4 DEF remove_partitions, create_partitions, Mounted
  <1>5. CASE factory_reset \/ syncAndShutdown \/ mount_and_boot
    BY <1>1, <1>5 DEF factory_reset, syncAndShutdown, mount_and_boot
  <1>6. CASE checkLog
    <2>1. CASE PartedRm(4) BY <1>0, <1>6, <2>1, RmEffect DEF checkLog, Mounted
    <2>2. CASE pc = "ckMkpart"
      BY <1>0, <1>6, <2>2, MkpartOther DEF checkLog, Mounted
    <2>3. CASE ptab' = ptab BY <1>0, <1>6, <2>3 DEF checkLog, Mounted
    <2> QED BY <1>6, <2>1, <2>2, <2>3 DEF checkLog
  <1>7. CASE checkUpdate BY <1>0, <1>7 DEF checkUpdate, Mounted, Mounts
  <1>8. CASE readySync \/ findTarball \/ updateFailed
    BY <1>0, <1>8 DEF readySync, findTarball, updateFailed, Mounted
  <1>9. CASE updateLatest
    BY <1>0, <1>1, <1>9 DEF updateLatest, Mounted
  <1>10. CASE resetSettings
    <2>0. ptab[2] = "mb100" BY <1>0, <1>10 DEF resetSettings, Mounted
    <2>1. ptab'[2] = "mb100"
      BY <1>0, <1>10, <2>0, RmEffect, MkpartOther DEF resetSettings
    <2> QED BY <1>0, <1>10, <2>1 DEF resetSettings, Mounted
  <1>11. CASE Flush BY <1>0, <1>11 DEF Flush, Mounted
  <1>12. CASE Request \/ MarkReady \/ ChangeSettings
    BY <1>1, <1>12 DEF Request, MarkReady, ChangeSettings
  <1>13. CASE Restart \/ PowerLoss \/ Damage
    BY <1>1, <1>13 DEF Restart, PowerLoss, Damage
  <1> QED BY <1>2, <1>3, <1>4, <1>5, <1>6, <1>7, <1>8, <1>9, <1>10, <1>11, <1>12, <1>13
          DEF Next, Script

(* What the writes of the script do to the card as the kernel sees it.     *)
LEMMA WriteEffect ==
  ASSUME TypeOK, NEW n, NEW c, Write(n, c)
  PROVE  /\ ptab[n] \in Region => cache'[ptab[n]] = c
         /\ \A r \in Region : r # ptab[n] => cache'[r] = cache[r]
         /\ ptab[n] \notin Region => cache' = cache
  BY DEF TypeOK, Write

LEMMA RequestImages == ASSUME TypeOK, VerifiedImageOnly, Request PROVE VerifiedImageOnly'
  <1>1. ptab[4] \in Region BY DEF Request, Mounts, TypeOK
  <1>2. cache[ptab[4]] \in Contents BY <1>1 DEF TypeOK
  <1>3. PICK fs \in Requests, t \in Tar, q \in {"none", "good", "bad"}, m \in BOOLEAN :
          /\ disk'  = [disk EXCEPT ![ptab[4]] = Staged(cache[ptab[4]], fs, t, q, m)]
          /\ cache' = [cache EXCEPT ![ptab[4]] = Staged(cache[ptab[4]], fs, t, q, m)]
    BY DEF Request
  <1>4. Staged(cache[ptab[4]], fs, t, q, m).image = cache[ptab[4]].image
    BY <1>2 DEF Staged, Contents
  <1> HIDE DEF Staged
  <1> QED BY <1>1, <1>3, <1>4 DEF VerifiedImageOnly, TypeOK

LEMMA ImagesStep == ASSUME IInv, Next PROVE VerifiedImageOnly'
  <1> USE DEF At, Goto
  <1>0. TypeOK /\ VerifiedImageOnly BY DEF IInv
  <1>a. \A f : Blank(f).image # Corrupt BY DEF Blank, NoImage, Corrupt
  <1>b. ASSUME UNCHANGED <<disk, cache>> PROVE VerifiedImageOnly'
    BY <1>0, <1>b DEF VerifiedImageOnly
  <1>c. ASSUME NEW n \in 2 .. 4, Mkfs(n) PROVE VerifiedImageOnly'
    BY <1>0, <1>a, <1>c, MkfsEffect DEF VerifiedImageOnly, TypeOK
  <1>d. ASSUME NEW n, NEW c, Write(n, c), disk' = disk, ptab[n] \in Region => c.image # Corrupt
        PROVE  VerifiedImageOnly'
    BY <1>0, <1>d, WriteEffect DEF VerifiedImageOnly
  <1>e. ASSUME NEW r, Spoil(r) PROVE VerifiedImageOnly'
    <2> DEFINE b == Blank("broken")
    <2>1. b.image # Corrupt BY <1>a
    <2>2. disk' = [disk EXCEPT ![r] = b] /\ cache' = [cache EXCEPT ![r] = b] BY <1>e DEF Spoil
    <2> HIDE DEF b
    <2> QED BY <1>0, <2>1, <2>2 DEF VerifiedImageOnly, TypeOK
  <1>1. CASE Main \/ remove_partitions \/ factory_reset
    BY <1>1, <1>b DEF Main, remove_partitions, factory_reset
  <1>2. CASE create_partitions BY <1>2, <1>b, <1>c DEF create_partitions
  <1>3. CASE checkLog BY <1>3, <1>b, <1>c DEF checkLog, MntLogExists
  <1>4. CASE checkUpdate
    <2> DEFINE c == [cache[ptab[4]] EXCEPT !.files = @ \ {"READY"}]
    <2>1. ptab[4] \in Region => c.image # Corrupt
      BY <1>0 DEF TypeOK, Contents, VerifiedImageOnly
    <2>2. CASE Write(4, c) BY <1>4, <2>2, <2>1, <1>d DEF checkUpdate
    <2>3. CASE UNCHANGED cache BY <1>4, <2>3, <1>b DEF checkUpdate
    <2> QED BY <1>4, <2>2, <2>3 DEF checkUpdate
  <1>5. CASE readySync \/ syncAndShutdown
    BY <1>0, <1>5 DEF readySync, syncAndShutdown, Sync, VerifiedImageOnly
  <1>6. CASE findTarball \/ PowerOn \/ Restart
    BY <1>6, <1>b DEF findTarball, PowerOn, Restart
  <1>7. CASE updateFailed
    <2> DEFINE log == cache[ptab[4]]
    <2>1. ptab[4] \in Region => /\ [log EXCEPT !.tars[latest] = "none"].image # Corrupt
                                /\ [log EXCEPT !.md5 = @ \ {latest}].image # Corrupt
                                /\ [log EXCEPT !.files = @ \ {"UPDATE"}].image # Corrupt
                                /\ [log EXCEPT !.files = @ \cup {"UPDATEFAILED"}].image # Corrupt
      BY <1>0 DEF TypeOK, Contents, VerifiedImageOnly
    <2>2. /\ disk' = disk
          /\ \/ Write(4, [log EXCEPT !.tars[latest] = "none"])
             \/ Write(4, [log EXCEPT !.md5 = @ \ {latest}])
             \/ Write(4, [log EXCEPT !.files = @ \ {"UPDATE"}])
             \/ Write(4, [log EXCEPT !.files = @ \cup {"UPDATEFAILED"}])
      BY <1>7 DEF updateFailed
    <2> QED BY <2>1, <2>2, <1>d
  <1>8. CASE updateLatest
    <2> DEFINE log == cache[ptab[4]]
               lat == cache[ptab[2]]
               img == IF log.tars[latest] = "good" THEN latest ELSE Corrupt
    <2>1. CASE pc = "upMkfs"
      <3>1. Mkfs(2) \/ UNCHANGED <<disk, cache>> \/ Spoil(ptab[2])
        BY <1>8, <2>1 DEF updateLatest
      <3> QED BY <3>1, <1>b, <1>c, <1>e
    <2>2. CASE pc = "upTar"
      <3>1. Write(2, [lat EXCEPT !.image = Partial]) /\ disk' = disk
        BY <1>8, <2>2 DEF updateLatest
      <3>2. ptab[2] \in Region => [lat EXCEPT !.image = Partial].image # Corrupt
        BY <1>0 DEF TypeOK, Contents, Partial, Corrupt
      <3> QED BY <3>1, <3>2, <1>d
    <2>3. CASE pc = "upTarDone"
      <3> DEFINE c == [lat EXCEPT !.image = img]
      <3>1. (Write(2, c) \/ UNCHANGED cache) /\ disk' = disk
        BY <1>8, <2>3 DEF updateLatest
      <3>2. img # Corrupt
        BY <2>3 DEF IInv, Outcome, ExtractPc, Tar, Corrupt
      <3>3. ptab[2] \in Region => c.image # Corrupt
        BY <1>0, <3>2 DEF TypeOK, Contents
      <3> HIDE DEF c
      <3> QED BY <3>1, <3>3, <1>b, <1>d
    <2>4. CASE pc = "upRmUpdate"
      <3>1. Write(4, [log EXCEPT !.files = @ \ {"UPDATE"}]) /\ disk' = disk
        BY <1>8, <2>4 DEF updateLatest
      <3>2. ptab[4] \in Region => [log EXCEPT !.files = @ \ {"UPDATE"}].image # Corrupt
        BY <1>0 DEF TypeOK, Contents, VerifiedImageOnly
      <3> QED BY <3>1, <3>2, <1>d
    <2>5. CASE pc \in {"upMount", "upDd"} BY <1>8, <2>5, <1>b DEF updateLatest
    <2>6. CASE pc \in {"umountLog", "umountLatest"}
      BY <1>0, <1>8, <2>6 DEF updateLatest, VerifiedImageOnly, TypeOK
    <2> QED BY <1>8, <2>1, <2>2, <2>3, <2>4, <2>5, <2>6 DEF updateLatest
  <1>9. CASE resetSettings BY <1>9, <1>b, <1>c DEF resetSettings
  <1>10. CASE mount_and_boot BY <1>10, <1>b, <1>c DEF mount_and_boot
  <1>11. CASE Request BY <1>0, <1>11, RequestImages
  <1>12. CASE MarkReady
    <2>1. \A c \in Contents : [c EXCEPT !.files = @ \cup {"READY"}].image = c.image
      BY DEF Contents
    <2> QED BY <1>0, <1>12, <2>1 DEF MarkReady, VerifiedImageOnly, TypeOK
  <1>13. CASE ChangeSettings
    <2>1. \A c \in Contents : [c EXCEPT !.used = TRUE].image = c.image
      BY DEF Contents
    <2> QED BY <1>0, <1>13, <2>1 DEF ChangeSettings, VerifiedImageOnly, TypeOK
  <1>14. CASE Flush
    <2>1. cache' = cache /\ \A r \in Region : disk'[r] \in {disk[r], cache[r]}
      BY <1>0, <1>14 DEF Flush, TypeOK
    <2> QED BY <1>0, <2>1 DEF VerifiedImageOnly
  <1>15. CASE PowerLoss
    <2> DEFINE b == Blank("broken")
               form == Formatting
    <2>0. b.image # Corrupt BY <1>a
    <2> HIDE DEF b, form
    <2>1. PICK torn \in BOOLEAN :
            /\ disk' = [r \in Region |-> IF torn /\ r = form THEN b ELSE disk[r]]
            /\ cache' = disk'
      BY <1>15 DEF PowerLoss, b, form
    <2> QED BY <1>0, <2>0, <2>1 DEF VerifiedImageOnly
  <1>16. CASE Damage BY <1>16, <1>e DEF Damage
  <1> QED BY <1>1, <1>2, <1>3, <1>4, <1>5, <1>6, <1>7, <1>8, <1>9, <1>10, <1>11, <1>12, <1>13,
             <1>14, <1>15, <1>16 DEF Next, Script

(* mkfs of LATEST, whether it works or not, leaves the other regions alone. *)
LEMMA UpMkfsEffect ==
  ASSUME IInv, updateLatest, pc = "upMkfs"
  PROVE  /\ ptab' = ptab /\ ptab[2] = "mb100"
         /\ \A r \in Region : r # "mb100" => disk'[r] = disk[r] /\ cache'[r] = cache[r]
         /\ \/ Mkfs(2)
            \/ UNCHANGED <<disk, cache>>
            \/ disk'["mb100"] = Blank("broken") /\ cache'["mb100"] = Blank("broken")
  <1>1. TypeOK /\ ptab[2] = "mb100" BY DEF IInv, Mounted, ExtractPc, LatestPc
  <1>2. ptab' = ptab /\ (Mkfs(2) \/ UNCHANGED <<disk, cache>> \/ Spoil("mb100"))
    BY <1>1 DEF updateLatest, At
  <1>3. CASE Mkfs(2) BY <1>1, <1>2, <1>3, MkfsEffect
  <1>4. CASE Spoil("mb100")
    <2> DEFINE b == Blank("broken")
    <2>1. disk' = [disk EXCEPT !["mb100"] = b] /\ cache' = [cache EXCEPT !["mb100"] = b]
      BY <1>4 DEF Spoil
    <2> HIDE DEF b
    <2>2. /\ disk'["mb100"] = b /\ cache'["mb100"] = b
          /\ \A r \in Region : r # "mb100" => disk'[r] = disk[r] /\ cache'[r] = cache[r]
      BY <1>1, <2>1 DEF TypeOK, Region
    <2> QED BY <1>1, <1>2, <2>2 DEF b
  <1> QED BY <1>1, <1>2, <1>3, <1>4

LEMMA OutcomeStep == ASSUME IInv, Next PROVE Outcome'
  <1> USE DEF At, Goto, ExtractPc, DonePc, ResetPc
  <1>0. TypeOK /\ Tables /\ Mounted /\ Resetting /\ Outcome BY DEF IInv
  <1>1. ASSUME pc' \notin ExtractPc \cup DonePc \cup ResetPc \cup {"failNote", "sync", "shutdown"}
        PROVE  Outcome'
    BY <1>1 DEF Outcome
  <1>2. \A n \in {2, 4} : ptab[n] # NoPart => ptab[n] \in Region /\ cache[ptab[n]] \in Contents
    BY <1>0 DEF TypeOK
  <1>3. CASE Main \/ remove_partitions \/ create_partitions \/ checkLog
    BY <1>1, <1>3 DEF Main, remove_partitions, create_partitions, checkLog
  <1>4. CASE factory_reset
    <2>1. pc' = "sync" /\ latest' = Unset
      BY <1>0, <1>4 DEF factory_reset, Mounted, BeforePc
    <2> QED BY <2>1 DEF Outcome
  <1>5. CASE checkUpdate
    <2>1. latest = Unset /\ latest' = Unset BY <1>0, <1>5 DEF checkUpdate, Mounted, BeforePc
    <2> QED BY <1>1, <1>5, <2>1 DEF checkUpdate, Outcome
  <1>6. CASE readySync \/ mount_and_boot BY <1>1, <1>6 DEF readySync, mount_and_boot
  <1>7. CASE findTarball
    <2>1. ptab[4] # NoPart BY <1>0, <1>7 DEF findTarball, Mounted, SearchPc
    <2>2. \A t \in Tar : cache[ptab[4]].tars[t] \in {"none", "good", "bad"}
      BY <1>2, <2>1 DEF Contents
    <2>3. CASE pc' = "upMkfs"
      <3>1. latest' \in Tar /\ cache[ptab[4]].tars[latest'] = "good"
        BY <1>7, <2>2, <2>3 DEF findTarball
      <3> QED BY <1>7, <2>3, <3>1 DEF findTarball, Outcome
    <2>4. CASE pc' # "upMkfs" BY <1>1, <1>7, <2>4 DEF findTarball
    <2> QED BY <2>3, <2>4
  <1>8. CASE updateFailed
    <2> DEFINE log == cache[ptab[4]]
    <2>1. ptab[4] # NoPart /\ ptab[2] = "mb100"
      BY <1>0, <1>8 DEF updateFailed, Mounted, FailPc, LatestPc
    <2>2. CASE pc \in {"failRmTar", "failRmMd5"} BY <1>1, <1>8, <2>2 DEF updateFailed
    <2>3. CASE pc = "failRmUpdate"
      <3> DEFINE c == [log EXCEPT !.files = @ \ {"UPDATE"}]
      <3>1. pc' = "failNote" /\ ptab' = ptab /\ Write(4, c)
        BY <1>8, <2>3 DEF updateFailed
      <3>2. "UPDATE" \notin c.files
        BY <1>2, <2>1 DEF Contents
      <3> HIDE DEF c
      <3>a. TypeOK /\ ptab[4] \in Region BY <1>0, <2>1 DEF TypeOK, Region, Tables
      <3>b. cache'[ptab[4]] = c BY <3>1, <3>a, WriteEffect
      <3>3. "UPDATE" \notin cache'[ptab'[4]].files BY <3>1, <3>2, <3>b
      <3> QED BY <3>1, <3>3 DEF Outcome
    <2>4. CASE pc = "failNote"
      <3>1. pc' = "sync" /\ ptab' = ptab /\ Write(4, [log EXCEPT !.files = @ \cup {"UPDATEFAILED"}])
        BY <1>8, <2>4 DEF updateFailed
      <3>2. "UPDATE" \notin log.files BY <1>0, <2>4 DEF Outcome
      <3>3. [log EXCEPT !.files = @ \cup {"UPDATEFAILED"}].files = log.files \cup {"UPDATEFAILED"}
        BY <1>2, <2>1 DEF Contents
      <3>4. cache'[ptab'[4]].files = log.files \cup {"UPDATEFAILED"}
        BY <1>0, <1>2, <2>1, <3>1, <3>3, WriteEffect
      <3> QED BY <2>1, <3>1, <3>2, <3>4 DEF Outcome, Settled
    <2> QED BY <1>8, <2>2, <2>3, <2>4 DEF updateFailed
  <1>9. CASE updateLatest
    <2> DEFINE log == cache[ptab[4]]
               lat == cache[ptab[2]]
               img == IF log.tars[latest] = "good" THEN latest ELSE Corrupt
    <2>1. /\ ptab[4] # NoPart /\ ptab[2] = "mb100" /\ ptab[2] # ptab[4]
          /\ ptab' = ptab /\ latest' = latest
      BY <1>0, <1>9 DEF updateLatest, Mounted, LatestPc, Tables
    <2>2. CASE pc = "upMkfs"
      <3>1. pc' = "upMount" BY <1>9, <2>2 DEF updateLatest
      <3>2. cache'[ptab[4]] = cache[ptab[4]]
        BY <1>0, <1>9, <2>1, <2>2, UpMkfsEffect DEF Tables, Region
      <3> QED BY <1>0, <2>1, <2>2, <3>1, <3>2 DEF Outcome
    <2>8. CASE pc = "upMount"
      <3>1. cache' = cache /\ (pc' = "upTar" \/ (pc' = "upDd" /\ failed' = "mount"))
        BY <1>9, <2>8 DEF updateLatest, Fails
      <3> QED BY <1>0, <2>1, <2>8, <3>1 DEF Outcome, Extracted, Silent
    <2>3. CASE pc = "upTar"
      <3>1. pc' = "upTarDone" /\ Write(2, [lat EXCEPT !.image = Partial])
        BY <1>9, <2>3 DEF updateLatest
      <3>2. cache'[ptab[4]] = cache[ptab[4]] BY <1>0, <1>2, <2>1, <3>1, WriteEffect
      <3> QED BY <1>0, <2>1, <2>3, <3>1, <3>2 DEF Outcome
    <2>4. CASE pc = "upTarDone"
      <3>1. pc' = "upDd" BY <1>9, <2>4 DEF updateLatest
      <3>a. CASE failed' = "tar" BY <1>0, <2>1, <2>4, <3>1, <3>a DEF Outcome, Extracted, Silent
      <3>b. CASE Write(2, [lat EXCEPT !.image = img])
        <4>1. latest \in Tar /\ img = latest BY <1>0, <2>4 DEF Outcome
        <4>2. [lat EXCEPT !.image = img].image = latest
          BY <1>2, <2>1, <4>1 DEF Contents, NoPart
        <4>3. cache'[ptab[2]].image = latest
          BY <1>0, <1>2, <2>1, <3>b, <4>2, WriteEffect DEF NoPart
        <4> QED BY <2>1, <3>1, <4>1, <4>3 DEF Outcome, Extracted
      <3> QED BY <1>9, <2>4, <3>a, <3>b DEF updateLatest, Fails
    <2>5. CASE pc = "upDd" BY <1>0, <1>9, <2>1, <2>5 DEF updateLatest, Outcome, Extracted
    <2>6. CASE pc = "upRmUpdate"
      <3> DEFINE c == [log EXCEPT !.files = @ \ {"UPDATE"}]
      <3>1. pc' \in {"umountLog", "sync"} /\ Write(4, c)
        BY <1>9, <2>6 DEF updateLatest
      <3>2. "UPDATE" \notin c.files
        BY <1>2, <2>1 DEF Contents
      <3> HIDE DEF c
      <3>a. TypeOK /\ ptab[4] \in Region /\ ptab[2] \in Region
        BY <1>0, <2>1 DEF TypeOK, Region, Tables
      <3>b. cache'[ptab[4]] = c BY <3>1, <3>a, WriteEffect
      <3>c. cache'[ptab[2]] = cache[ptab[2]] BY <2>1, <3>1, <3>a, WriteEffect
      <3>3. "UPDATE" \notin cache'[ptab[4]].files /\ cache'[ptab[2]] = cache[ptab[2]]
        BY <3>2, <3>b, <3>c
      <3>4. latest # 0 /\ Extracted /\ failed' = failed
        BY <1>0, <1>9, <2>6 DEF updateLatest, Outcome, Extracted, Tar
      <3> QED BY <2>1, <3>1, <3>3, <3>4 DEF Outcome, Extracted, Settled
    <2>7. CASE pc \in {"umountLog", "umountLatest"}
      BY <1>0, <1>9, <2>1, <2>7 DEF updateLatest, Outcome, Extracted
    <2> QED BY <1>9, <2>2, <2>3, <2>4, <2>5, <2>6, <2>7, <2>8 DEF updateLatest
  <1>10. CASE resetSettings
    <2>1. ptab[2] = "mb100" /\ latest' = latest /\ failed' = failed
      BY <1>0, <1>10 DEF resetSettings, Mounted, LatestPc
    <2>2. ptab'[2] = "mb100"
      BY <1>0, <1>10, <2>1, RmEffect, MkpartOther DEF resetSettings
    <2>3. CASE pc \in {"rsRm3", "rsRm4", "rsMkpart3", "rsMkpart4"}
      BY <1>0, <1>10, <2>1, <2>2, <2>3 DEF resetSettings, Outcome, Extracted
    <2>4. CASE pc = "rsMkfs3"
      <3>1. pc' = "rsMkfs4" /\ Mkfs(3) /\ ptab' = ptab BY <1>10, <2>4 DEF resetSettings
      <3>2. cache'[ptab[2]] = cache[ptab[2]]
        BY <1>0, <2>1, <2>4, <3>1, MkfsEffect DEF Resetting, Region
      <3> QED BY <1>0, <2>1, <2>4, <3>1, <3>2 DEF Outcome, Extracted
    <2>5. CASE pc = "rsMkfs4"
      <3>1. pc' = "sync" /\ Mkfs(4) /\ ptab' = ptab BY <1>10, <2>5 DEF resetSettings
      <3>2. ptab[4] = "mb300" BY <1>0, <2>5 DEF Resetting
      <3>3. cache'[ptab[2]] = cache[ptab[2]] /\ cache'[ptab[4]] = Blank("fs")
        BY <1>0, <2>1, <3>1, <3>2, MkfsEffect DEF Region, NoPart
      <3>4. "UPDATE" \notin Blank("fs").files BY DEF Blank
      <3>5. latest # Unset => latest # 0 /\ Extracted
        BY <1>0, <2>5 DEF Outcome, Extracted, Tar
      <3> QED BY <2>1, <3>1, <3>2, <3>3, <3>4, <3>5 DEF Outcome, Extracted, Settled, NoPart
    <2> QED BY <1>10, <2>3, <2>4, <2>5 DEF resetSettings
  <1>11. CASE syncAndShutdown
    BY <1>0, <1>1, <1>11 DEF syncAndShutdown, Sync, Outcome, Settled
  <1>12. CASE Flush
    <2>1. UNCHANGED <<pc, ptab, latest, cache, failed>> BY <1>12 DEF Flush
    <2>2. disk = cache => disk' = cache' BY <1>12 DEF Flush
    <2> QED BY <1>0, <2>1, <2>2 DEF Outcome, Extracted, Settled
  <1>13. CASE PowerOn \/ Request \/ MarkReady \/ ChangeSettings
    BY <1>1, <1>13 DEF PowerOn, Request, MarkReady, ChangeSettings
  <1>14. CASE Restart \/ PowerLoss \/ Damage
    BY <1>1, <1>14 DEF Restart, PowerLoss, Damage
  <1> QED BY <1>3, <1>4, <1>5, <1>6, <1>7, <1>8, <1>9, <1>10, <1>11, <1>12, <1>13, <1>14
          DEF Next, Script

LEMMA InitIInv == Init => IInv
  <1> SUFFICES ASSUME Init PROVE IInv OBVIOUS
  <1>1. TypeOK BY InitType
  <1>2. \A n \in 2 .. 4 : ptab[n] = NoPart BY DEF Init
  <1>3. pc = "off" BY DEF Init
  <1>4. Blank("raw").image # Corrupt BY DEF Blank, NoImage, Corrupt
  <1>5. VerifiedImageOnly BY <1>4 DEF Init, VerifiedImageOnly
  <1>6. Tables BY <1>2 DEF Tables
  <1>7. Progress /\ Resetting BY <1>3 DEF Progress, Resetting
  <1>8. Mounted /\ Outcome
    BY <1>3 DEF Mounted, Outcome, SearchPc, FailPc, ExtractPc, DonePc, ResetPc, BeforePc, LatestPc
  <1> QED BY <1>1, <1>5, <1>6, <1>7, <1>8 DEF IInv

LEMMA NextIInv == ASSUME IInv, [Next]_vars PROVE IInv'
  <1>1. CASE Next
    <2>1. TypeOK' BY <1>1, NextType DEF IInv
    <2> QED BY <1>1, <2>1, TablesStep, ProgressStep, ResettingStep, MountedStep, OutcomeStep,
               ImagesStep DEF IInv
  <1>2. CASE UNCHANGED vars
    <2>1. TypeOK' BY <1>2, NextType DEF IInv
    <2>2. Tables' /\ Resetting' /\ Mounted' /\ VerifiedImageOnly'
      BY <1>2 DEF vars, IInv, Tables, Resetting, Mounted, VerifiedImageOnly
    <2>3. Progress' BY <1>2 DEF vars, IInv, Progress, StandardLayout, Fresh
    <2>4. Outcome' BY <1>2 DEF vars, IInv, Outcome, Extracted, Settled
    <2> QED BY <2>1, <2>2, <2>3, <2>4 DEF IInv
  <1> QED BY <1>1, <1>2

LEMMA Inductive == Spec => []IInv
  BY InitIInv, NextIInv, PTL DEF Spec

(* The md5 check guards the extraction: no region ever holds the contents  *)
(* of a tarball with a wrong checksum, for any number of tarballs, power   *)
(* losses and media faults.                                                *)
THEOREM OnlyVerifiedImages == Spec => []VerifiedImageOnly
  <1>1. IInv => VerifiedImageOnly BY DEF IInv
  <1> QED BY Inductive, <1>1, PTL

(* A factory reset that reaches the u-boot step has restored the layout    *)
(* and three fresh file systems, from any state of the card.               *)
THEOREM FactoryResetWorks == Spec => []FactoryResetRestores
  <1>1. IInv => FactoryResetRestores
    BY DEF IInv, Progress, FactoryResetRestores, Fresh, Region
  <1> QED BY Inductive, <1>1, PTL

(* When the script restarts the board after an update request, the request *)
(* is off the card and the card shows its outcome, for any number of       *)
(* tarballs, faults and failing commands, unless the mount or the tar of   *)
(* LATEST failed in this boot.                                             *)
THEOREM UpdatesSettle == Spec => []UpdateSettled
  <1>1. IInv => UpdateSettled
    BY DEF IInv, Outcome, Settled, UpdateSettled
  <1> QED BY Inductive, <1>1, PTL

-----------------------------------------------------------------------------
(* The order of the flag files.  When the card and the page cache differ,  *)
(* and in what: outside an update, a settings reset and the last sync they *)
(* do not; LATEST differs after tar only, READY being gone from both.      *)
DirtyPc == SearchPc \cup FailPc \cup ExtractPc \cup DonePc \cup ResetPc \cup {"sync"}
Clean   == pc \notin DirtyPc => disk = cache
LatestClean ==
  pc \in SearchPc \cup FailPc \cup ResetPc \cup {"upMkfs", "upMount", "upTar"} => disk["mb100"] = cache["mb100"]

NotReady == "READY" \notin disk[ptab[4]].files /\ "READY" \notin cache[ptab[4]].files
ReadyGone ==
  /\ pc = "readySync" => "READY" \notin cache[ptab[4]].files
  /\ pc \in {"findTarball"} \cup FailPc \cup ExtractPc \cup DonePc => NotReady
  /\ pc = "sync" => disk["mb100"] = cache["mb100"] \/ (ptab[4] # NoPart /\ NotReady)

(* checkLog leaves a LOG that can be mounted, or none; past checkUpdate    *)
(* without an update there is no UPDATE on it.                             *)
Served ==
  /\ pc \in {"ckReady", "checkUpdate"} /\ ptab[4] # NoPart => Mounts(4)
  /\ pc \in {"checkRwfs", "rwMkfs3", "switchRoot", "panic"} /\ ptab[4] # NoPart =>
       "UPDATE" \notin disk[ptab[4]].files

(* LATEST has no flags; the request to reset the settings leaves the page  *)
(* cache only together with the card, and after the settings.              *)
NoFlags   == disk["mb100"].files = {} /\ cache["mb100"].files = {}
ResetKept == \A r \in Region : "RESETSETTINGS" \in disk[r].files => "RESETSETTINGS" \in cache[r].files
RwfsReset ==
  /\ pc = "mkfs4" /\ ptab[3] # NoPart => ~disk[ptab[3]].used
  /\ pc = "rsMkfs4" => ~disk["mb200"].used /\ ~cache["mb200"].used

FlagInv ==
  Clean /\ LatestClean /\ ReadyGone /\ Served /\ NoFlags /\ ResetKept /\ RwfsReset

(* What the script writes to LOG and to LATEST.                            *)
LogWritten ==
  /\ disk' = disk /\ ptab' = ptab /\ ptab[4] \in {"mb200", "mb300"}
  /\ \A r \in Region : r # ptab[4] => cache'[r] = cache[r]
  /\ cache'[ptab[4]].files \subseteq cache[ptab[4]].files \cup {"UPDATEFAILED"}
  /\ cache[ptab[4]].files \ {"UPDATE", "READY"} \subseteq cache'[ptab[4]].files

LatestWritten ==
  /\ disk' = disk /\ ptab' = ptab /\ ptab[2] = "mb100" /\ ptab[4] \in {"mb200", "mb300"}
  /\ \A r \in Region : r # "mb100" => cache'[r] = cache[r]
  /\ cache'["mb100"].files = cache["mb100"].files

LEMMA LogWrites ==
  ASSUME IInv, NEW c, Write(4, c), UNCHANGED <<disk, ptab>>, ptab[4] # NoPart,
         c.files \subseteq cache[ptab[4]].files \cup {"UPDATEFAILED"},
         cache[ptab[4]].files \ {"UPDATE", "READY"} \subseteq c.files
  PROVE  LogWritten /\ cache'[ptab[4]] = c
  <1>1. TypeOK /\ ptab[4] \in {"mb200", "mb300"} /\ ptab[4] \in Region
    BY DEF IInv, Tables, Region
  <1>2. cache'[ptab[4]] = c /\ \A r \in Region : r # ptab[4] => cache'[r] = cache[r]
    BY <1>1, WriteEffect
  <1> QED BY <1>1, <1>2 DEF LogWritten

LEMMA CheckUpdateWrites ==
  ASSUME IInv, checkUpdate, pc' = "readySync"
  PROVE  LogWritten /\ "READY" \notin cache'[ptab[4]].files
  <1>1. Mounts(4) /\ Write(4, [cache[ptab[4]] EXCEPT !.files = @ \ {"READY"}]) /\ UNCHANGED <<disk, ptab>>
    BY DEF checkUpdate, Goto
  <1>2. ptab[4] # NoPart /\ cache[ptab[4]] \in Contents BY <1>1 DEF Mounts, IInv, TypeOK
  <1> DEFINE c == [cache[ptab[4]] EXCEPT !.files = @ \ {"READY"}]
  <1>3. c.files = cache[ptab[4]].files \ {"READY"} BY <1>2 DEF Contents
  <1> HIDE DEF c
  <1>4. LogWritten /\ cache'[ptab[4]] = c BY <1>1, <1>2, <1>3, LogWrites DEF c
  <1> QED BY <1>3, <1>4

LEMMA UpdateFailedWrites == ASSUME IInv, updateFailed PROVE LogWritten
  <1>1. ptab[4] # NoPart /\ cache[ptab[4]] \in Contents
    BY DEF IInv, Mounted, FailPc, updateFailed, At, TypeOK
  <1> DEFINE log == cache[ptab[4]]
  <1>2. PICK c : /\ Write(4, c)
                 /\ c \in {[log EXCEPT !.tars[latest] = "none"], [log EXCEPT !.md5 = @ \ {latest}],
                           [log EXCEPT !.files = @ \ {"UPDATE"}],
                           [log EXCEPT !.files = @ \cup {"UPDATEFAILED"}]}
    BY DEF updateFailed
  <1>3. c.files \in {log.files, log.files \ {"UPDATE"}, log.files \cup {"UPDATEFAILED"}}
    BY <1>1, <1>2 DEF Contents
  <1>4. UNCHANGED <<disk, ptab>> BY DEF updateFailed
  <1> QED BY <1>1, <1>2, <1>3, <1>4, LogWrites

LEMMA RmUpdateWrites == ASSUME IInv, updateLatest, pc = "upRmUpdate" PROVE LogWritten
  <1>1. ptab[4] # NoPart /\ cache[ptab[4]] \in Contents
    BY DEF IInv, Mounted, DonePc, TypeOK
  <1> DEFINE c == [cache[ptab[4]] EXCEPT !.files = @ \ {"UPDATE"}]
  <1>2. Write(4, c) /\ UNCHANGED <<disk, ptab>> BY DEF updateLatest, At
  <1>3. c.files = cache[ptab[4]].files \ {"UPDATE"} BY <1>1 DEF Contents
  <1> HIDE DEF c
  <1> QED BY <1>1, <1>2, <1>3, LogWrites

LEMMA TarWrites ==
  ASSUME IInv, updateLatest, pc \in {"upTar", "upTarDone"}
  PROVE  LatestWritten \/ UNCHANGED <<disk, cache, ptab>>
  <1>1. ptab[2] = "mb100" /\ ptab[4] \in {"mb200", "mb300"}
    BY DEF IInv, Mounted, ExtractPc, LatestPc, Tables
  <1>2. TypeOK /\ cache["mb100"] \in Contents BY DEF IInv, TypeOK, Region
  <1> DEFINE lat == cache[ptab[2]]
  <1>0. CASE UNCHANGED cache BY <1>0 DEF updateLatest, At
  <1> SUFFICES ASSUME ~UNCHANGED cache PROVE LatestWritten BY <1>0
  <1>3. PICK i : Write(2, [lat EXCEPT !.image = i]) BY DEF updateLatest, At
  <1> DEFINE c == [lat EXCEPT !.image = i]
  <1>4. c.files = cache["mb100"].files BY <1>1, <1>2 DEF Contents
  <1> HIDE DEF c
  <1>5. Write(2, c) BY <1>3 DEF c
  <1>6. UNCHANGED <<disk, ptab>> BY DEF updateLatest, At
  <1> QED BY <1>1, <1>2, <1>4, <1>5, <1>6, WriteEffect DEF LatestWritten, Region

(* Both copies of a region of LOG or RWFS change, to the same.             *)
LEMMA EnvWrites ==
  ASSUME IInv, Clean, Request \/ MarkReady \/ ChangeSettings \/ Damage
  PROVE  /\ disk' = cache' /\ ptab' = ptab /\ pc' = "running" /\ pc = "running"
         /\ disk'["mb100"] = disk["mb100"]
  <1>1. pc = "running" /\ pc' = pc /\ ptab' = ptab
    BY DEF Request, MarkReady, ChangeSettings, Damage, At
  <1>2. disk = cache BY <1>1 DEF Clean, DirtyPc, SearchPc, FailPc, ExtractPc, DonePc, ResetPc
  <1>3. \A n \in {3, 4} : Mounts(n) => ptab[n] \in Region /\ ptab[n] # "mb100"
    BY DEF IInv, Tables, Mounts, Region
  <1>4. TypeOK BY DEF IInv
  <1>5. CASE Request
    <2>1. PICK c : disk' = [disk EXCEPT ![ptab[4]] = c] /\ cache' = [cache EXCEPT ![ptab[4]] = c]
      BY <1>5 DEF Request
    <2> QED BY <1>1, <1>2, <1>3, <1>4, <1>5, <2>1 DEF Request, TypeOK, Region
  <1>6. CASE MarkReady
    BY <1>1, <1>2, <1>3, <1>4, <1>6 DEF MarkReady, TypeOK, Region
  <1>7. CASE ChangeSettings
    BY <1>1, <1>2, <1>3, <1>4, <1>7 DEF ChangeSettings, TypeOK, Region
  <1>8. CASE Damage
    <2> DEFINE b == Blank("broken")
    <2>1. PICK r \in {"mb200", "mb300"} : disk' = [disk EXCEPT ![r] = b] /\ cache' = [cache EXCEPT ![r] = b]
      BY <1>8 DEF Damage, Spoil
    <2> HIDE DEF b
    <2> QED BY <1>1, <1>2, <1>4, <2>1 DEF TypeOK, Region
  <1> QED BY <1>5, <1>6, <1>7, <1>8


(* The ways in which a step changes the card: mkfs, a mkfs of LATEST that  *)
(* breaks off, a write to LOG, a write to LATEST, write-back, and a step   *)
(* that leaves both copies equal.                                          *)
FormatPc == [n \in 2 .. 4 |-> CASE n = 2 -> {"mkfs2", "upMkfs"}
                                [] n = 3 -> {"mkfs3", "rsMkfs3", "rwMkfs3"}
                                [] n = 4 -> {"mkfs4", "rsMkfs4", "ckMkfs4"}]
Formatted   == \E n \in 2 .. 4 : pc \in FormatPc[n] /\ Mkfs(n) /\ ptab' = ptab
Broken ==
  /\ pc = "upMkfs" /\ ptab' = ptab
  /\ disk'["mb100"] = Blank("broken") /\ cache'["mb100"] = Blank("broken")
  /\ \A r \in Region : r # "mb100" => disk'[r] = disk[r] /\ cache'[r] = cache[r]
WrittenBack == cache' = cache /\ ptab' = ptab /\ \A r \in Region : disk'[r] \in {disk[r], cache[r]}
BothSame    == /\ (pc = "running" \/ PowerLoss)
               /\ disk' = cache' /\ ptab' = ptab
               /\ disk'["mb100"] \in {disk["mb100"], Blank("broken")}

LEMMA FormatPcs ==
  /\ FormatPc[2] = {"mkfs2", "upMkfs"} /\ FormatPc[3] = {"mkfs3", "rsMkfs3", "rwMkfs3"}
  /\ FormatPc[4] = {"mkfs4", "rsMkfs4", "ckMkfs4"}
  BY DEF FormatPc

LEMMA BlankFields ==
  ASSUME NEW f
  PROVE  /\ Blank(f).files = {} /\ Blank(f).image = NoImage
         /\ Blank(f).fmt = f /\ Blank(f).used = FALSE
  BY DEF Blank

LEMMA PowerLossSame ==
  ASSUME IInv, PowerLoss
  PROVE  /\ disk' = cache' /\ ptab' = ptab /\ pc' = "off"
         /\ \A r \in Region : disk'[r] = disk[r] \/ (r = Formatting /\ disk'[r] = Blank("broken"))
  <1> DEFINE b == Blank("broken")
             form == Formatting
  <1> HIDE DEF b, form
  <1>1. PICK torn \in BOOLEAN :
          /\ disk' = [r \in Region |-> IF torn /\ r = form THEN b ELSE disk[r]]
          /\ cache' = disk'
    BY DEF PowerLoss, b, form
  <1>2. ptab' = ptab /\ pc' = "off" BY DEF PowerLoss, Goto
  <1>3. \A r \in Region : disk'[r] = disk[r] \/ (r = form /\ disk'[r] = b) BY <1>1
  <1> QED BY <1>1, <1>2, <1>3 DEF b, form

LEMMA CardStep ==
  ASSUME IInv, Clean, Next
  PROVE  \/ UNCHANGED <<disk, cache>>
         \/ Formatted \/ Broken \/ LogWritten \/ LatestWritten \/ WrittenBack \/ BothSame
  <1> USE DEF At, Goto
  <1>0. TypeOK BY DEF IInv
  <1>1. CASE Main \/ remove_partitions \/ factory_reset \/ findTarball \/ PowerOn \/ Restart
    BY <1>1 DEF Main, remove_partitions, factory_reset, findTarball, PowerOn, Restart
  <1>2. CASE create_partitions
    <2>1. UNCHANGED <<disk, cache>>
          \/ (ptab' = ptab /\ \/ pc = "mkfs2" /\ Mkfs(2)
                              \/ pc = "mkfs3" /\ Mkfs(3)
                              \/ pc = "mkfs4" /\ Mkfs(4))
      BY <1>2 DEF create_partitions
    <2> QED BY <2>1, FormatPcs DEF Formatted
  <1>3. CASE checkLog
    <2>1. UNCHANGED <<disk, cache>> \/ (ptab' = ptab /\ pc = "ckMkfs4" /\ Mkfs(4))
      BY <1>3 DEF checkLog, MntLogExists
    <2> QED BY <2>1, FormatPcs DEF Formatted
  <1>4. CASE checkUpdate
    <2>1. CASE pc' = "readySync" BY <1>4, <2>1, CheckUpdateWrites
    <2>2. CASE pc' # "readySync" BY <1>4, <2>2 DEF checkUpdate
    <2> QED BY <2>1, <2>2
  <1>5. CASE readySync BY <1>5 DEF readySync, Sync, WrittenBack
  <1>6. CASE updateFailed BY <1>6, UpdateFailedWrites
  <1>7. CASE updateLatest
    <2>1. CASE pc = "upMkfs"
      <3>1. CASE Mkfs(2) BY <1>7, <2>1, <3>1, UpMkfsEffect, FormatPcs DEF Formatted
      <3> QED BY <1>7, <2>1, <3>1, UpMkfsEffect DEF Broken
    <2>2. CASE pc \in {"upTar", "upTarDone"} BY <1>7, <2>2, TarWrites
    <2>3. CASE pc \in {"upMount", "upDd"} BY <1>7, <2>3 DEF updateLatest
    <2>4. CASE pc = "upRmUpdate" BY <1>7, <2>4, RmUpdateWrites
    <2>5. CASE pc \in {"umountLog", "umountLatest"}
      BY <1>0, <1>7, <2>5 DEF updateLatest, WrittenBack, TypeOK
    <2> QED BY <1>7, <2>1, <2>2, <2>3, <2>4, <2>5 DEF updateLatest
  <1>8. CASE resetSettings
    <2>1. UNCHANGED <<disk, cache>>
          \/ (ptab' = ptab /\ \/ pc = "rsMkfs3" /\ Mkfs(3)
                              \/ pc = "rsMkfs4" /\ Mkfs(4))
      BY <1>8 DEF resetSettings
    <2> QED BY <2>1, FormatPcs DEF Formatted
  <1>9. CASE syncAndShutdown BY <1>9 DEF syncAndShutdown, Sync, WrittenBack
  <1>10. CASE mount_and_boot
    <2>1. UNCHANGED <<disk, cache>> \/ (ptab' = ptab /\ pc = "rwMkfs3" /\ Mkfs(3))
      BY <1>10 DEF mount_and_boot
    <2> QED BY <2>1, FormatPcs DEF Formatted
  <1>11. CASE Request \/ MarkReady \/ ChangeSettings \/ Damage
    BY <1>11, EnvWrites DEF BothSame
  <1>12. CASE Flush BY <1>0, <1>12 DEF Flush, WrittenBack, TypeOK
  <1>13. CASE PowerLoss BY <1>13, PowerLossSame DEF BothSame, Region
  <1> QED BY <1>1, <1>2, <1>3, <1>4, <1>5, <1>6, <1>7, <1>8, <1>9, <1>10, <1>11, <1>12, <1>13
          DEF Next, Script

(* mkfs leaves every region alone, or empty in both copies.                *)
LEMMA FormattedEffect ==
  ASSUME IInv, Formatted
  PROVE  /\ ptab' = ptab
         /\ \A r \in Region : \/ disk'[r] = disk[r] /\ cache'[r] = cache[r]
                              \/ disk'[r] = Blank("fs") /\ cache'[r] = Blank("fs")
  <1>1. PICK n \in 2 .. 4 : Mkfs(n) /\ ptab' = ptab BY DEF Formatted
  <1>2. TypeOK BY DEF IInv
  <1>3. CASE ptab[n] = NoPart BY <1>1, <1>2, <1>3, MkfsEffect
  <1>4. CASE ptab[n] # NoPart BY <1>1, <1>2, <1>4, MkfsEffect
  <1> QED BY <1>3, <1>4

LEMMA MkfsBoth == ASSUME Mkfs(2) \/ Mkfs(3) \/ Mkfs(4), disk = cache PROVE disk' = cache'
  BY DEF Mkfs

LEMMA NoFlagsStep == ASSUME IInv, FlagInv, Next PROVE NoFlags'
  <1>0. NoFlags /\ Clean BY DEF FlagInv
  <1>1. "mb100" \in Region BY DEF Region
  <1>2. CASE UNCHANGED <<disk, cache>> BY <1>0, <1>2 DEF NoFlags
  <1>3. CASE Formatted BY <1>0, <1>1, <1>3, FormattedEffect, BlankFields DEF NoFlags
  <1>4. CASE LogWritten \/ LatestWritten
    BY <1>0, <1>1, <1>4 DEF NoFlags, LogWritten, LatestWritten
  <1>5. CASE WrittenBack BY <1>0, <1>1, <1>5 DEF NoFlags, WrittenBack
  <1>6. CASE BothSame BY <1>0, <1>6, BlankFields DEF NoFlags, BothSame
  <1>7. CASE Broken BY <1>7, BlankFields DEF NoFlags, Broken
  <1> QED BY <1>0, <1>2, <1>3, <1>4, <1>5, <1>6, <1>7, CardStep

LEMMA ResetKeptStep == ASSUME IInv, FlagInv, Next PROVE ResetKept'
  <1>0. ResetKept /\ Clean BY DEF FlagInv
  <1>2. CASE UNCHANGED <<disk, cache>> BY <1>0, <1>2 DEF ResetKept
  <1>3. CASE Formatted BY <1>0, <1>3, FormattedEffect, BlankFields DEF ResetKept
  <1>4. CASE LogWritten
    <2> SUFFICES ASSUME NEW r \in Region, "RESETSETTINGS" \in disk'[r].files
                 PROVE  "RESETSETTINGS" \in cache'[r].files
      BY DEF ResetKept
    <2>1. "RESETSETTINGS" \in cache[r].files BY <1>0, <1>4 DEF LogWritten, ResetKept
    <2> QED BY <1>4, <2>1 DEF LogWritten
  <1>5. CASE LatestWritten BY <1>0, <1>5 DEF ResetKept, LatestWritten
  <1>6. CASE WrittenBack BY <1>0, <1>6 DEF ResetKept, WrittenBack
  <1>7. CASE BothSame BY <1>7 DEF ResetKept, BothSame
  <1>8. CASE Broken BY <1>0, <1>8, BlankFields DEF ResetKept, Broken
  <1> QED BY <1>0, <1>2, <1>3, <1>4, <1>5, <1>6, <1>7, <1>8, CardStep

LEMMA FlushKeeps ==
  ASSUME IInv, FlagInv, Flush
  PROVE  /\ UNCHANGED <<pc, ptab, cache>> /\ \A r \in Region : disk'[r] \in {disk[r], cache[r]}
         /\ disk = cache => disk' = disk
  BY DEF Flush, IInv, TypeOK

LEMMA CleanStep == ASSUME IInv, FlagInv, Next PROVE Clean'
  <1> USE DEF At, Goto, DirtyPc, SearchPc, FailPc, ExtractPc, DonePc, ResetPc
  <1>0. Clean BY DEF FlagInv
  <1>1. ASSUME pc' \in DirtyPc PROVE Clean' BY <1>1 DEF Clean
  <1>2. ASSUME UNCHANGED <<disk, cache>>, pc \notin DirtyPc PROVE Clean' BY <1>0, <1>2 DEF Clean
  <1>3. ASSUME Mkfs(2) \/ Mkfs(3) \/ Mkfs(4), pc \notin DirtyPc PROVE Clean'
    BY <1>0, <1>3, MkfsBoth DEF Clean
  <1>4. CASE Main \/ remove_partitions \/ factory_reset \/ PowerOn \/ Restart
    BY <1>1, <1>2, <1>4 DEF Main, remove_partitions, factory_reset, PowerOn, Restart
  <1>5. CASE create_partitions BY <1>2, <1>3, <1>5 DEF create_partitions
  <1>6. CASE checkLog BY <1>2, <1>3, <1>6 DEF checkLog, MntLogExists
  <1>7. CASE checkUpdate BY <1>1, <1>2, <1>7 DEF checkUpdate
  <1>8. CASE readySync \/ findTarball BY <1>1, <1>8 DEF readySync, findTarball
  <1>9. CASE updateFailed BY <1>1, <1>9 DEF updateFailed
  <1>10. CASE updateLatest BY <1>1, <1>10 DEF updateLatest
  <1>11. CASE resetSettings BY <1>1, <1>11 DEF resetSettings
  <1>12. CASE syncAndShutdown BY <1>0, <1>12 DEF syncAndShutdown, Sync, Clean
  <1>13. CASE mount_and_boot BY <1>2, <1>3, <1>13 DEF mount_and_boot
  <1>14. CASE Request \/ MarkReady \/ ChangeSettings \/ Damage
    BY <1>0, <1>14, EnvWrites DEF Clean
  <1>15. CASE Flush BY <1>0, <1>15, FlushKeeps DEF Clean
  <1>16. CASE PowerLoss BY <1>16, PowerLossSame DEF Clean
  <1> QED BY <1>4, <1>5, <1>6, <1>7, <1>8, <1>9, <1>10, <1>11, <1>12, <1>13, <1>14, <1>15, <1>16
          DEF Next, Script

LEMMA LatestCleanStep == ASSUME IInv, FlagInv, Next PROVE LatestClean'
  <1> USE DEF At, Goto, SearchPc, FailPc, ExtractPc, DonePc, ResetPc
  <1>0. TypeOK /\ Clean /\ LatestClean /\ "mb100" \in Region BY DEF FlagInv, IInv, Region
  <1>1. ASSUME pc' \notin SearchPc \cup FailPc \cup ResetPc \cup {"upMkfs", "upMount", "upTar"}
        PROVE  LatestClean'
    BY <1>1 DEF LatestClean
  <1>2. CASE Main \/ remove_partitions \/ create_partitions \/ factory_reset
    BY <1>1, <1>2 DEF Main, remove_partitions, create_partitions, factory_reset
  <1>3. CASE checkLog \/ syncAndShutdown \/ mount_and_boot \/ PowerOn \/ Restart
    BY <1>1, <1>3 DEF checkLog, syncAndShutdown, mount_and_boot, PowerOn, Restart
  <1>4. CASE checkUpdate
    <2>1. disk = cache BY <1>0, <1>4 DEF checkUpdate, Clean, DirtyPc
    <2>2. CASE pc' = "readySync"
      BY <1>0, <1>4, <2>1, <2>2, CheckUpdateWrites DEF LogWritten, LatestClean
    <2>3. CASE pc' # "readySync" BY <1>4, <2>1, <2>3 DEF checkUpdate, LatestClean
    <2> QED BY <2>2, <2>3
  <1>5. CASE readySync BY <1>5 DEF readySync, Sync, LatestClean
  <1>6. CASE findTarball BY <1>0, <1>6 DEF findTarball, LatestClean
  <1>7. CASE updateFailed
    <2>1. disk["mb100"] = cache["mb100"] BY <1>0, <1>7 DEF updateFailed, LatestClean
    <2> QED BY <1>0, <1>7, <2>1, UpdateFailedWrites DEF LogWritten, LatestClean
  <1>8. CASE updateLatest
    <2>1. CASE pc = "upMkfs"
      <3>1. disk["mb100"] = cache["mb100"] BY <1>0, <2>1 DEF LatestClean
      <3>2. CASE Mkfs(2)
        <4>1. disk'["mb100"] = cache'["mb100"]
          BY <1>0, <1>8, <2>1, <3>2, UpMkfsEffect, MkfsEffect DEF NoPart
        <4> QED BY <4>1 DEF LatestClean
      <3>3. CASE ~Mkfs(2)
        <4>1. disk'["mb100"] = cache'["mb100"]
          BY <1>8, <2>1, <3>1, <3>3, UpMkfsEffect
        <4> QED BY <4>1 DEF LatestClean
      <3> QED BY <3>2, <3>3
    <2>2. CASE pc = "umountLatest"
      <3>1. ptab[2] = "mb100" BY <2>2 DEF IInv, Mounted, LatestPc
      <3>2. disk' = [disk EXCEPT !["mb100"] = cache["mb100"]] /\ cache' = cache
        BY <1>8, <2>2, <3>1 DEF updateLatest
      <3> QED BY <1>0, <3>2 DEF LatestClean, TypeOK
    <2>3. CASE pc = "upMount"
      <3>1. disk["mb100"] = cache["mb100"] BY <1>0, <2>3 DEF LatestClean
      <3>2. UNCHANGED <<disk, cache>> BY <1>8, <2>3 DEF updateLatest
      <3> QED BY <3>1, <3>2 DEF LatestClean
    <2>4. CASE pc \notin {"upMkfs", "upMount", "umountLatest"} BY <1>1, <1>8, <2>4 DEF updateLatest
    <2> QED BY <2>1, <2>2, <2>3, <2>4
  <1>9. CASE resetSettings
    <2>1. disk["mb100"] = cache["mb100"] BY <1>0, <1>9 DEF resetSettings, LatestClean
    <2>2. CASE UNCHANGED <<disk, cache>> BY <2>1, <2>2 DEF LatestClean
    <2>3. CASE pc = "rsMkfs3"
      <3>1. Mkfs(3) /\ ptab[3] = "mb200" BY <1>9, <2>3 DEF resetSettings, IInv, Resetting
      <3> QED BY <1>0, <2>1, <3>1, MkfsEffect DEF LatestClean
    <2>4. CASE pc = "rsMkfs4" BY <1>1, <1>9, <2>4 DEF resetSettings
    <2> QED BY <1>9, <2>2, <2>3, <2>4 DEF resetSettings
  <1>10. CASE Request \/ MarkReady \/ ChangeSettings \/ Damage
    BY <1>0, <1>1, <1>10, EnvWrites
  <1>11. CASE Flush BY <1>0, <1>11, FlushKeeps DEF LatestClean
  <1>12. CASE PowerLoss BY <1>1, <1>12, PowerLossSame
  <1> QED BY <1>2, <1>3, <1>4, <1>5, <1>6, <1>7, <1>8, <1>9, <1>10, <1>11, <1>12 DEF Next, Script

LEMMA RwfsResetStep == ASSUME IInv, FlagInv, Next PROVE RwfsReset'
  <1> USE DEF At, Goto
  <1>0. TypeOK /\ Clean /\ RwfsReset /\ "mb200" \in Region BY DEF FlagInv, IInv, Region
  <1>1. ASSUME pc' \notin {"mkfs4", "rsMkfs4"} PROVE RwfsReset' BY <1>1 DEF RwfsReset
  <1>2. CASE create_partitions
    <2>1. CASE pc = "mkfs3"
      <3>1. pc' = "mkfs4" /\ ptab' = ptab /\ Mkfs(3) BY <1>2, <2>1 DEF create_partitions
      <3>2. ptab[3] # NoPart => disk'[ptab[3]] = Blank("fs") BY <1>0, <3>1, MkfsEffect
      <3>3. Blank("fs").used = FALSE BY BlankFields
      <3> QED BY <3>1, <3>2, <3>3 DEF RwfsReset
    <2>2. CASE pc # "mkfs3" BY <1>1, <1>2, <2>2 DEF create_partitions
    <2> QED BY <2>1, <2>2
  <1>3. CASE resetSettings
    <2>1. CASE pc = "rsMkfs3"
      <3>1. pc' = "rsMkfs4" /\ Mkfs(3) /\ ptab[3] = "mb200"
        BY <1>3, <2>1 DEF resetSettings, IInv, Resetting
      <3>2. disk'["mb200"] = Blank("fs") /\ cache'["mb200"] = Blank("fs")
        BY <1>0, <3>1, MkfsEffect DEF NoPart
      <3>3. Blank("fs").used = FALSE BY BlankFields
      <3> QED BY <3>1, <3>2, <3>3 DEF RwfsReset
    <2>2. CASE pc # "rsMkfs3" BY <1>1, <1>3, <2>2 DEF resetSettings
    <2> QED BY <2>1, <2>2
  <1>4. CASE Main \/ remove_partitions \/ factory_reset \/ checkLog
    BY <1>1, <1>4 DEF Main, remove_partitions, factory_reset, checkLog
  <1>5. CASE checkUpdate BY <1>1, <1>5 DEF checkUpdate
  <1>6. CASE readySync \/ findTarball \/ updateFailed
    BY <1>1, <1>6 DEF readySync, findTarball, updateFailed
  <1>7. CASE updateLatest \/ syncAndShutdown \/ mount_and_boot
    BY <1>1, <1>7 DEF updateLatest, syncAndShutdown, mount_and_boot
  <1>8. CASE PowerOn \/ Restart BY <1>1, <1>8 DEF PowerOn, Restart
  <1>9. CASE Request \/ MarkReady \/ ChangeSettings \/ Damage
    BY <1>0, <1>1, <1>9, EnvWrites
  <1>10. CASE Flush
    <2>1. CASE pc = "rsMkfs4" BY <1>0, <1>10, <2>1, FlushKeeps DEF RwfsReset
    <2>2. CASE pc = "mkfs4"
      <3>1. disk = cache
        BY <1>0, <2>2 DEF Clean, DirtyPc, SearchPc, FailPc, ExtractPc, DonePc, ResetPc
      <3> QED BY <1>0, <1>10, <2>2, <3>1, FlushKeeps DEF RwfsReset
    <2>3. CASE pc \notin {"mkfs4", "rsMkfs4"} BY <1>1, <1>10, <2>3, FlushKeeps
    <2> QED BY <2>1, <2>2, <2>3
  <1>11. CASE PowerLoss BY <1>1, <1>11, PowerLossSame
  <1> QED BY <1>2, <1>3, <1>4, <1>5, <1>6, <1>7, <1>8, <1>9, <1>10, <1>11 DEF Next, Script

LEMMA ReadyGoneStep == ASSUME IInv, FlagInv, Next PROVE ReadyGone'
  <1> USE DEF At, Goto, SearchPc, FailPc, ExtractPc, DonePc
  <1>0. TypeOK /\ Clean /\ LatestClean /\ ReadyGone BY DEF FlagInv, IInv
  <1>a. ASSUME pc' \notin {"readySync", "findTarball", "sync"} \cup FailPc \cup ExtractPc \cup DonePc
        PROVE  ReadyGone'
    BY <1>a DEF ReadyGone
  <1>b. pc \in LatestPc => ptab[2] = "mb100" BY DEF IInv, Mounted
  <1>c. pc \in SearchPc \cup FailPc \cup ExtractPc \cup DonePc => ptab[4] \in Region /\ ptab[4] # "mb100"
    BY DEF IInv, Mounted, Tables, Region
  <1>1. CASE Main \/ remove_partitions \/ create_partitions \/ checkLog
    BY <1>a, <1>1 DEF Main, remove_partitions, create_partitions, checkLog
  <1>2. CASE mount_and_boot \/ PowerOn \/ Restart
    BY <1>a, <1>2 DEF mount_and_boot, PowerOn, Restart
  <1>3. CASE factory_reset
    <2>1. disk = cache BY <1>0, <1>3 DEF factory_reset, Clean, DirtyPc, ResetPc
    <2> QED BY <1>3, <2>1 DEF factory_reset, ReadyGone
  <1>4. CASE checkUpdate
    <2>1. CASE pc' = "readySync"
      BY <1>4, <2>1, CheckUpdateWrites DEF LogWritten, ReadyGone
    <2>2. CASE pc' # "readySync" BY <1>a, <1>4, <2>2 DEF checkUpdate
    <2> QED BY <2>1, <2>2
  <1>5. CASE readySync
    BY <1>0, <1>5 DEF readySync, Sync, ReadyGone, NotReady
  <1>6. CASE findTarball BY <1>0, <1>6 DEF findTarball, ReadyGone, NotReady
  <1>7. CASE updateFailed
    <2>1. LogWritten BY <1>7, UpdateFailedWrites
    <2>2. pc \in FailPc /\ pc' \in FailPc \cup {"sync"} BY <1>7 DEF updateFailed
    <2>3. NotReady' BY <1>0, <2>1, <2>2 DEF ReadyGone, NotReady, LogWritten
    <2>4. ptab'[4] # NoPart BY <1>c, <2>1, <2>2 DEF LogWritten, NoPart
    <2> QED BY <2>2, <2>3, <2>4 DEF ReadyGone
  <1>8. CASE updateLatest
    <2>1. pc \in ExtractPc \cup DonePc /\ ptab' = ptab BY <1>8 DEF updateLatest
    <2>2. NotReady /\ ptab[4] \in Region /\ ptab[4] # "mb100" /\ ptab[2] = "mb100"
      BY <1>0, <1>b, <1>c, <2>1 DEF ReadyGone, LatestPc
    <2>3. NotReady'
      <3>1. CASE pc = "upMkfs"
        <4>1. disk'[ptab[4]] = disk[ptab[4]] /\ cache'[ptab[4]] = cache[ptab[4]]
          BY <1>8, <2>2, <3>1, UpMkfsEffect
        <4> QED BY <2>1, <2>2, <4>1 DEF NotReady
      <3>2. CASE pc \in {"upTar", "upTarDone"}
        BY <1>8, <2>1, <2>2, <3>2, TarWrites DEF NotReady, LatestWritten
      <3>3. CASE pc = "upRmUpdate"
        BY <1>8, <2>1, <2>2, <3>3, RmUpdateWrites DEF NotReady, LogWritten
      <3>4. CASE pc \in {"upMount", "upDd"} BY <1>8, <2>2, <3>4 DEF updateLatest, NotReady
      <3>5. CASE pc \in {"umountLog", "umountLatest"}
        BY <1>0, <1>8, <2>1, <2>2, <3>5 DEF updateLatest, NotReady, TypeOK
      <3> QED BY <2>1, <3>1, <3>2, <3>3, <3>4, <3>5
    <2>4. pc' # "readySync" BY <1>8 DEF updateLatest
    <2> QED BY <2>1, <2>2, <2>3, <2>4 DEF ReadyGone, Region, NoPart
  <1>9. CASE resetSettings
    <2>1. CASE pc = "rsMkfs4"
      <3>1. pc' = "sync" /\ Mkfs(4) /\ ptab[4] = "mb300" /\ disk["mb100"] = cache["mb100"]
        BY <1>0, <1>9, <2>1 DEF resetSettings, IInv, Resetting, LatestClean, ResetPc
      <3>2. disk'["mb100"] = cache'["mb100"] BY <1>0, <3>1, MkfsEffect DEF Region
      <3> QED BY <3>1, <3>2 DEF ReadyGone
    <2>2. CASE pc # "rsMkfs4" BY <1>a, <1>9, <2>2 DEF resetSettings
    <2> QED BY <2>1, <2>2
  <1>10. CASE syncAndShutdown BY <1>a, <1>10 DEF syncAndShutdown
  <1>11. CASE Request \/ MarkReady \/ ChangeSettings \/ Damage
    BY <1>0, <1>a, <1>11, EnvWrites
  <1>12. CASE Flush
    <2>1. UNCHANGED <<pc, ptab, cache>> /\ \A r \in Region : disk'[r] \in {disk[r], cache[r]}
      BY <1>12, FlushKeeps
    <2>2. ptab[4] # NoPart => ptab[4] \in Region BY <1>0 DEF TypeOK
    <2>3. NotReady /\ ptab[4] # NoPart => NotReady' BY <2>1, <2>2 DEF NotReady
    <2>4. disk["mb100"] = cache["mb100"] => disk'["mb100"] = cache'["mb100"]
      BY <2>1 DEF Region
    <2> QED BY <1>0, <1>c, <2>1, <2>3, <2>4 DEF ReadyGone, Region, NoPart
  <1>13. CASE PowerLoss BY <1>a, <1>13, PowerLossSame
  <1> QED BY <1>1, <1>2, <1>3, <1>4, <1>5, <1>6, <1>7, <1>8, <1>9, <1>10, <1>11, <1>12, <1>13
          DEF Next, Script

LEMMA ServedStep == ASSUME IInv, FlagInv, Next PROVE Served'
  <1> USE DEF At, Goto
  <1>0. TypeOK /\ Tables /\ Clean /\ Served BY DEF FlagInv, IInv
  <1>1. ASSUME pc' \notin {"ckReady", "checkUpdate", "checkRwfs", "rwMkfs3", "switchRoot", "panic"}
        PROVE  Served'
    BY <1>1 DEF Served
  <1>2. Blank("fs").fmt = "fs" /\ Blank("fs").files = {} BY BlankFields
  <1>3. CASE create_partitions
    <2>1. CASE pc' = "checkRwfs"
      <3>1. ptab' = ptab /\ Mkfs(4) BY <1>3, <2>1 DEF create_partitions
      <3>2. ptab[4] # NoPart => disk'[ptab[4]] = Blank("fs") BY <1>0, <3>1, MkfsEffect
      <3> QED BY <1>2, <2>1, <3>1, <3>2 DEF Served
    <2>2. CASE pc' # "checkRwfs" BY <1>1, <1>3, <2>2 DEF create_partitions
    <2> QED BY <2>1, <2>2
  <1>4. CASE checkLog
    <2>1. CASE pc = "ckMkfs4"
      <3>1. pc' = "ckReady" /\ ptab' = ptab /\ Mkfs(4) BY <1>4, <2>1 DEF checkLog
      <3>2. ptab[4] # NoPart => cache'[ptab[4]] = Blank("fs") BY <1>0, <3>1, MkfsEffect
      <3> QED BY <1>2, <3>1, <3>2 DEF Served, Mounts
    <2>2. CASE pc = "checkLog" BY <1>1, <1>4, <2>2 DEF checkLog, FsckFails, Mounts, Served
    <2>3. CASE pc = "ckReady" BY <1>0, <1>4, <2>3 DEF checkLog, MntLogExists, Mounts, Served
    <2>4. CASE pc \in {"ckRm4", "ckMkpart"} BY <1>1, <1>4, <2>4 DEF checkLog
    <2> QED BY <1>4, <2>1, <2>2, <2>3, <2>4 DEF checkLog
  <1>5. CASE checkUpdate
    <2>1. CASE pc' = "checkRwfs"
      <3>1. /\ pc = "checkUpdate" /\ UNCHANGED <<ptab, disk>>
            /\ Mounts(4) => LogFiles \cap {"UPDATE", "FACTORYRESET", "RESETSETTINGS"} = {}
        BY <1>5, <2>1 DEF checkUpdate
      <3>2. disk = cache
        BY <1>0, <3>1 DEF Clean, DirtyPc, SearchPc, FailPc, ExtractPc, DonePc, ResetPc
      <3>3. ptab[4] # NoPart => "UPDATE" \notin disk[ptab[4]].files
        BY <1>0, <3>1, <3>2 DEF Served, LogFiles
      <3> QED BY <2>1, <3>1, <3>3 DEF Served
    <2>2. CASE pc' # "checkRwfs" BY <1>1, <1>5, <2>2 DEF checkUpdate
    <2> QED BY <2>1, <2>2
  <1>6. CASE mount_and_boot
    <2>1. CASE pc = "rwMkfs3"
      <3>1. pc' = "switchRoot" /\ ptab' = ptab /\ Mkfs(3) BY <1>6, <2>1 DEF mount_and_boot
      <3>2. ptab[4] # NoPart => disk'[ptab[4]] = disk[ptab[4]]
        BY <1>0, <3>1, MkfsEffect DEF Tables, Region
      <3> QED BY <1>0, <2>1, <3>1, <3>2 DEF Served
    <2>2. CASE pc # "rwMkfs3"
      <3>1. /\ UNCHANGED <<ptab, disk>> /\ pc \in {"checkRwfs", "switchRoot"}
            /\ pc' \in {"rwMkfs3", "switchRoot", "running", "panic"}
        BY <1>6, <2>2 DEF mount_and_boot
      <3> QED BY <1>0, <3>1 DEF Served
    <2> QED BY <2>1, <2>2
  <1>7. CASE Main \/ remove_partitions \/ factory_reset \/ readySync \/ findTarball
    BY <1>1, <1>7 DEF Main, remove_partitions, factory_reset, readySync, findTarball
  <1>8. CASE updateFailed \/ updateLatest BY <1>1, <1>8 DEF updateFailed, updateLatest
  <1>9. CASE resetSettings \/ syncAndShutdown BY <1>1, <1>9 DEF resetSettings, syncAndShutdown
  <1>10. CASE PowerOn \/ Restart BY <1>1, <1>10 DEF PowerOn, Restart
  <1>11. CASE Request \/ MarkReady \/ ChangeSettings \/ Damage
    BY <1>0, <1>1, <1>11, EnvWrites
  <1>12. CASE Flush
    <2>1. CASE pc \in {"ckReady", "checkUpdate", "checkRwfs", "rwMkfs3", "switchRoot", "panic"}
      <3>1. disk = cache
        BY <1>0, <2>1 DEF Clean, DirtyPc, SearchPc, FailPc, ExtractPc, DonePc, ResetPc
      <3>2. UNCHANGED <<pc, ptab, cache, disk>> BY <1>12, <3>1, FlushKeeps
      <3> QED BY <1>0, <3>2 DEF Served, Mounts
    <2>2. CASE pc \notin {"ckReady", "checkUpdate", "checkRwfs", "rwMkfs3", "switchRoot", "panic"}
      BY <1>1, <1>12, <2>2, FlushKeeps
    <2> QED BY <2>1, <2>2
  <1>13. CASE PowerLoss BY <1>1, <1>13, PowerLossSame
  <1> QED BY <1>3, <1>4, <1>5, <1>6, <1>7, <1>8, <1>9, <1>10, <1>11, <1>12, <1>13 DEF Next, Script

LEMMA InitFlagInv == Init => FlagInv
  <1> SUFFICES ASSUME Init PROVE FlagInv OBVIOUS
  <1> USE DEF SearchPc, FailPc, ExtractPc, DonePc, ResetPc
  <1>1. pc = "off" /\ disk = cache /\ \A r \in Region : disk[r] = Blank("raw") BY DEF Init
  <1>2. Blank("raw").files = {} BY BlankFields
  <1>3. Clean /\ LatestClean /\ ReadyGone /\ Served /\ RwfsReset
    BY <1>1 DEF Clean, LatestClean, ReadyGone, Served, RwfsReset
  <1>4. NoFlags /\ ResetKept BY <1>1, <1>2 DEF NoFlags, ResetKept, Region
  <1> QED BY <1>3, <1>4 DEF FlagInv

LEMMA NextFlagInv == ASSUME IInv, FlagInv, [Next]_vars PROVE FlagInv'
  <1>1. CASE Next
    BY <1>1, CleanStep, LatestCleanStep, ReadyGoneStep, ServedStep, NoFlagsStep, ResetKeptStep,
       RwfsResetStep DEF FlagInv
  <1>2. CASE UNCHANGED vars
    <2>1. Clean' /\ LatestClean' /\ NoFlags' /\ ResetKept' /\ RwfsReset'
      BY <1>2 DEF vars, FlagInv, Clean, LatestClean, NoFlags, ResetKept, RwfsReset
    <2>2. ReadyGone' BY <1>2 DEF vars, FlagInv, ReadyGone, NotReady
    <2>3. Served' BY <1>2 DEF vars, FlagInv, Served, Mounts
    <2> QED BY <2>1, <2>2, <2>3 DEF FlagInv
  <1> QED BY <1>1, <1>2

LEMMA FlagsInductive == Spec => [](IInv /\ FlagInv)
  BY InitIInv, NextIInv, InitFlagInv, NextFlagInv, PTL DEF Spec

(* Whenever LATEST is not the same on the card and in memory, READY is     *)
(* gone from both copies of LOG.                                           *)
LEMMA DirtyNotReady == ASSUME IInv, FlagInv PROVE disk["mb100"] = cache["mb100"] \/ NotReady
  BY DEF FlagInv, Clean, LatestClean, ReadyGone, DirtyPc

LEMMA ReadyFirst ==
  ASSUME IInv, FlagInv, Next, disk'["mb100"].image \notin {NoImage, disk["mb100"].image}
  PROVE  "READY" \notin disk[ptab[4]].files
  <1>0. Clean /\ "mb100" \in Region BY DEF FlagInv, Region
  <1>1. CASE UNCHANGED <<disk, cache>> BY <1>1
  <1>2. CASE Formatted
    <2>1. Blank("fs").image = NoImage BY BlankFields
    <2> QED BY <1>0, <1>2, <2>1, FormattedEffect
  <1>3. CASE LogWritten \/ LatestWritten BY <1>3 DEF LogWritten, LatestWritten
  <1>4. CASE WrittenBack BY <1>0, <1>4, DirtyNotReady DEF WrittenBack, NotReady
  <1>5. CASE BothSame
    <2>1. Blank("broken").image = NoImage BY BlankFields
    <2> QED BY <1>5, <2>1 DEF BothSame
  <1>6. CASE Broken
    <2>1. Blank("broken").image = NoImage BY BlankFields
    <2> QED BY <1>6, <2>1 DEF Broken
  <1> QED BY <1>0, <1>1, <1>2, <1>3, <1>4, <1>5, <1>6, CardStep

(* Only mkfs, whole or torn, takes RESETSETTINGS off the card.             *)
LEMMA ResetComplete ==
  ASSUME IInv, FlagInv, Next, pc \notin {"running", "ckMkfs4"},
         NEW r \in Region, "RESETSETTINGS" \in disk[r].files, "RESETSETTINGS" \notin disk'[r].files
  PROVE  ptab'[3] = NoPart \/ ~disk'[ptab'[3]].used
  <1>0. TypeOK /\ Tables /\ Clean /\ ResetKept /\ RwfsReset /\ NoFlags BY DEF FlagInv, IInv
  <1>1. r # "mb100" /\ disk'[r] # disk[r] BY <1>0 DEF NoFlags
  <1>2. CASE Formatted
    <2>1. PICK n \in 2 .. 4 : pc \in FormatPc[n] /\ Mkfs(n) /\ ptab' = ptab
      BY <1>2 DEF Formatted
    <2>2. r = ptab[n] BY <1>0, <1>1, <2>1, MkfsEffect
    <2>3. n # 2 BY <1>0, <1>1, <2>2 DEF Tables, Region, NoPart
    <2>4. Blank("fs").used = FALSE BY BlankFields
    <2>5. CASE n = 3
      <3>1. disk'[ptab[3]] = Blank("fs")
        BY <1>0, <2>1, <2>2, <2>5, MkfsEffect DEF Region, NoPart
      <3> QED BY <2>1, <2>4, <3>1
    <2>6. CASE n = 4
      <3>1. pc \in {"mkfs4", "rsMkfs4"} BY <2>1, <2>6, FormatPcs
      <3>2. ptab[3] = NoPart \/ (ptab[3] \in Region /\ ptab[3] # ptab[4])
        BY <1>0, <2>2, <2>6 DEF Tables, Region, NoPart
      <3>3. ptab[3] # NoPart => disk'[ptab[3]] = disk[ptab[3]]
        BY <1>0, <2>1, <2>6, <3>2, MkfsEffect
      <3>4. ptab[3] # NoPart => ~disk[ptab[3]].used
        BY <1>0, <3>1 DEF RwfsReset, IInv, Resetting
      <3> QED BY <2>1, <3>3, <3>4
    <2> QED BY <2>3, <2>5, <2>6
  <1>3. CASE PowerLoss
    <2>1. r = Formatting /\ disk'[r] = Blank("broken") /\ ptab' = ptab
      BY <1>1, <1>3, PowerLossSame
    <2>2. Blank("broken").used = FALSE BY BlankFields
    <2>3. r \notin {NoPart, ptab[2]} BY <1>0, <1>1 DEF Tables, Region, NoPart
    <2>4. \/ r = ptab[3]
          \/ r = ptab[4] /\ pc \in {"mkfs4", "rsMkfs4"}
      BY <2>1, <2>3 DEF Formatting
    <2>5. CASE r = ptab[3] BY <2>1, <2>2, <2>5
    <2>6. CASE r = ptab[4] /\ pc \in {"mkfs4", "rsMkfs4"}
      <3>1. ptab[3] # NoPart => ptab[3] \in Region /\ ptab[3] # Formatting
        BY <1>0, <2>1, <2>6 DEF Tables, Region
      <3>2. ptab[3] # NoPart => disk'[ptab[3]] = disk[ptab[3]]
        BY <1>3, <3>1, PowerLossSame
      <3>3. ptab[3] # NoPart => ~disk[ptab[3]].used
        BY <1>0, <2>6 DEF RwfsReset, IInv, Resetting
      <3> QED BY <2>1, <3>2, <3>3
    <2> QED BY <2>4, <2>5, <2>6
  <1>4. CASE BothSame BY <1>3, <1>4 DEF BothSame
  <1>5. CASE LogWritten \/ LatestWritten BY <1>1, <1>5 DEF LogWritten, LatestWritten
  <1>6. CASE WrittenBack BY <1>0, <1>6 DEF WrittenBack, ResetKept
  <1>7. CASE Broken BY <1>1, <1>7 DEF Broken
  <1> QED BY <1>0, <1>1, <1>2, <1>3, <1>4, <1>5, <1>6, <1>7, CardStep

(* An interrupted update is redone by the next boot: the board never hangs *)
(* on a half extracted LATEST (no init to switch to) while UPDATE stands   *)
(* on LOG, whatever was written back when the power went.                  *)
THEOREM UpdatesAreRetried == Spec => []InterruptedUpdateRetried
  <1>1. FlagInv => InterruptedUpdateRetried
    BY DEF FlagInv, Served, InterruptedUpdateRetried
  <1> QED BY FlagsInductive, <1>1, PTL

(* LATEST never holds a tarball with a wrong checksum, nor half a tarball  *)
(* at a boot that hangs while the request stands, over any number of       *)
(* tarballs, power losses, media faults and failing commands.              *)
THEOREM LatestStaysSound == Spec => []LatestSound
  <1>1. VerifiedImageOnly /\ InterruptedUpdateRetried => LatestSound BY DEF LatestSound
  <1> QED BY OnlyVerifiedImages, UpdatesAreRetried, <1>1, PTL

(* LATEST changes on the card only when READY is durably gone from LOG,    *)
(* and RESETSETTINGS leaves the card only after the old settings have,     *)
(* over any sequence of power losses and media faults.                     *)
THEOREM FlagsKeepOrder == Spec => FlagsInOrder
  <1> DEFINE Ready == disk'["mb100"].image \notin {NoImage, disk["mb100"].image}
                        => "READY" \notin disk[ptab[4]].files
             Reset == (pc \notin {"running", "ckMkfs4"} /\
                        \E r \in Region : "RESETSETTINGS" \in disk[r].files \ disk'[r].files)
                        => ptab'[3] = NoPart \/ ~disk'[ptab'[3]].used
  <1>1. IInv /\ FlagInv /\ [Next]_vars => [Ready]_vars
    BY ReadyFirst
  <1>2. IInv /\ FlagInv /\ [Next]_vars => [Reset]_vars
    <2>1. ASSUME IInv, FlagInv, Next PROVE Reset BY <2>1, ResetComplete
    <2> QED BY <2>1
  <1>3. Spec => [][Ready]_vars BY FlagsInductive, <1>1, PTL DEF Spec
  <1>4. Spec => [][Reset]_vars BY FlagsInductive, <1>2, PTL DEF Spec
  <1> QED BY <1>3, <1>4, PTL DEF FlagsInOrder, SettingsResetComplete
=============================================================================
