------------------------------ MODULE SoloBoot ------------------------------
(***************************************************************************)
(* The initramfs script of the Solo and of its controller                  *)
(* (recipes-core/initrdscripts/files/init): partitioning of the eMMC,      *)
(* update, settings reset, factory reset and the start of the union root,  *)
(* with power loss between and inside any two commands.                    *)
(*                                                                         *)
(* The card holds GOLDEN (partition 1, never written by the script) and    *)
(* three regions, named for where the parted commands place them:          *)
(* mb100 = 100..200 MB, mb200 = 200..300 MB, mb300 = 300 MB..end.          *)
(* A partition table entry says which region a partition number denotes.   *)
(* Every write to a mounted file system goes through the page cache:       *)
(* `cache' is what the running kernel sees, `disk' what survives a power   *)
(* loss.  parted and mke2fs write through.                                 *)
(***************************************************************************)
EXTENDS Integers, FiniteSets

CONSTANTS
  NTar,       \* update tarballs are named 1..NTar, in `sort' order
  MaxFaults   \* bound on power losses, media faults and failing commands

ASSUME NTarAssumption == NTar \in Nat \ {0}
ASSUME MaxFaultsAssumption == MaxFaults \in Nat

VARIABLES
  pc,      \* next command of the script, or the state of the board
  ret,     \* where create_partitions returns: "boot" or "reset"
  force,   \* FORCE_FACTORY_RESET, set on the kernel command line by U-Boot
  root,    \* ROOT_DEVICE: partition number 1 (GOLDEN) or 2 (LATEST)
  latest,  \* $latestFile: Unset before the search, 0 when empty
  ptab,    \* partition table: partitions 2..4
  disk,    \* durable contents of each region
  cache,   \* contents as the kernel sees them
  uboot,   \* boot loader sectors: "ok", "torn", or dd not yet synced: "dirty", "bad"
           \* (of a truncated file)
  led,     \* user2 LED blinks
  faults,  \* faults so far
  failed   \* the last command of the extraction that failed in this boot, or NoneFailed

vars == <<pc, ret, force, root, latest, ptab, disk, cache, uboot, led, faults, failed>>

Tar     == 1 .. NTar
Region  == {"mb100", "mb200", "mb300"}
NoPart  == "nopart"
Flag    == {"UPDATE", "READY", "FACTORYRESET", "RESETSETTINGS", "UPDATEFAILED"}

NoneFailed == "none"
Unset   == -1      \* of latest
NoImage == 0       \* of a region's image
Partial == -1      \* tar was interrupted or failed, or its output is not on disk yet
Corrupt == -2      \* extracted from a tarball whose md5 does not match

(* What a region can hold.  `used' says that the running system has left   *)
(* settings there, `tars' and `md5' are the tarballs and the .md5 files of *)
(* updates/, `files' the flag files.                                       *)
Contents ==
  [fmt : {"raw", "broken", "fs"}, files : SUBSET Flag, tars : [Tar -> {"none", "good", "bad"}],
   md5 : SUBSET Tar, image : Tar \cup {NoImage, Partial, Corrupt}, used : BOOLEAN]

Blank(f) ==
  [fmt |-> f, files |-> {}, tars |-> [t \in Tar |-> "none"],
   md5 |-> {}, image |-> NoImage, used |-> FALSE]

Init ==
  /\ pc = "off" /\ ret = "boot" /\ force = FALSE /\ root = 1 /\ latest = Unset
  /\ ptab = [n \in 2 .. 4 |-> NoPart]
  /\ disk = [r \in Region |-> Blank("raw")]
  /\ cache = disk
  /\ uboot = "ok" /\ led = FALSE /\ faults = 0 /\ failed = NoneFailed

-----------------------------------------------------------------------------
(* The commands the script runs.                                           *)

Mounts(n) == ptab[n] # NoPart /\ cache[ptab[n]].fmt = "fs"

(* parted mkpart: the lowest free partition number gets the region, unless *)
(* the region is taken or no primary number is left; data is not touched.  *)
Mkpart(r) ==
  IF (\E n \in 2 .. 4 : ptab[n] = r) \/ (\A n \in 2 .. 4 : ptab[n] # NoPart)
  THEN UNCHANGED ptab
  ELSE \E n \in 2 .. 4 : /\ ptab[n] = NoPart
                         /\ \A m \in 2 .. 4 : m < n => ptab[m] # NoPart
                         /\ ptab' = [ptab EXCEPT ![n] = r]

PartedRm(n) == ptab' = [ptab EXCEPT ![n] = NoPart]

Mkfs(n) ==
  IF ptab[n] = NoPart
  THEN UNCHANGED <<disk, cache>>
  ELSE /\ disk'  = [disk EXCEPT ![ptab[n]] = Blank("fs")]
       /\ cache' = [cache EXCEPT ![ptab[n]] = Blank("fs")]

Spoil(r) ==
  /\ disk'  = [disk EXCEPT ![r] = Blank("broken")]
  /\ cache' = [cache EXCEPT ![r] = Blank("broken")]

FsckFails(n) == ~Mounts(n)

Write(n, c) == cache' = [cache EXCEPT ![ptab[n]] = c]

LogFiles == cache[ptab[4]].files

(* What dd has written reaches the card.                                   *)
DdDone == IF uboot = "dirty" THEN "ok" ELSE IF uboot = "bad" THEN "torn" ELSE uboot

Sync == disk' = cache /\ uboot' = DdDone

(* An I/O error, a full file system or no memory: the command gives up, and *)
(* the script, which does not look at its status, goes on.                 *)
Fails(command) == faults < MaxFaults /\ faults' = faults + 1 /\ failed' = command
Works          == UNCHANGED <<faults, failed>>
Silent         == {"mount", "tar"}  \* failures that leave LATEST without the image

At(l)   == pc = l
Goto(l) == pc' = l

-----------------------------------------------------------------------------
(* U-Boot (outside this repository) picks the boot partition: LATEST only  *)
(* if something was extracted there, GOLDEN otherwise.                     *)
PowerOn ==
  /\ At("off")
  /\ IF uboot = "torn" THEN Goto("brick") ELSE Goto("start")
  /\ \E r \in {1, 2} :
       /\ r = 2 => Mounts(2) /\ cache[ptab[2]].image # NoImage
       /\ r = 1 => ~(Mounts(2) /\ cache[ptab[2]].image \in Tar)
       /\ root' = r
  /\ force' \in BOOLEAN /\ latest' = Unset /\ led' = FALSE /\ failed' = NoneFailed
  /\ UNCHANGED <<ret, ptab, disk, cache, uboot, faults>>

(* if [ ! -e /dev/mmcblk0p2 ] ... elif factoryreset=1 ... checkLog         *)
Main ==
  /\ At("start")
  /\ \/ /\ ptab[2] = NoPart
        /\ Goto("mkpart2") /\ ret' = "boot" /\ led' = TRUE
     \/ /\ ptab[2] # NoPart /\ force
        /\ Goto("rm2") /\ ret' = "reset" /\ led' = TRUE
     \/ /\ ptab[2] # NoPart /\ ~force
        /\ Goto("checkLog") /\ UNCHANGED <<ret, led>>
  /\ UNCHANGED <<force, root, latest, ptab, disk, cache, uboot, faults, failed>>

(* Mutant: partition 3 is not deleted.                                     *)
remove_partitionsKeep3 ==
  /\ \/ At("rm2") /\ PartedRm(2) /\ Goto("rm4")
     \/ At("rm4") /\ PartedRm(4) /\ Goto("mkpart2")
  /\ UNCHANGED <<ret, force, root, latest, disk, cache, uboot, led, faults, failed>>

remove_partitions ==
  /\ \/ At("rm2") /\ PartedRm(2) /\ Goto("rm3")
     \/ At("rm3") /\ PartedRm(3) /\ Goto("rm4")
     \/ At("rm4") /\ PartedRm(4) /\ Goto("mkpart2")
  /\ UNCHANGED <<ret, force, root, latest, disk, cache, uboot, led, faults, failed>>

create_partitions ==
  \/ /\ \/ At("mkpart2") /\ Mkpart("mb100") /\ Goto("mkpart3")
        \/ At("mkpart3") /\ Mkpart("mb200") /\ Goto("mkpart4")
        \/ At("mkpart4") /\ Mkpart("mb300") /\ Goto("mkfs2")
     /\ UNCHANGED <<ret, force, root, latest, disk, cache, uboot, led, faults, failed>>
  \/ /\ \/ At("mkfs2") /\ Mkfs(2) /\ Goto("mkfs3") /\ UNCHANGED led
        \/ At("mkfs3") /\ Mkfs(3) /\ Goto("mkfs4") /\ UNCHANGED led
        \/ /\ At("mkfs4") /\ Mkfs(4)
           /\ Goto(IF ret = "boot" THEN "checkRwfs" ELSE "resetDd")
           /\ led' = (ret # "boot")
     /\ UNCHANGED <<ret, force, root, latest, ptab, uboot, faults, failed>>

(* The rest of factory_reset: u-boot.imx of GOLDEN is written to the raw   *)
(* device, the LED is switched off, then sync and shutdown.                *)
factory_reset ==
  \/ /\ At("resetDd") /\ Goto("sync") /\ led' = FALSE
     /\ \E present \in BOOLEAN : uboot' = IF present THEN "dirty" ELSE uboot
     /\ UNCHANGED <<ret, force, root, latest, ptab, disk, cache, faults, failed>>

(* Whether the mount point /mnt/log exists when checkLog mounts LOG to     *)
(* leave READY there: `mkdir -f' is no option of mkdir, and the script     *)
(* makes /mnt/log only after checkLog has returned.                        *)
MntLogExists == FALSE

checkLog ==
  \/ /\ At("checkLog")
     /\ IF FsckFails(4) THEN Goto("ckRm4") /\ led' = TRUE
                        ELSE Goto("checkUpdate") /\ UNCHANGED led
     /\ UNCHANGED <<ret, force, root, latest, ptab, disk, cache, uboot, faults, failed>>
  \/ /\ \/ At("ckRm4") /\ PartedRm(4) /\ Goto("ckMkpart")
        \/ At("ckMkpart") /\ Mkpart("mb300") /\ Goto("ckMkfs4")
     /\ UNCHANGED <<ret, force, root, latest, disk, cache, uboot, led, faults, failed>>
  \/ /\ At("ckMkfs4") /\ Mkfs(4) /\ led' = FALSE /\ Goto("ckReady")
     /\ UNCHANGED <<ret, force, root, latest, ptab, uboot, faults, failed>>
  \/ /\ At("ckReady") /\ Goto("checkUpdate")
     /\ IF MntLogExists /\ Mounts(4)
        THEN /\ Write(4, [cache[ptab[4]] EXCEPT !.files = @ \cup {"READY"}])
             /\ disk' = cache'
        ELSE UNCHANGED <<disk, cache>>
     /\ UNCHANGED <<ret, force, root, latest, ptab, uboot, led, faults, failed>>

(* Mutant: an update is started only from a system that was ready.         *)
checkUpdateIfReady ==
  /\ At("checkUpdate")
  /\ \/ /\ Mounts(4) /\ {"UPDATE", "READY"} \subseteq LogFiles
        /\ Write(4, [cache[ptab[4]] EXCEPT !.files = @ \ {"READY"}])
        /\ Goto("readySync")
     \/ /\ Mounts(4) => ~({"UPDATE", "READY"} \subseteq LogFiles)
        /\ Goto("checkRwfs") /\ UNCHANGED cache
  /\ UNCHANGED <<ret, led, force, root, latest, ptab, disk, uboot, faults, failed>>

(* mount LOG and look at the flag files; with UPDATE, READY is removed and *)
(* synced before anything else happens.                                    *)
checkUpdate ==
  /\ At("checkUpdate")
  /\ \/ /\ Mounts(4) /\ "UPDATE" \in LogFiles
        /\ Write(4, [cache[ptab[4]] EXCEPT !.files = @ \ {"READY"}])
        /\ Goto("readySync") /\ UNCHANGED <<ret, led>>
     \/ /\ Mounts(4) /\ "UPDATE" \notin LogFiles /\ "FACTORYRESET" \in LogFiles
        /\ Goto("rm2") /\ ret' = "reset" /\ led' = TRUE /\ UNCHANGED cache
     \/ /\ Mounts(4) /\ LogFiles \cap {"UPDATE", "FACTORYRESET"} = {}
        /\ "RESETSETTINGS" \in LogFiles
        /\ Goto("rsRm3") /\ led' = TRUE /\ UNCHANGED <<ret, cache>>
     \/ /\ Mounts(4) => LogFiles \cap {"UPDATE", "FACTORYRESET", "RESETSETTINGS"} = {}
        /\ Goto("checkRwfs") /\ UNCHANGED <<ret, led, cache>>
  /\ UNCHANGED <<force, root, latest, ptab, disk, uboot, faults, failed>>

(* Mutant: no sync after READY is removed.                                 *)
readySyncMissing ==
  /\ At("readySync") /\ led' = TRUE /\ Goto("findTarball")
  /\ UNCHANGED <<ret, force, root, latest, ptab, disk, cache, uboot, faults, failed>>

readySync ==
  /\ At("readySync") /\ Sync /\ led' = TRUE /\ Goto("findTarball")
  /\ UNCHANGED <<ret, force, root, latest, ptab, cache, faults, failed>>

(* Mutants: the index runs one past the last tarball; the md5 file only    *)
(* has to exist.                                                           *)
findTarballPastEnd ==
  /\ At("findTarball")
  /\ latest' = 1 + Cardinality({t \in Tar : cache[ptab[4]].tars[t] # "none"})
  /\ Goto("upMkfs")
  /\ UNCHANGED <<ret, force, root, ptab, disk, cache, uboot, led, faults, failed>>

findTarballUnchecked ==
  /\ At("findTarball")
  /\ \/ /\ latest' = 0 /\ Goto("failRmUpdate")
        /\ \A t \in Tar : cache[ptab[4]].tars[t] = "none"
     \/ \E t \in Tar : /\ cache[ptab[4]].tars[t] # "none" /\ latest' = t
                       /\ Goto(IF t \in cache[ptab[4]].md5 THEN "upMkfs" ELSE "failRmTar")
  /\ UNCHANGED <<ret, force, root, ptab, disk, cache, uboot, led, faults, failed>>

(* The last tarball in sort order, its .md5 file, its checksum.            *)
findTarball ==
  /\ At("findTarball")
  /\ LET log   == cache[ptab[4]]
         found == {t \in Tar : log.tars[t] # "none"}
     IN \/ /\ found = {} /\ latest' = 0 /\ Goto("failRmUpdate")
        \/ \E t \in found :
             /\ \A u \in found : u <= t
             /\ latest' = t
             /\ Goto(IF t \notin log.md5 \/ log.tars[t] = "bad" THEN "failRmTar" ELSE "upMkfs")
  /\ UNCHANGED <<ret, force, root, ptab, disk, cache, uboot, led, faults, failed>>

(* Mutant: the error exits leave UPDATE standing.                          *)
updateFailedKeepsRequest ==
  /\ pc \in {"failRmTar", "failRmUpdate"} /\ Goto("sync") /\ led' = FALSE
  /\ Write(4, [cache[ptab[4]] EXCEPT !.files = @ \cup {"UPDATEFAILED"}])
  /\ UNCHANGED <<ret, force, root, latest, ptab, disk, uboot, faults, failed>>

(* The three error exits: remove the tarball (if any), its .md5 (if any),  *)
(* then UPDATE, and leave a note in UPDATEFAILED.                          *)
updateFailed ==
  LET log == cache[ptab[4]]
  IN /\ \/ At("failRmTar") /\ Write(4, [log EXCEPT !.tars[latest] = "none"]) /\ UNCHANGED led
           /\ Goto(IF latest \in log.md5 THEN "failRmMd5" ELSE "failRmUpdate")
        \/ At("failRmMd5") /\ Write(4, [log EXCEPT !.md5 = @ \ {latest}]) /\ Goto("failRmUpdate") /\ UNCHANGED led
        \/ At("failRmUpdate") /\ Write(4, [log EXCEPT !.files = @ \ {"UPDATE"}]) /\ Goto("failNote") /\ UNCHANGED led
        \/ At("failNote") /\ Write(4, [log EXCEPT !.files = @ \cup {"UPDATEFAILED"}]) /\ Goto("sync") /\ led' = FALSE
     /\ UNCHANGED <<ret, force, root, latest, ptab, disk, uboot, faults, failed>>

(* mkfs.vfat, mount and tar of LATEST; dd of u-boot.imx if one has been    *)
(* extracted; rm UPDATE; then the settings reset or straight to the        *)
(* restart.  No status is tested: after a failing mkfs LATEST is as it was *)
(* or broken, without the mount tar fills the memory of the initramfs, and *)
(* an extraction that stops may leave a truncated u-boot.imx.              *)
updateLatest ==
  \/ /\ At("upMkfs") /\ Goto("upMount")
     /\ \/ Mkfs(2) /\ Works
        \/ /\ Fails("mkfs")
           /\ UNCHANGED <<disk, cache>> \/ Spoil(ptab[2])
     /\ UNCHANGED <<ret, force, root, latest, ptab, uboot, led>>
  \/ /\ At("upMount")
     /\ \/ Mounts(2) /\ Goto("upTar") /\ Works
        \/ ~Mounts(2) /\ Goto("upDd") /\ failed' = "mount" /\ UNCHANGED faults
        \/ Goto("upDd") /\ Fails("mount")
     /\ UNCHANGED <<ret, force, root, latest, ptab, disk, cache, uboot, led>>
  \/ /\ At("upTar") /\ Goto("upTarDone")
     /\ Write(2, [cache[ptab[2]] EXCEPT !.image = Partial])
     /\ UNCHANGED <<ret, force, root, latest, ptab, disk, uboot, led, faults, failed>>
  \/ /\ At("upTarDone") /\ Goto("upDd")
     /\ \/ /\ Works
           /\ Write(2, [cache[ptab[2]] EXCEPT
                          !.image = IF cache[ptab[4]].tars[latest] = "good" THEN latest ELSE Corrupt])
        \/ Fails("tar") /\ UNCHANGED cache
     /\ UNCHANGED <<ret, force, root, latest, ptab, disk, uboot, led>>
  \/ /\ At("upDd") /\ Goto("upRmUpdate")
     /\ uboot' \in {uboot, "dirty"} \cup IF failed \in Silent THEN {"bad"} ELSE {}
     /\ UNCHANGED <<ret, force, root, latest, ptab, disk, cache, led, faults, failed>>
  \/ /\ At("upRmUpdate")
     /\ Write(4, [cache[ptab[4]] EXCEPT !.files = @ \ {"UPDATE"}])
     /\ IF "RESETSETTINGS" \in LogFiles
        THEN Goto("umountLog") /\ UNCHANGED led
        ELSE Goto("sync") /\ led' = FALSE
     /\ UNCHANGED <<ret, force, root, latest, ptab, disk, uboot, faults, failed>>
  \/ /\ \/ At("umountLog") /\ Goto("umountLatest") /\ disk' = [disk EXCEPT ![ptab[4]] = cache[ptab[4]]]
        \/ At("umountLatest") /\ Goto("rsRm3") /\ disk' = [disk EXCEPT ![ptab[2]] = cache[ptab[2]]]
     /\ UNCHANGED <<ret, force, root, latest, ptab, cache, uboot, led, faults, failed>>

(* Mutant: LOG, which holds the request, is formatted before RWFS.         *)
resetSettingsLogFirst ==
  \/ /\ \/ At("rsRm3") /\ PartedRm(3) /\ Goto("rsRm4")
        \/ At("rsRm4") /\ PartedRm(4) /\ Goto("rsMkpart3")
        \/ At("rsMkpart3") /\ Mkpart("mb200") /\ Goto("rsMkpart4")
        \/ At("rsMkpart4") /\ Mkpart("mb300") /\ Goto("rsMkfs4")
     /\ UNCHANGED <<ret, force, root, latest, disk, cache, uboot, led, faults, failed>>
  \/ /\ \/ At("rsMkfs4") /\ Mkfs(4) /\ Goto("rsMkfs3") /\ UNCHANGED led
        \/ At("rsMkfs3") /\ Mkfs(3) /\ Goto("sync") /\ led' = FALSE
     /\ UNCHANGED <<ret, force, root, latest, ptab, uboot, faults, failed>>

(* Partitions 3 and 4 are deleted, created again and formatted, RWFS first.*)
resetSettings ==
  \/ /\ \/ At("rsRm3") /\ PartedRm(3) /\ Goto("rsRm4")
        \/ At("rsRm4") /\ PartedRm(4) /\ Goto("rsMkpart3")
        \/ At("rsMkpart3") /\ Mkpart("mb200") /\ Goto("rsMkpart4")
        \/ At("rsMkpart4") /\ Mkpart("mb300") /\ Goto("rsMkfs3")
     /\ UNCHANGED <<ret, force, root, latest, disk, cache, uboot, led, faults, failed>>
  \/ /\ \/ At("rsMkfs3") /\ Mkfs(3) /\ Goto("rsMkfs4") /\ UNCHANGED led
        \/ At("rsMkfs4") /\ Mkfs(4) /\ Goto("sync") /\ led' = FALSE
     /\ UNCHANGED <<ret, force, root, latest, ptab, uboot, faults, failed>>

(* Mutant: restart without sync.                                           *)
syncAndShutdownUnsynced ==
  /\ \/ At("sync") /\ Goto("shutdown")
     \/ At("shutdown") /\ Goto("off")
  /\ UNCHANGED <<ret, force, root, latest, ptab, disk, cache, uboot, led, faults, failed>>

syncAndShutdown ==
  \/ /\ At("sync") /\ Sync /\ Goto("shutdown")
     /\ UNCHANGED <<ret, force, root, latest, ptab, cache, led, faults, failed>>
  \/ /\ At("shutdown") /\ Goto("off")
     /\ UNCHANGED <<ret, force, root, latest, ptab, disk, cache, uboot, led, faults, failed>>

(* mount_and_boot: RWFS is checked and reformatted if fsck gives it up;    *)
(* then the union of RWFS and the squashfs of the boot partition is the    *)
(* root.  Without a complete image there is no /sbin/init to switch to.    *)
mount_and_boot ==
  \/ /\ At("checkRwfs")
     /\ IF FsckFails(3) THEN Goto("rwMkfs3") /\ led' = TRUE
                        ELSE Goto("switchRoot") /\ UNCHANGED led
     /\ UNCHANGED <<ret, force, root, latest, ptab, disk, cache, uboot, faults, failed>>
  \/ /\ At("rwMkfs3") /\ Mkfs(3) /\ led' = FALSE /\ Goto("switchRoot")
     /\ UNCHANGED <<ret, force, root, latest, ptab, uboot, faults, failed>>
  \/ /\ At("switchRoot")
     /\ Goto(IF root = 2 => Mounts(2) /\ cache[ptab[2]].image \in Tar THEN "running" ELSE "panic")
     /\ UNCHANGED <<ret, force, root, latest, ptab, disk, cache, uboot, led, faults, failed>>

Script ==
  \/ Main \/ remove_partitions \/ create_partitions \/ factory_reset \/ checkLog
  \/ checkUpdate \/ readySync \/ findTarball \/ updateFailed \/ updateLatest
  \/ resetSettings \/ syncAndShutdown \/ mount_and_boot

-----------------------------------------------------------------------------
(* The environment: the running system, the user and the power supply.     *)

(* The application stages an update or a reset in /log/updates (synced).   *)
Requests == {{"UPDATE"}, {"UPDATE", "RESETSETTINGS"}, {"FACTORYRESET"}, {"RESETSETTINGS"}}

Staged(c, fs, t, q, m) ==
  [c EXCEPT !.files = (@ \ {"UPDATEFAILED"}) \cup fs,
            !.tars  = IF "UPDATE" \in fs THEN [@ EXCEPT ![t] = q] ELSE @,
            !.md5   = IF "UPDATE" \notin fs THEN @ ELSE IF m THEN @ \cup {t} ELSE @ \ {t}]

Request ==
  /\ At("running") /\ Mounts(4)
  /\ LogFiles \cap {"UPDATE", "FACTORYRESET", "RESETSETTINGS"} = {}
  /\ \E fs \in Requests, t \in Tar, q \in {"none", "good", "bad"}, m \in BOOLEAN :
       /\ disk'  = [disk EXCEPT ![ptab[4]] = Staged(cache[ptab[4]], fs, t, q, m)]
       /\ cache' = [cache EXCEPT ![ptab[4]] = Staged(cache[ptab[4]], fs, t, q, m)]
  /\ UNCHANGED <<pc, ret, force, root, latest, ptab, uboot, led, faults, failed>>

(* The application notes that the user has seen the update-done screen.    *)
MarkReady ==
  /\ At("running") /\ Mounts(4)
  /\ disk'  = [disk EXCEPT ![ptab[4]].files = @ \cup {"READY"}]
  /\ cache' = [cache EXCEPT ![ptab[4]].files = @ \cup {"READY"}]
  /\ UNCHANGED <<pc, ret, force, root, latest, ptab, uboot, led, faults, failed>>

ChangeSettings ==
  /\ At("running") /\ Mounts(3)
  /\ disk'  = [disk EXCEPT ![ptab[3]].used = TRUE]
  /\ cache' = [cache EXCEPT ![ptab[3]].used = TRUE]
  /\ UNCHANGED <<pc, ret, force, root, latest, ptab, uboot, led, faults, failed>>

Restart ==
  /\ pc \in {"running", "panic", "brick"} /\ Goto("off")
  /\ UNCHANGED <<ret, force, root, latest, ptab, disk, cache, uboot, led, faults, failed>>

(* Background write-back, one file system at a time.                       *)
Flush ==
  /\ \/ \E r \in Region : /\ disk[r] # cache[r]
                          /\ disk' = [disk EXCEPT ![r] = cache[r]]
                          /\ UNCHANGED uboot
     \/ uboot \in {"dirty", "bad"} /\ uboot' = DdDone /\ UNCHANGED disk
  /\ UNCHANGED <<pc, ret, force, root, latest, ptab, cache, led, faults, failed>>

(* The partition a mkfs is writing when the power goes.                    *)
Formatting ==
  CASE pc \in {"mkfs2", "upMkfs"} -> ptab[2]
    [] pc \in {"mkfs3", "rsMkfs3", "rwMkfs3"} -> ptab[3]
    [] pc \in {"mkfs4", "rsMkfs4", "ckMkfs4"} -> ptab[4]
    [] OTHER -> NoPart

PowerLoss ==
  /\ pc # "off" /\ faults < MaxFaults /\ faults' = faults + 1 /\ Goto("off")
  /\ \E torn \in BOOLEAN :
       /\ disk' = [r \in Region |-> IF torn /\ r = Formatting THEN Blank("broken") ELSE disk[r]]
       /\ cache' = disk'
       /\ uboot' = IF uboot \in {"dirty", "bad"} THEN IF torn THEN "torn" ELSE "ok" ELSE uboot
  /\ UNCHANGED <<ret, force, root, latest, ptab, led, failed>>

(* RWFS or LOG (which is also exported over USB) becomes unreadable.       *)
Damage ==
  /\ At("running") /\ faults < MaxFaults /\ faults' = faults + 1
  /\ \E r \in {"mb200", "mb300"} : Spoil(r)
  /\ UNCHANGED <<pc, ret, force, root, latest, ptab, uboot, led, failed>>

Next ==
  \/ PowerOn \/ Script
  \/ Request \/ MarkReady \/ ChangeSettings \/ Restart \/ Flush \/ PowerLoss \/ Damage

Spec == Init /\ [][Next]_vars

(* The board and the script's shell run on; nothing obliges the user, the  *)
(* application or the power supply to do anything.                         *)
FairSpec == Spec /\ WF_vars(PowerOn) /\ WF_vars(Script)
-----------------------------------------------------------------------------
(* Properties.                                                             *)

Label ==
  {"off", "start", "brick", "panic", "running", "rm2", "rm3", "rm4", "mkpart2", "mkpart3",
   "mkpart4", "mkfs2", "mkfs3", "mkfs4", "resetDd", "checkLog", "ckRm4", "ckMkpart",
   "ckMkfs4", "ckReady", "checkUpdate", "readySync", "findTarball", "failRmTar", "failRmMd5",
   "failRmUpdate", "failNote", "upMkfs", "upMount", "upTar", "upTarDone", "upDd", "upRmUpdate",
   "umountLog", "umountLatest", "rsRm3", "rsRm4", "rsMkpart3", "rsMkpart4", "rsMkfs3",
   "rsMkfs4", "sync", "shutdown", "checkRwfs", "rwMkfs3", "switchRoot"}

(* Type invariant of the script's and the card's state.                    *)
TypeOK ==
  /\ pc \in Label /\ ret \in {"boot", "reset"} /\ force \in BOOLEAN /\ root \in {1, 2}
  /\ latest \in Tar \cup {Unset, 0}
  /\ ptab \in [2 .. 4 -> Region \cup {NoPart}]
  /\ disk \in [Region -> Contents] /\ cache \in [Region -> Contents]
  /\ uboot \in {"ok", "dirty", "bad", "torn"} /\ led \in BOOLEAN /\ faults \in Nat
  /\ failed \in {NoneFailed, "mkfs"} \cup Silent

StandardLayout ==
  ptab[2] = "mb100" /\ ptab[3] = "mb200" /\ ptab[4] = "mb300"

(* The md5 check (init:281-298) guards the extraction: LATEST never holds  *)
(* the contents of a tarball whose checksum does not match, neither in     *)
(* memory nor on the card, whatever power losses and retries happened.     *)
VerifiedImageOnly ==
  \A r \in Region : disk[r].image # Corrupt /\ cache[r].image # Corrupt

(* A factory reset that reaches the u-boot step (init:188-203) leaves the  *)
(* standard layout with three fresh file systems, whatever state earlier   *)
(* interrupted commands had left the card in.                              *)
FactoryResetRestores ==
  pc = "resetDd" => /\ StandardLayout
                    /\ \A r \in Region : disk[r] = Blank("fs") /\ cache[r] = Blank("fs")

(* When the script restarts the board after an update request, the request *)
(* is gone from the card, and either LATEST holds the chosen tarball or    *)
(* UPDATEFAILED is there (every exit of init:243-321), unless the mount or *)
(* the tar of LATEST failed: of those nothing tells.                       *)
UpdateSettled ==
  pc = "shutdown" /\ latest # Unset =>
    /\ "UPDATE" \notin disk[ptab[4]].files
    /\ \/ latest # 0 /\ disk[ptab[2]].image = latest
       \/ "UPDATEFAILED" \in disk[ptab[4]].files
       \/ failed \in Silent

(* While UPDATE is on the card an interrupted update is redone by the next *)
(* boot (rm UPDATE comes after tar): the board never hangs on a half       *)
(* extracted LATEST with the request still standing.                       *)
InterruptedUpdateRetried ==
  pc = "panic" /\ ptab[4] # NoPart => "UPDATE" \notin disk[ptab[4]].files

(* What LATEST may hold: nothing whose checksum was wrong (init:281-298),  *)
(* and half a tarball at a boot that hangs only when no request is left    *)
(* that should have written it again (init:305-313).                       *)
LatestSound == VerifiedImageOnly /\ InterruptedUpdateRetried

(* A settings reset is never half done: the request disappears from LOG    *)
(* only when the old settings are gone too (mkfs of RWFS before mkfs of    *)
(* LOG, init:328-329 and 361-362).  The request is also lost when LOG      *)
(* itself is: damaged, or missing when checkLog makes a new one.           *)
SettingsResetComplete ==
  [][ (pc \notin {"running", "ckMkfs4"} /\ 
        \E r \in Region : "RESETSETTINGS" \in disk[r].files \ disk'[r].files)
        => ptab'[3] = NoPart \/ ~disk'[ptab'[3]].used ]_vars

(* The flag files change in step with what they stand for, over any power  *)
(* loss: LATEST gets new contents only when READY is durably gone (rm -f   *)
(* READY, sync: init:246-247), so the update-done screen cannot be missed, *)
(* and SettingsResetComplete.                                              *)
FlagsInOrder ==
  /\ [][ disk'["mb100"].image \notin {NoImage, disk["mb100"].image}
            => "READY" \notin disk[ptab[4]].files ]_vars
  /\ SettingsResetComplete

UpdateStanding == Mounts(4) /\ "UPDATE" \in disk[ptab[4]].files

(* What no later boot of the script repairs: a boot loader half written, or *)
(* half an image on LATEST that no request asks to write again.            *)
Dead ==
  \/ uboot = "torn"
  \/ ptab[2] # NoPart /\ disk[ptab[2]].image = Partial /\ ~UpdateStanding

(* As long as the user does not keep asking for a factory reset at power   *)
(* on, the board gets to the running system again and again, whatever      *)
(* requests, faults and retries there were: it neither restarts for ever   *)
(* nor stops in a boot that another one would not repair, unless it is     *)
(* dead for good.  And a request that the script has seen is served, after *)
(* however many interrupted attempts: UPDATE does not stay on the card for *)
(* ever, unless the power went while dd was writing the boot loader.       *)
ComesUp ==
  /\ <>[]~force => []<>(pc = "running") \/ <>[]Dead
  /\ (pc = "checkUpdate" /\ UpdateStanding) ~> (~UpdateStanding \/ uboot = "torn")
=============================================================================
