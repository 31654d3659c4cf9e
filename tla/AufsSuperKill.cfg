SPECIFICATION FairSpec
CONSTANTS
  m = m
  c = c
  u = u
  Task = {m, u}
  Work = {w1, w2}
  NoTask = NoTask
  Parent <- MCParent
  Inode = {i}
  Ops = {"iop", "fop", "stat", "setplink", "enter", "umount", "touch"}
  Kinds = {"rmdir", "notify"}
  Udba = TRUE
  MaxCalls = 6
INVARIANTS WriterAlone KillIsFinal
CHECK_DEADLOCK FALSE
