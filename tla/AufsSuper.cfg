SPECIFICATION FairSpec
CONSTANTS
  m = m
  c = c
  u = u
  Task = {m, c, u}
  Work = {w1}
  NoTask = NoTask
  Parent <- MCParent
  Inode = {i}
  Ops = {"iop", "fop", "write", "remount", "enter", "clean"}
  Kinds = {"rmdir", "rebase"}
  Udba = FALSE
  MaxCalls = 4
INVARIANT MaintExclusive
PROPERTY CallsReturn
CHECK_DEADLOCK FALSE
