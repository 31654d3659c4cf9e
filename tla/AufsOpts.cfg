SPECIFICATION Spec
CONSTANTS
  dirA = dirA
  dirB = dirB
  dirC = dirC
  Outside = Outside
  None = None
  Dir <- MCDir
  MountStrs <- MCMountStrs
  RemountStrs <- MCRemountStrs
  MaxOpt = 4
  MaxCalls = 4
  MaxOdd = 2
INVARIANTS
  VerifiedMatches
  XinoWhole
  CacheFresh
  RefsReleased
  InForce
CHECK_DEADLOCK FALSE
