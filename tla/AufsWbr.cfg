SPECIFICATION Spec
CONSTANTS
  o0 = o0
  o1 = o1
  o2 = o2
  N = 3
  Old <- MCOld
  Layouts <- MCLayouts
  Bytes = {0, 1}
  FreeAtFirst <- MCFreeAtFirst
  Watermark = 1
  Width = 16
  FhsmBr = {2}
  NativeRo = {}
  Policies = {"rr", "mfs", "mfsrr", "pmfs", "pmfsrr"}
  MvdFlags <- MCFlags
  MaxOps = 2
PROPERTIES
  
  RofsOnlyIfNone
  
CHECK_DEADLOCK FALSE
