SPECIFICATION Spec
CONSTANTS
  p1 = p1
  p2 = p2
  Br = {0, 1}
  Fs <- MCFs
  H = {1}
  Procs <- MCProcs
  PageBits = 1
  MaxIno = 3
  MaxObj = 2
  MaxLinks = 2
  MaxDying = 2
  MaxRare = 1
SYMMETRY MCSymmetry
ACTION_CONSTRAINT MCLookupsOnly
INVARIANTS
  NumbersDiffer
  TableAgrees
  HandleStale
PROPERTY NumberStable
CHECK_DEADLOCK FALSE
