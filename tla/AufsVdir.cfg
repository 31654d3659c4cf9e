SPECIFICATION Spec
CONSTANTS
  nmX = nmX
  nmY = nmY
  nmZ = nmZ
  file1 = file1
  file2 = file2
  Hole = Hole
  N = 3
  Names <- MCNames
  Size <- MCSize
  EndSize = 1
  BlkSizes = {5, 6}
  Whable = {0, 1}
  Layouts <- MCLayouts
  ShwhModes = {FALSE, TRUE}
  Files <- MCFiles
  Bufs = {1, 2}
  Calls = {"readdir", "ioctl"}
  MaxChanges = 2
  MaxFails = 1
  MaxVersion = 3
SYMMETRY MCSymmetry
INVARIANTS
  NoneTwice
  NoneMissed
  RduComplete
  EmptyAgrees
CHECK_DEADLOCK FALSE
