SPECIFICATION Spec
CONSTANTS
  Top = {d, e}
  Kid = {x}
  Data = {lo, hi}
  LowerData = {lo}
  NRo = 1
  MaxFaults = 2
SYMMETRY Symmetry
INVARIANT RenameUndone
PROPERTY KeepsPromise
CHECK_DEADLOCK FALSE
