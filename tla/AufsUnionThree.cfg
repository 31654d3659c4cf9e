SPECIFICATION Spec
CONSTANTS
  Top = {d}
  Kid = {x, y}
  Data = {lo, hi}
  LowerData = {lo}
  NRo = 2
  MaxFaults = 2
SYMMETRY Symmetry
INVARIANT Undisturbed
PROPERTY KeepsPromise
CHECK_DEADLOCK FALSE
