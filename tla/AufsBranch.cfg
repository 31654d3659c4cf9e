SPECIFICATION Spec
CONSTANTS
  Br = {b1, b2, b3}
  Wbr = {x1, x2}
  DirFile = {d1}
  RegFile = {r1, r2}
  Work = {w1, w2}
  Loads <- MCLoads
  NoBr = NoBr
  NoWbr = {x1, x2}
  BranchMax = 3
SYMMETRY Symmetry
INVARIANTS SlotsMatch RefsExact WbrKept WriterOnRw
