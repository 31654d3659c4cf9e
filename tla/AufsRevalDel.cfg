SPECIFICATION Spec
CONSTANTS
  br1 = br1
  br2 = br2
  br3 = br3
  dent1 = dent1
  dent2 = dent2
  kid1 = kid1
  Ids = {br1, br2, br3}
  DirDents = {dent1, dent2}
  KidDents = {kid1}
  Inos = {1, 2, 3}
  Root = Root
  Nil = Nil
  Whable <- MCWhable
  Contents <- MCContents
  MaxBr = 3
  MaxChg = 2
  MaxRemount = 2
  MaxMishap = 1
SYMMETRY Sym
CHECK_DEADLOCK FALSE
INVARIANT DelRefusesUsed
