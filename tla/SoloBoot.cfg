SPECIFICATION FairSpec
CONSTANTS
  NTar = 2
  MaxFaults = 2
INVARIANTS
  TypeOK
  LatestSound
  FactoryResetRestores
  UpdateSettled
PROPERTIES
  FlagsInOrder
  ComesUp
