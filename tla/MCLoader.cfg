CONSTANTS
  W = 3
  ImmW = 2
  OffW = 2
  PcW = 3
  Reg <- mcReg
  Region = {}
  Programs <- mcPrograms
SPECIFICATION LoaderSpec
INVARIANTS
  LoaderTypeOK
  JumpsAreRelative
  ImmediatesKeepSign
