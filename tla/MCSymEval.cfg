CONSTANTS
  W = 2
  ImmW = 2
  OffW = 3
  PcW = 4
  Fuel = 6
  Draws = 2
  Reg <- mcReg
  Region = {m}
  Programs <- mcPrograms
SPECIFICATION FairSpec
INVARIANTS
  NeverStuck
  SymbolicTracks
  PathsDisjoint
  Precise
PROPERTIES
  AcceptedReturns
  ImplementsSafeProgram
