CONSTANTS
  W = 2
  ImmW = 2
  OffW = 3
  PcW = 4
  Fuel = 8
  Reg <- mcReg
  Region = {m}
  Programs <- mcPrograms
  Bot = Bot
  NoTnum = Bot
  AValue <- avalues
  v_gamma <- avalue_gamma
  v_le <- avalue_le
  v_join <- avalue_join
  v_const <- avalue_const
  v_unknown_scalar <- avalue_unknown_scalar
  v_doALU64 <- avalue_doALU64
  v_doALU64_check <- avalue_doALU64_check
  v_doJMP64_check <- avalue_doJMP64_check
  v_doJMP64_tt <- avalue_doJMP64_tt
  v_is_scalar <- avalue_is_scalar
SPECIFICATION FairSpec
INVARIANTS
  NeverStuck
  RegsApproximated
  FuelSuffices
  OnlyReachable
PROPERTIES
  SolverAscends
  ImplementsSafeProgram
