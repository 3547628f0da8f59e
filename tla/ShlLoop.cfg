\* All tnums of three bits, as value and as amount.
CONSTANTS
  W = 3
  NoTnum = NoTnum
SPECIFICATION ShlSpec
INVARIANTS
  ShlAuxCovers
  KnownAmountIsExact
