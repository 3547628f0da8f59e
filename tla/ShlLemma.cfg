CONSTANTS
  W = 3
  NoTnum = NoTnum
SPECIFICATION ShlSpec
INVARIANT shl_aux_correct
