\* Words of three bits: every carry chain, every shift up to and beyond the
\* width, division by zero.  Two regions, so that joins of pointers differ.
CONSTANTS
  W = 3
  Reg <- mcReg
  Region = {m1, m2}
  NoTnum = NoTnum
SPECIFICATION WalkSpec
INVARIANTS
  Simulates
  TestsSound
  LatticeLaws
  Optimal
  Monotone
