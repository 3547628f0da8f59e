\* Words of four bits: two rounds of a shift, half words of two bits.
CONSTANTS
  W = 4
  LogW = 2
  NoTnum = NoTnum
SPECIFICATION Spec
INVARIANTS KernelSound KernelAgrees
