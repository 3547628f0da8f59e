CONSTANTS
  Input <- MCInput
  Width = 2
  MaxOps = 2
SPECIFICATION Spec
CHECK_DEADLOCK FALSE
INVARIANTS BlastDenotes BlastDecides
