SPECIFICATION BothSpec
CONSTANTS
  Var = {1, 2}
  Key = {1, 2, 3, 4, 5}
  Input <- Formulas
INVARIANTS DeletionOptional Lockstep TriesImplement
