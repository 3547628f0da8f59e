SPECIFICATION Spec
CONSTANTS
  Var = {"x", "y"}
  Key = {1, 2, 3}
  Input <- Formulas
  Deletes = TRUE
INVARIANTS TypeOK Sound Equivalent NeverEmptied
