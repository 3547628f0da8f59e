SPECIFICATION Spec
CONSTANTS
  Input = {x, y}
  MaxNode = 7
SYMMETRY Sym
CHECK_DEADLOCK FALSE
INVARIANTS TypeOK CacheExact NodesValid Denotes Equisatisfiable DecidesExactly LinesAreIdentifiers
