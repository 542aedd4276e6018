SPECIFICATION SessionSpec
CONSTANTS
  Main    = main
  Exec    = exec
  Started = started
  Workers = {}
  Kinds   = {"int", "bool"}
  Returns <- MCReturns
  Magic   = 77
  Null    = 0
  MaxExprs = 3
  MaxInts  = 1
  Names = {"g", "h"}
  Declarations <- MCDeclarations
  Externals = {"h"}
INVARIANTS ConstructedInOrder SymbolsMatch
PROPERTY ImplementsStore
CHECK_DEADLOCK FALSE
