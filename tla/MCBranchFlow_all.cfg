SPECIFICATION Spec
CONSTANTS
  Names = {x, y}
  Families <- AllFamilies
  MaxIter = 2
SYMMETRY NameSymmetry
INVARIANTS
  DestroyedOnce
  InScopeAlive
  StackRestored
PROPERTY
  BreakLeaves
CHECK_DEADLOCK FALSE
