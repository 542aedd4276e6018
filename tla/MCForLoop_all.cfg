SPECIFICATION Spec
CONSTANTS
  Types <- SmallTypes
  MaxSize = 3
INVARIANT OneCopy
PROPERTY ImplementsForEach
\* A loop ends.
CHECK_DEADLOCK FALSE
