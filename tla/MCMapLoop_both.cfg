SPECIFICATION LoopSpec
CONSTANTS
  Nil  = nil
  Zero = 0
  Keys = {1, 2, 3, 4, 5, 6, 7, 8, 9, 10, 11, 12}
  Values = {1, 2}
  Types <- BothTypes
  Literals <- SomeLiterals
INVARIANTS IteratorLive TreeValid
PROPERTIES ImplementsMap VisitsInOrder
