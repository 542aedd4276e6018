SPECIFICATION Spec
CONSTANTS
  Builtin <- BuiltinKey
  BuiltinFile <- Prelude
  Stdin <- Std
  NoFile <- Null
  NoType = "none"
  NoName <- Null
  Paths <- SomePaths
  Programs <- SomePrograms
  Cases <- SomeCases
  GivenFiles <- Files
  MaxOptions = 3
INVARIANTS OrderDoesNotMatter FilesAsAsked ModulesKeptApart
PROPERTY Ends
CHECK_DEADLOCK FALSE
