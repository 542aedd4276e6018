SPECIFICATION FairSpec
CONSTANTS
  Threads <- TwoThreads
  Variables <- TwoVariables
  Addresses <- FiveAddresses
  None = "null"
  Nobody = "nobody"
  Multiple = 3
  Header = 2
  SkipRounds = 1
INVARIANT NothingLeaked
PROPERTIES ImplementsTls AddressReturns
