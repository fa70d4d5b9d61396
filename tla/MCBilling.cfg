SPECIFICATION Spec
CHECK_DEADLOCK FALSE
CONSTANTS
  PriceTable <- MCTable
  KeyLength <- MCKeyLength
  DefaultRates <- MCDefaultRates
  KeysIn <- MCKeysIn
  FreshTokens = 50
  Hero = "dasein"
  Runs <- MCRuns
  ArmOf <- MCArmOf
  RunModel = "claude-sonnet-4-6"
  Replies <- MCReplies
  Ends <- MCEnds
  CallCap = 2
  MaxReplies = 2
  MaxFailures = 2
INVARIANTS
  PricedAsBilled
  BucketsPartitionInput
  MessageIsTheStream
  RecordsHoldTheSlice
  SolvedOnlyIfReported
  CascadeIsHonest
  DominanceKept
