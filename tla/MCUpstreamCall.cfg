SPECIFICATION Spec
CONSTANTS
  Solves = {"s1", "s2"}
  Calls = {"explore", "title"}
  SolveOf <- MCSolveOf
  SafeName <- MCSafeName
  Betas = {"b1", "b2", "b3", "scope"}
  Known = {"scope"}
  Asked <- MCAsked
  Claude <- MCClaude
  Missing <- MCMissing
  TitleCap = 1
  MaxRetries = 1
  Wirings <- MCWirings
INVARIANTS
  OwnRowsAreRead
  RefusalsAreFinal
  ServedAsAsked
  GivesUpForCause
PROPERTY CallsEnd
CHECK_DEADLOCK FALSE
