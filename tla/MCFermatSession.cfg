SPECIFICATION Spec
CONSTANTS
  Solves = {"s1", "s2"}
  GatewayOf <- MCGatewayOf
  MaxAgings = 1
  MaxMishaps = 1
  Wirings <- MCWirings
INVARIANTS
  OneSolveSeated
  SeatLostOnlyByCheck
  RotationSurvives
  BypassIsExplained
PROPERTY PauseEnds
CHECK_DEADLOCK FALSE
