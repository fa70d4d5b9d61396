SPECIFICATION Spec
CONSTANTS
  ArmNames <- MCArms
  Boxes <- MCBoxes
  Deliveries <- MCDeliveries
  CallCap = 3
INVARIANTS
  ProductOnThePath
  NeverToolless
  NeverPinned
PROPERTY SolveEnds
CHECK_DEADLOCK FALSE
