SPECIFICATION FairSpec
CONSTANTS
  p1 = p1
  p2 = p2
  NoPair = NoPair
  Pairs = {p1, p2}
  Workers = 2
  MaxSessions = 3
INVARIANTS
  OneResultPerPair
  CreditedRunIsSaved
  NoPairForgotten
PROPERTY SessionEnds
