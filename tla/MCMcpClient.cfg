SPECIFICATION FairSpec
CONSTANTS
  MaxPages = 2
  MaxCalls = 2
  MaxExtra = 2
  ServerIds = {0}
INVARIANTS
  AnswerIsOwn
PROPERTY DeadServerIsNoticed
