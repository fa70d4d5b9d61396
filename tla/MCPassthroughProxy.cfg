SPECIFICATION Spec
CONSTANTS
  r1 = r1
  r2 = r2
  t1 = t1
  t2 = t2
  Reqs = {r1, r2}
  Tags = {t1, t2}
  TagOf <- MCTagOf
  Chunks = 3
  UsageChunks = {1, 3}
INVARIANTS
  UnmeteredOnlyIfBroken
PROPERTY
  ImplementsMeter
