SPECIFICATION FairSpec
CONSTANTS
  r1 = r1
  r2 = r2
  t1 = t1
  t2 = t2
  Reqs = {r1, r2}
  Tags = {t1, t2}
  TagOf <- MCTagOf
  Events = 3
  UsageEvents = {1, 3}
  MaxRetries = 1
  Modes = {"stream", "json"}
INVARIANTS
  WireIsOneAttempt
  RelayedUsageIsMetered
  NoPhantomRow
  UnmeteredOnlyIfAbandoned
  RowBeforeJsonReply
PROPERTIES
  ImplementsMeter
  EveryRequestEnds
