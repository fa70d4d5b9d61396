SPECIFICATION Spec
CONSTANTS
  r1 = r1
  r2 = r2
  t1 = t1
  t2 = t2
  Reqs = {r1}
  Tags = {t1, t2}
  TagOf <- MCTagOf
  Events = 3
  UsageEvents = {1, 3}
  MaxRetries = 2
  Modes = {"stream"}
PROPERTY
  OnlyUpstreamErrorsRetry
