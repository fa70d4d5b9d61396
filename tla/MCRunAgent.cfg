SPECIFICATION Spec
CONSTANTS
  a1 = a1
  a2 = a2
  b1 = b1
  q1 = q1
  q2 = q2
  q3 = q3
  q4 = q4
  ta = ta
  tb = tb
  wa = wa
  wb = wb
  Solves = {a1, a2, b1}
  SolveTag <- MCSolveTag
  Reqs = {q1, q3}
  OwnerOf <- MCOwnerOf
  Tags = {ta, tb}
  TagOf <- MCTagOf
  Usages = {"usage"}
  Trees = {wa}
  TreeOf <- MCTreeOf
  Shared = TRUE
  Serial = TRUE
INVARIANTS
  RowChargedOnce
  MissedOnlyIfLate
  NoAgentLeft
  PatchIsOwn
