SPECIFICATION Spec
CONSTANTS
  i1 = i1
  k1 = k1
  k2 = k2
  s1 = s1
  s2 = s2
  j1 = j1
  None = None
  Ids = {i1}
  Keys = {k1, k2}
  Secrets = {s1, s2}
  Jobs = {j1}
  MayOverlap = FALSE
  MaxFaults = 1
  MissingFails = {"user"}
INVARIANT UpdateRollsBack
\* Every id may be drawn and deleted in the end.
CHECK_DEADLOCK FALSE
