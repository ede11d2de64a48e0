SPECIFICATION FairSpec
CONSTANTS
  i1 = i1
  i2 = i2
  k1 = k1
  k2 = k2
  s1 = s1
  s2 = s2
  j1 = j1
  j2 = j2
  None = None
  Ids = {i1, i2}
  Keys = {k1, k2}
  Secrets = {s1, s2}
  Jobs = {j1, j2}
  MayOverlap = FALSE
  MaxFaults = 1
  MissingFails = {"user"}
INVARIANT CredentialsWork
INVARIANT NoStrayUser
INVARIANT PolicyGranted
INVARIANT PolicyIsOwn
PROPERTY OthersUntouched
PROPERTY RenameEnds
\* Every id may be drawn and deleted in the end.
CHECK_DEADLOCK FALSE
