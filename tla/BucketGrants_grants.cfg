SPECIFICATION Spec
CONSTANTS
  u1 = u1
  u2 = u2
  i1 = i1
  i2 = i2
  k1 = k1
  k2 = k2
  b1 = b1
  b2 = b2
  j1 = j1
  j2 = j2
  None = None
  Users = {u1, u2}
  Ids = {i1, i2}
  UserOf <- BothOfOne
  Keys = {k1, k2}
  Buckets = {b1, b2}
  Jobs = {j1, j2}
  MaxRequests = 5
  MaxFaults = 1
INVARIANT GrantsWereOwned
INVARIANT NoGrantOutlivesBucket
INVARIANT OwnerIsGranted
INVARIANT StoresAgree
PROPERTY OtherBucketsKept
SYMMETRY Symmetry
\* Requests are used up in the end.
CHECK_DEADLOCK FALSE
