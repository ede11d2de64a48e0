SPECIFICATION FairSpec
CONSTANTS
  n1 = n1
  Names = {n1}
  MaxRows = 2
  MaxCreates = 2
  MaxDeletes = 1
  MaxUses = 1
  MaxFaults <- SomeFaults
INVARIANT OneClaim
INVARIANT NothingOrphaned
PROPERTY ContentSurvives
PROPERTY FirstOwnerIsSafe
PROPERTY PromiseKept
PROPERTY DeletedBucketGoes
\* The rows a name may have are used up in the end.
CHECK_DEADLOCK FALSE
