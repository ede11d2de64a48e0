SPECIFICATION FairSpec
CONSTANTS
  n1 = n1
  Names = {n1}
  MaxRows = 1
  MaxCreates = 1
  MaxDeletes = 1
  MaxUses = 0
  MaxFaults <- Unpublished
INVARIANT CleanupWillHappen
\* The rows a name may have are used up in the end.
CHECK_DEADLOCK FALSE
