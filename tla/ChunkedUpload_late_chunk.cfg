SPECIFICATION FairSpec
CONSTANTS
  u1 = u1
  Uploads = {u1}
  TempBucket = "temp-uploads"
  TotalChunks = 2
  MaxSends = 2
  MaxCompletes = 1
  MaxFaults <- NoFaults
PROPERTY ReopenedOnlyByRevert
\* The system stops when the client's budget is used up.
CHECK_DEADLOCK FALSE
