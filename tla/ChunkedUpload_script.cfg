SPECIFICATION FairSpec
CONSTANTS
  u1 = u1
  Uploads = {u1}
  TempBucket = "temp-uploads"
  TotalChunks = 3
  MaxSends = 1
  MaxCompletes = 2
  MaxFaults <- OneOfEach
INVARIANT CounterNeverOverstates
INVARIANT ComposeOnlyWhenCounted
INVARIANT ComposeHasAllChunks
INVARIANT CompletedHasObject
INVARIANT ObjectsBounded
INVARIANT OutcomeMatchesObjects
INVARIANT CompletedHasHash
PROPERTY ProcessingIsResolved
PROPERTY AcceptedIsAnswered
PROPERTY ExpiredUnlessAccepted
PROPERTY UploadKept
\* The system stops when the client's budget is used up.
CHECK_DEADLOCK FALSE
