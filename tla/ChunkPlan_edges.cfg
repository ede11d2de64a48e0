SPECIFICATION Spec
CONSTANTS
  DefaultChunkSize = 2
  MaxChunkSize = 3
  Threshold = 5
  IntMax = 63
  ColumnMax = 18
  PadWidth = 2
  FileSizes <- AllSizes
  Preferences <- SmallPreferences
INVARIANT PlanCoversFile
INVARIANT ContractIsAccepted
INVARIANT NamesSortInOrder
\* The client stops when every chunk is sent.
CHECK_DEADLOCK FALSE
