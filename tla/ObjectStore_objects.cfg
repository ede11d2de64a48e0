SPECIFICATION Spec
CONSTANTS
  a_b = a_b
  axb = axb
  c = c
  None = None
  n1 = n1
  Names = {n1}
  FolderNames = {a_b, axb, c}
  Folders <- SomeFolders
  Like <- InOrLike
  MaxDeletions = 2
  MaxUploads = 2
  MaxFaults = 2
INVARIANT RowHasFile
INVARIANT FilesGoWithRows
INVARIANT RowsAreReachable
PROPERTY DeletionsEnd
\* Uploads and deletions are used up in the end.
CHECK_DEADLOCK FALSE
