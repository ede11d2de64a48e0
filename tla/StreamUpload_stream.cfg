SPECIFICATION FairSpec
CONSTANT
  Pieces = 4
INVARIANT SuccessMeansWhole
INVARIANT PartMeansReadError
PROPERTY CallReturns
PROPERTY WriterEnds
