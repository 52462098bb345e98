SPECIFICATION FairSpec
CONSTANTS
  File <- MCFile
  FrameCount <- MCFrameCount
  Best = 1
  Chunks = 2
  Readable <- MCNothingFirst
  CodecDelay = 1
  Faults <- MCFaults
  MaxDecodes = 1
  MaxIndex = 1
  MaxResets = 1
  MaxSelects = 1
PROPERTIES
  DecodeSettles
  LoadingSettles
\* The destructor ends it.
CHECK_DEADLOCK FALSE
