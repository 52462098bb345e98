SPECIFICATION Spec
CONSTANTS
  File <- MCFile
  FrameCount <- MCFrameCount
  Best = 1
  Chunks = 2
  Readable <- MCReadable
  CodecDelay = 1
  Faults <- MCFaults
  MaxDecodes = 2
  MaxIndex = 2
  MaxResets = 1
  MaxSelects = 1
INVARIANTS
  DecodesTracked
  RightFrame
  SelectionReachesWorker
  PromisesAgree
PROPERTY
  DecodePromises
\* The destructor ends it.
CHECK_DEADLOCK FALSE
