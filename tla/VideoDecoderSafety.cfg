SPECIFICATION Spec
CONSTANTS
  ThreadStarts <- MCAlwaysStarts
  SizeModulus = 8
  CodecDelay = 1
  Faults <- MCNoFaults
  MaxInputs = 3
  MaxFlushes = 2
  MaxConfigures = 2
  MaxResets = 1
  SupportedCodecs <- MCOneCodec
  UnsupportedCodecs <- MCNone
  Descriptions <- MCNone
  MalformedChunks = FALSE
INVARIANTS
  ReleaseIsFinal
  DequeueCoalesced
  OutputOrder
  ResetDiscards
  WorkConserved
  KeyChunkFirst
