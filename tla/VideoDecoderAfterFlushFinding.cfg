SPECIFICATION Spec
CONSTANTS
  ThreadStarts <- MCAlwaysStarts
  SizeModulus = 8
  CodecDelay = 1
  Faults <- MCNoFaults
  MaxInputs = 2
  MaxFlushes = 1
  MaxConfigures = 2
  MaxResets = 1
  SupportedCodecs <- MCOneCodec
  UnsupportedCodecs <- MCNone
  Descriptions <- MCNone
  MalformedChunks = FALSE
INVARIANT
  NoErrorWithoutFault
