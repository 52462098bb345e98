SPECIFICATION Spec
CONSTANTS
  ThreadStarts <- MCMayNotStart
  SizeModulus = 8
  CodecDelay = 1
  Faults <- MCAllFaults
  MaxInputs = 2
  MaxFlushes = 1
  MaxConfigures = 2
  MaxResets = 1
  SupportedCodecs <- MCOneCodec
  UnsupportedCodecs <- MCUnknownCodec
  Descriptions <- MCNone
  MalformedChunks = TRUE
INVARIANTS
  QueueSizeAlwaysExact
  CloseSettlesFlushes
  PipelineInOrder
