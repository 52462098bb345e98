SPECIFICATION Spec
CONSTANTS
  ThreadStarts <- MCAlwaysStarts
  SizeModulus = 8
  CodecDelay = 1
  Faults <- MCReportedFaults
  MaxInputs = 2
  MaxFlushes = 1
  MaxConfigures = 2
  MaxResets = 1
  SupportedCodecs <- MCOneCodec
  UnsupportedCodecs <- MCNone
  Descriptions = {d1, d2}
SYMMETRY MCAnyDescription
INVARIANTS
  QueueSizeExact
  PipelineInOrder
  KnowsDecoderConfigWithoutFlush
  MetadataDescribesPacket
PROPERTY
  FlushPromises
