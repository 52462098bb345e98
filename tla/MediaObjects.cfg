SPECIFICATION Spec
CONSTANTS
  MaxObjects = 4
  Inits <- MCInits
  MaxWrites = 1
  MaxHeld = 1
  MicrosPerSecond = 100
  MpegTsClock = 90
  PtsWrap = 16
  Audios <- MCAudios
  CopyOptions <- MCCopyOptions
  Formats <- MCFormats
  Pictures <- MCPictures
  Layouts <- MCLayouts
  Timebases <- MCTimebases
  Ticks <- MCTicks
INVARIANTS
  RefsExact
  OrientationComposes
  AudioCopiesAreSlices
  VideoCopiesFit
  LayoutsRoundTrip
  TimestampsSurvive
\* JavaScript need not call anything.
CHECK_DEADLOCK FALSE
