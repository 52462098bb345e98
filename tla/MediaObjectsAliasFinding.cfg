SPECIFICATION Spec
CONSTANTS
  MaxObjects = 1
  Inits <- MCNoTurns
  MaxWrites = 1
  MaxHeld = 0
  MicrosPerSecond = 100
  MpegTsClock = 90
  PtsWrap = 16
  Audios <- MCAudios
  CopyOptions <- MCCopyOptions
  Formats <- MCFormats
  Pictures <- MCPictures
  Layouts <- MCLayouts
  Timebases <- MCTimebases
  Ticks <- MCTicks
PROPERTIES
  FrameOwnsItsBuffer
\* JavaScript need not call anything.
CHECK_DEADLOCK FALSE
