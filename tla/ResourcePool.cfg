SPECIFICATION Spec
CONSTANTS
  Keys = {"hd", "sd"}
  MaxFrames = 3
  Sizes <- MCSizes
  CounterMod = 5
  MaxResets = 1
INVARIANTS
  PooledFramesIdle
  StatsExact
