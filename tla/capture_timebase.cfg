SPECIFICATION Spec
CONSTANTS
  Buffers = 1
  MaxPulses = 3
  MinPulse = 2
  FrameGap = 3
  MessageGap = 4
  AlarmPeriod = 2
  U16Max = 6
  OutQueueLen = 1
  MaxCaptures = 1
  MaxMasks = 1
INVARIANTS
  IntervalsFit
  Timebase
  FramesMatchGaps
