SPECIFICATION FairSpec
CONSTANTS
  Buffers = 2
  MaxPulses = 1
  MinPulse = 1
  FrameGap = 2
  MessageGap = 3
  AlarmPeriod = 1
  U16Max = 4
  OutQueueLen = 1
  MaxCaptures = 3
  MaxMasks = 0
INVARIANTS
  TypeOK
  OneOwner
  HandoverHasRoom
  ResendHasRoom
PROPERTIES
  DropOnlyWhenFull
  KeepsOrder
  BuffersComeBack
