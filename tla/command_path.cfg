SPECIFICATION FairSpec
CHECK_DEADLOCK FALSE
CONSTANTS
  Buttons = {b1}
  None = None
  Signals <- MCSignals
  MaxPulses = 2
  BufLen = 6
  MaxFragment = 2
  TxQueue = 1
  MaxTaps = 2
  MaxChanges = 1
  MaxBreaks = 1
  MaxLeaves = 1
INVARIANTS TypeOK WholeTrains OnceInOrder SentReachedBroker
PROPERTY TapsAnswered
