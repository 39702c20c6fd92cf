SPECIFICATION Spec
CONSTANTS
  Nets = {n1, n2}
  Brokers = {b1}
  None = None
  n1 = n1
  n2 = n2
  b1 = b1
  b2 = b2
  BuildDefault = None
  FirstFlash <- MCStored
  FailsBeforeBle <- OneEach
  CandidateTries <- OneTwo
  FlashFails = FALSE
  MaxCommands = 2
  MaxClients = 1
  MaxPowerCuts = 0
INVARIANTS
  ForgetSticks
