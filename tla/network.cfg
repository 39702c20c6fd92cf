SPECIFICATION FairSpec
CONSTANTS
  Nets = {n1, n2}
  Brokers = {b1}
  None = None
  n1 = n1
  n2 = n2
  b1 = b1
  b2 = b2
  BuildDefault = None
  FirstFlash = None
  FailsBeforeBle <- OneTwo
  CandidateTries <- OneTwo
  FlashFails = TRUE
  MaxCommands = 2
  MaxClients = 1
  MaxPowerCuts = 1
INVARIANTS
  TypeOK
  NeverLockedOut
  OnlyProvenSettings
  BridgesOnActive
  TrialIsOver
PROPERTIES
  BleOnlyInTrouble
  CommandsGetThrough
  BleGoesOff
