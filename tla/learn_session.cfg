SPECIFICATION FairSpec
CHECK_DEADLOCK FALSE
CONSTANTS
  Clients = {c1, c2}
  Buttons = {b1}
  None = None
  MaxArms = 2
  MaxPresses = 1
  MaxEdits = 1
  MaxFailures = 1
INVARIANTS
  TypeOK
  TimerIsTheSessions
  OneResultPerArm
PROPERTIES SessionsEnd LearnedStaysLearned
