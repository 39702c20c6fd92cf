SPECIFICATION FairSpec
CHECK_DEADLOCK FALSE
CONSTANTS
  Texts <- MCTexts
  ValidTexts <- MCValid
  Cap = 3
  Blank = Blank
  Forms <- MCForms
  BuildDefault = None
  Stored <- MCStored
  None = None
  NotifyQueue = 2
  MaxConnects = 2
  MaxApplies = 2
  MaxForgets = 1
  MaxEdits = 1
  MaxReports = 1
INVARIANTS TypeOK StagedIsOwn
PROPERTIES LatestArrives ReasonArrives HandoffIsForm
