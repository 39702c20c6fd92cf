SPECIFICATION Spec
CHECK_DEADLOCK FALSE
CONSTANTS
  Texts <- MCTexts
  ValidTexts <- MCValid
  Cap = 3
  Blank = Blank
  Forms <- MCForms
  BuildDefault = None
  Stored <- MCStored
  None = None
  NotifyQueue = 2
  MaxConnects = 1
  MaxApplies = 2
  MaxForgets = 0
  MaxEdits = 1
  MaxReports = 0
PROPERTY BlankKeepsCurrent
