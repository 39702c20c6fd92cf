SPECIFICATION FairSpec
CHECK_DEADLOCK FALSE
CONSTANTS
  learned = learned
  unlearned = unlearned
  None = None
  RuleIds = {r1, r2}
  Buttons = {learned, unlearned}
  Learned = {learned}
  Prices = {1, 3}
  Limits = {2}
  Routines <- MCRoutines
  NewRules <- SomeRules
  Evaluations = {e1, e2}
  HandRuns = {h1}
  MaxPrices = 2
  MaxEdits = 2
  MaxOutages = 1
INVARIANT TypeOK
PROPERTIES RefiresOnlyIfDisturbed RulesSettle RunsEnd
