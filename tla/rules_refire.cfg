SPECIFICATION Spec
CONSTANTS
  learned = learned
  unlearned = unlearned
  None = None
  RuleIds = {r1}
  Buttons = {learned, unlearned}
  Learned = {learned}
  Prices = {1, 3}
  Limits = {2}
  Routines <- SlowRoutine
  NewRules <- AllRules
  Evaluations = {e1, e2}
  HandRuns = {}
  MaxPrices = 1
  MaxEdits = 1
  MaxOutages = 0
PROPERTY FiresOncePerEdge
