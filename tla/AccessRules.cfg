SPECIFICATION JudgingSpec
CONSTANTS
  Worker = {w1, w2}
  GroupId = {g1}
  UserId = {u1}
  Given <- ThreeRules
  NullMatches = TRUE
  DefaultAllow = FALSE
  MaxRows = 3
  None = None
SYMMETRY WorkerSymmetry
INVARIANTS TypeOK JudgeTypeOK DecisionsFollowRules NoGlitch
PROPERTY DecisionsMoveToRules
