SPECIFICATION EngineSpec
CONSTANTS
  ModelGraphs <- Designed
  Scores = {20, 40, 84, 85}
  MaxReruns = 2
  RecursionLimit = 12
  StepBudget = 16
INVARIANTS EnginesAgree ReviewIsAsked
PROPERTY RunsEnd
CHECK_DEADLOCK FALSE
