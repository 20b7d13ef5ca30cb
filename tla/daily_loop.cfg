SPECIFICATION Spec
CONSTANTS
  Runs = {r1, r2}
  Messages = {1, 2}
  Anonymous = {2}
  Employees <- Kinds
  RuleBook <- Book
  Hours = {18}
  RuleLimit = 2
  MaxItems = 1
  MaxRules = 3
  MaxFaults = 1
INVARIANTS AnsweredOnce ReadIsDealtWith QuietIsKept
CHECK_DEADLOCK FALSE
