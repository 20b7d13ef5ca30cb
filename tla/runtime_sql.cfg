CONSTANTS
  Tasks = {t1, t2}
  Requests = {r1, w1}
  Sockets = {w1}
  Deciders = {d1, d2}
  Backend = "sql"
  MaxCrashes = 2
  MaxFaults = 1
  Nobody = Nobody
  NoTask = NoTask
SPECIFICATION FairSpec
INVARIANTS
  TypeOK
  CommitStillLegal
  PendingApprovalIsParked
  AwaitingIsAskable
PROPERTIES
  ObeysStateMachine
  TasksSettle
CHECK_DEADLOCK FALSE
