CONSTANTS
  Tasks = {t1, t2}
  Requests = {r1, w1}
  Sockets = {w1}
  Deciders = {d1, d2}
  Backend = "sql"
  MaxCrashes = 1
  MaxFaults = 1
  Nobody = Nobody
  NoTask = NoTask
SPECIFICATION Spec
INVARIANT
  ApprovedTaskMovesOn
CHECK_DEADLOCK FALSE
