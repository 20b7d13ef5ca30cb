CONSTANTS
  Calls = {c1, c2, c3}
  Tasks = {"t1", "t2"}
  Patterns = {"tone", "dates"}
  Documents = {"handbook"}
  Workloads <- Kinds
  MaxFaults = 1
  None = None
SPECIFICATION Spec
INVARIANTS
  TypeOK
  RepeatEscalates
  LastPutCounts
  UploadsLand
SYMMETRY Symmetry
CHECK_DEADLOCK FALSE
