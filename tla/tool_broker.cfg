SPECIFICATION Spec
CONSTANTS
  Writers = {t1, t2}
  Texts <- Asked
  Packs <- Operations
  Employees <- Kinds
  MaxFaults = 2
  Allowed = {"email_tool", "messaging_tool"}
  Registered = {"email_tool"}
INVARIANTS TypeOK ForksNeedOverlap NoUnrecordedRun
PROPERTY ImplementsTrail
CHECK_DEADLOCK FALSE
