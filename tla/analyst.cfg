CONSTANTS
  m0 = m0
  m1 = m1
  m2 = m2
  m3 = m3
  c1 = c1
  Calls = {m1, m2, m3}
  Commissions = {c1}
  First = m0
  Says <- Keywords
  Roles <- GivenRoles
  Readings <- Read
  Scores = {84, 85}
  TurnLimit = 3
  MaxRestarts = 1
  None = None
SPECIFICATION Spec
INVARIANTS
  TypeOK
  SerialLosesNothing
  OneDocument
  NamedDocumentIsThere
CHECK_DEADLOCK FALSE
