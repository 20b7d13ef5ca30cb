CONSTANTS
  Workers = {w1, w2}
  Operators = {o1, o2}
  Commission = Commission
  MaxIter = 2
  MaxLosses = 1
  Nobody = Nobody
SPECIFICATION Spec
INVARIANTS
  TypeOK
  DeployedIsActive
  ContainersAccounted
  ApprovedOnly
SYMMETRY Symmetry
CHECK_DEADLOCK FALSE
