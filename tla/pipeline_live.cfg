CONSTANTS
  Workers = {w1, w2}
  Operators = {o1}
  Commission = Commission
  MaxIter = 2
  MaxLosses = 1
  Nobody = Nobody
SPECIFICATION FairSpec
PROPERTY
  BuildSettles
CHECK_DEADLOCK FALSE
