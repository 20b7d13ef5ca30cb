CONSTANTS
  Calls = {c1, c2}
  Sweepers = {s1, s2}
  Activator = Activator
  Tools = {t1}
  MaxFaults = 1
SPECIFICATION Spec
INVARIANTS
  TypeOK
  RolledBackIsGone
  ContainerIsNamed
PROPERTY
  SettledStays
SYMMETRY Symmetry
CHECK_DEADLOCK FALSE
