CONSTANTS
  Words <- Vocabulary
  Requirements <- Orders
  ComponentLists <- Lists
  Conducts <- Observed
  Routers <- Clients
  MaxIter = 2
  MaxTasks = 2
SPECIFICATION Spec
INVARIANTS
  TypeOK
  DesignServesClient
  NothingStaleIsNamed
  NoStrayContainer
PROPERTY
  TasksEnd
CHECK_DEADLOCK FALSE
