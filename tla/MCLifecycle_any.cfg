SPECIFICATION Spec
CONSTANTS
  Catalog <- SmallCatalog
  MaxPeriods = 3
  OnSchedule = FALSE
INVARIANTS
  TypeOK
  ShutdownOrder
  AtMostOneTransition
  SavedAtRest
  StatusMatchesUsage
  TasksUnambiguous
  AlwaysDeactivates
  PeriodsCovered
PROPERTIES
  KeepsContract
  NotBilledOncePaymentClosed
  CascadeEnds
