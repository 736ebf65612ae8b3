SPECIFICATION Spec
CONSTANTS
  Catalog <- SmallCatalog
  MaxPeriods = 3
  OnSchedule = TRUE
INVARIANTS
  WakeUpOutstanding
  NoTimerAfterShutdown
  NoDuplicateTimer
  CascadeInv
