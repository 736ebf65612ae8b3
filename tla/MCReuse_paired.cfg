SPECIFICATION ReuseSpec
CONSTANTS
  Catalog <- SmallCatalog
  MaxPeriods = 3
  OnSchedule = FALSE
  Served <- TwoOthers
  Abandoned <- NoOthers
INVARIANTS
  ActivationStarts
PROPERTIES
  ImplementsLifecycle
