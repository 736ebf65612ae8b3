SPECIFICATION ReuseSpec
CONSTANTS
  Catalog <- SmallCatalog
  MaxPeriods = 2
  OnSchedule = FALSE
  Served <- NoOthers
  Abandoned <- TwoOthers
INVARIANTS
  ActivationStarts
