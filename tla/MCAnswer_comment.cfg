SPECIFICATION AnswerSpec
CONSTANTS
  Catalog <- SmallCatalog
  MaxPeriods = 2
  OnSchedule = FALSE
INVARIANTS
  StoredIsAccomplished
