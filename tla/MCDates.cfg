SPECIFICATION DatedSpec
CONSTANTS
  Catalog <- TwoPrices
  MaxPeriods = 3
  OnSchedule = TRUE
  Length = 3
  EndedBefore = 1
  WaitingTime = 1
  SuspendTime = 2
  ImmediateTime = 1
  Immediate = {"ACTIVE"}
  MaxDelay = 1
  MaxClock = 4
  MaxDate = 6
INVARIANTS
  PeriodEndOnSchedule
  DisconnectOnEndDate
  EndDateInRange
PROPERTIES
  EndDateMovesWithReason
  ServedToTheEnd
