SPECIFICATION AnswerSpec
CONSTANTS
  Catalog <- SmallCatalog
  MaxPeriods = 2
  OnSchedule = FALSE
INVARIANTS
  PeriodsCovered
  StoredSettles
  AnswerInv
PROPERTIES
  AnswerIsWhole
  ErrorStopsCascade
  NotBilledOncePaymentClosed
