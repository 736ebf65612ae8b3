SPECIFICATION Spec
CONSTANTS
  p1 = p1
  p2 = p2
  Products <- TwoProducts
  Sent = {"done", "fails", "proceeds", "stalls", "unknown"}
  Slow = {"event"}
  Backlog = 1
INVARIANTS
  TypeOK
  StaysUsable
  NoLostWakeUp
  ErrorsReported
PROPERTIES
  CallsReturn
