SPECIFICATION Spec
CONSTANTS
  p1 = p1
  p2 = p2
  Products <- TwoProducts
  Sent = {"done", "fails", "stalls", "unknown"}
  Slow = {"event"}
  Backlog = 1
INVARIANTS
  OwnAnswer
