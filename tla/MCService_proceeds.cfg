SPECIFICATION Spec
CONSTANTS
  p1 = p1
  p2 = p2
  Products <- TwoProducts
  Sent = {"done", "proceeds"}
  Slow = {}
  Backlog = 1
INVARIANTS
  OwnAnswer
