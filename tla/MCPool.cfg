SPECIFICATION Spec
CONSTANTS
  c1 = c1
  c2 = c2
  Clients <- TwoClients
  MaxSize = 3
INVARIANTS
  TypeOK
  OneClientPerMachine
  OwnMachine
  PoolIsFull
  NeverOutOfRange
