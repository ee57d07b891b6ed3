\* Every graph over three names, added in every order, resolved or reversed once.
CONSTANTS
  Node = {web, api, db}
  MaxResolves = 1
SPECIFICATION Spec
INVARIANTS KahnInv OrderSound CycleExact
PROPERTY Implements
CHECK_DEADLOCK FALSE
