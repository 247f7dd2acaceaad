SPECIFICATION Spec
CONSTANTS
  Schema <- MCDeep
  Orders <- MCOrders
  Inputs <- Nothing
  InitialRows <- BackwardRows
  Verdicts = {}
  Deleters = {}
  MaxWrites = 1
CHECK_DEADLOCK FALSE
INVARIANT ReadIsAccepted
