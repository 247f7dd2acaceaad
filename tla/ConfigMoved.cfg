SPECIFICATION Spec
CONSTANTS
  Schema <- MCSchema
  Orders <- MCOrders
  Inputs <- Moves
  InitialRows <- TwoParents
  Verdicts = {}
  Deleters = {}
  MaxWrites = 3
CHECK_DEADLOCK FALSE
INVARIANT RejectedForCause
