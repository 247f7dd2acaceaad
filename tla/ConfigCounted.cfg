SPECIFICATION Spec
CONSTANTS
  Schema <- MCSchema
  Orders <- MCOrders
  Inputs <- EmptyKvs
  InitialRows <- MCRows
  Verdicts = {}
  Deleters = {}
  MaxWrites = 2
CHECK_DEADLOCK FALSE
INVARIANT RoundTrip
