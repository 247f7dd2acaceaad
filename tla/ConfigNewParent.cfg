SPECIFICATION Spec
CONSTANTS
  Schema <- MCSchema
  Orders <- MCOrders
  Inputs <- NewParents
  InitialRows <- MCRows
  Verdicts = {}
  Deleters = {}
  MaxWrites = 2
CHECK_DEADLOCK FALSE
INVARIANT PutOverwrites
