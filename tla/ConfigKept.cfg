SPECIFICATION Spec
CONSTANTS
  Schema <- MCSchema
  Orders <- MCOrders
  Inputs <- TopInputs
  InitialRows <- MCRows
  Verdicts = {}
  Deleters = {}
  MaxWrites = 3
CHECK_DEADLOCK FALSE
INVARIANT PutOverwrites
