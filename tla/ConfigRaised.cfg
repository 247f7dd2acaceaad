SPECIFICATION Spec
CONSTANTS
  Schema <- MCSchema
  Orders <- MCOrders
  Inputs <- NoP
  InitialRows <- MCRows
  Verdicts = {"raise"}
  Deleters = {}
  MaxWrites = 2
CHECK_DEADLOCK FALSE
INVARIANT PutOverwrites
