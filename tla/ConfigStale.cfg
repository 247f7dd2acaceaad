SPECIFICATION Spec
CONSTANTS
  Schema <- MCSchema
  Orders <- MCOrders
  Inputs <- Refs
  InitialRows <- OneRow
  Verdicts = {}
  Deleters = {"P"}
  MaxWrites = 3
CHECK_DEADLOCK FALSE
INVARIANT PutOverwrites
