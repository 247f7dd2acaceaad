SPECIFICATION Spec
CONSTANTS
  Schema <- MCDeep
  Orders <- MCOrders
  Inputs <- Nothing
  InitialRows <- SystemRows
  Verdicts = {}
  Deleters = {}
  MaxWrites = 2
CHECK_DEADLOCK FALSE
PROPERTY DeletedWithChildren
