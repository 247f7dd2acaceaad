CONSTANTS
  Schema <- MCBoth
  Orders <- MCOrders
  Inputs <- AllInputs
  InitialRows <- AllRows
  Verdicts = {"error"}
  Deleters = {"P", "U"}
  MaxWrites = 2
SPECIFICATION Spec
INVARIANTS Overwritten RejectedForCause RoundTrip
PROPERTIES DeletedWithChildren
CHECK_DEADLOCK FALSE
