CONSTANTS
  Clients = {"c1", "c2"}
  Columns = {"x", "y"}
  Values = {0, 1}
  Initial = 0
  MaxWrites = 2
SPECIFICATION Spec
INVARIANTS NoLostUpdate
PROPERTIES ReadsMonotonically
CHECK_DEADLOCK FALSE
