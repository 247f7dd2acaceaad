\* TLC stops at the first that is violated; without it, at the next.
CONSTANTS
  System = "System"
  Names = {"n1", "n2"}
  Unsafe = {"n2"}
  None = None
  Schemas <- AllSchemas
  MaxRows = 4
  MaxWrites = 4
  MaxSent = 2
SPECIFICATION Spec
CHECK_DEADLOCK FALSE
INVARIANTS
  UrisLeadBack
  SharedNamesLeadBack
  KeysLeadBack
  ReferencesLeadBack
  ReferredLeadBack
PROPERTIES
  CreationKeeps
  CreationAlwaysKeeps
  DeletedIsGone
  CreatedIsThere
  LocationLeadsThere
