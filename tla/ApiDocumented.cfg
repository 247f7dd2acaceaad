CONSTANTS
  Files <- AllFiles
  Fetched <- MCFetched
  Plural <- MCPlural
SPECIFICATION Spec
INVARIANTS ParentIsFound MutableMayBeCreated NothingDangles PathsLeadThere NothingIsLeftOut
CHECK_DEADLOCK FALSE
