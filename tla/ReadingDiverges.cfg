\* The category of a row's references changes while they are fetched; a POST
\* that is done is answered 400.  TLC stops at the first that is violated;
\* without it, at the next.
SPECIFICATION ReadingSpec
CONSTANTS
  Handlers = {"ovsdb"}
  None = None
  Rows = {1, 2}
  StatusRows = {2}
  MaxChanges = 0
INVARIANTS
  DoneIsTold
  CategoriesAreAlwaysTheirs
