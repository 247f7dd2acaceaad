\* Every handler, every method, every combination of failing checks, and
\* every GET of rows that come and go.
SPECIFICATION ReadingSpec
CONSTANTS
  Handlers = {"ovsdb", "custom", "login", "logout"}
  None = None
  Rows = {1, 2, 3}
  StatusRows = {3}
  MaxChanges = 1
INVARIANTS
  RefusedRunsNothing
  FirstRefusalIsTold
  ToldAsDone
  PagesAreFull
  FetchedBeforeRead
  CategoriesAreTheirs
PROPERTIES
  AnsweredOrWaits
  ImplementsLifecycle
