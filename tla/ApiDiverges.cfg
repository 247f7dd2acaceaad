\* TLC stops at the first that is violated; without it, at the next.
SPECIFICATION Spec
CONSTANTS
  Files <- DivergingFiles
  Fetched <- MCFetched
  Plural <- MCPlural
CHECK_DEADLOCK FALSE
INVARIANTS
  ImmutableIsNotCreated
  DocumentedIsServed
  SuccessIsDocumented
  IdsAreTaken
