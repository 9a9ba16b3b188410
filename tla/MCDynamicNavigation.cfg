SPECIFICATION Spec
CONSTANTS
  MaxPages = 4
  MaxContexts = 6
INVARIANTS
  PagesHaveTheirContexts
PROPERTIES
  LostOnlyWhenStale
CHECK_DEADLOCK FALSE
