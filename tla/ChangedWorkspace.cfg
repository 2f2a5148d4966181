SPECIFICATION ChangedSpec
CONSTANTS
  CatalogMutants = {1, 2}
  Tests <- SomeTests
INVARIANTS
  ANarrowingMeasures
CHECK_DEADLOCK FALSE
