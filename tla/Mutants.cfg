SPECIFICATION MutantSpec
CONSTANTS
  CatalogMutants = {1, 2}
  Tests <- SomeTests
INVARIANTS
  DiscoveryIsRight SelectionIsRight ReadsAsTheProgram RuntimeIsRight AcceptedIsWhatBuilds
  TheOriginalFits VerdictsAreUnnarrowed AccountIsTrue
CHECK_DEADLOCK FALSE
