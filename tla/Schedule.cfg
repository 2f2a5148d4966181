SPECIFICATION FairSpec
CONSTANTS
  N = 2
  Jobs = 2
INVARIANTS
  OutcomesAreEarned
PROPERTIES
  ImplementsVerdicts Returns
