SPECIFICATION OrphanSpec
CONSTANTS
  Runs = {r1, r2}
  Stable = Stable
  Old = Old
  Ghost = Ghost
  CleanupAttempts = 2

INVARIANTS
  OneRunPerTree
CHECK_DEADLOCK FALSE
