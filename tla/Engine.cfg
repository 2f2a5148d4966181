SPECIFICATION EngineSpec
CONSTANTS
  Runs = {r1, r2}
  Stable = Stable
  Old = Old
  Ghost = Ghost
  CleanupAttempts = 2
  Keepers = {"k1", "k2"}
  Collectors = {"g1"}
  Earlier = "k0"
  FullRuns = {"full"}
  OtherRuns = {"other"}
  Cleaners = {"gc"}
  Flushers = {"flush"}
  Past = {"old", "new"}
  Inputs = {"i1"}
  Keep = 1
  RunIDs = {1, 2}
  TraceCleaners = {3}
  RetainRuns = 1
  CacheRuns = {"r1", "r2"}
  CacheKeys = {"c1", "c2"}
  Natures <- CacheNatures
  TimeLimits = {1, 2}
  MemoryLimits = {0, 1}
  Files = {1, 2, 3, 4}
  Excluded = {3}
  Generated = {4}
  Instrumented = {1}
  MaxEdits = 2
  MaxWrites = 2
  StoredRuns = {1, 2, 3, 4}
  Digests = {"d1", "d2", "d3"}
  DigestOf <- DigestOfRun
  ModuleOf <- ModuleOfRun
  Keys = {"k1", "k2"}
  KeyOf <- KeyOfDigest
  Cleaned = "m"
  MaxCleans = 1
SYMMETRY RunSymmetry
CHECK_DEADLOCK FALSE
PROPERTY RecordingsAreKept
INVARIANTS
  DirectoriesAreSafe KeptIsKept DurableIsKept
  MergeIsTheWholeRun NothingIsForgotten
  CachedIsRemeasured MutantsStartFromTheSame HistoryIsKept ConsoleIsComplete
