SPECIFICATION GoatestSpec
CONSTANTS
  RoutingTargets <- Both
  OwnTargets = {"t1"}
  Narrow <- FilesOf
  TreeFiles = {"p", "q", "data"}
  RoutingOptions <- SomeOptions
  RoutingRuns = 2
  Worlds <- SomeWorlds
  Edits <- SomeEdits
  PackageFiles <- FilesOfPackages
  FileContents <- TextsOfFiles
  TestFiles = {"a_test.go", "c_test.go"}
  CodeFiles = {"a.go", "b.go", "c.go", "c_more.go"}
  ImpactTargets <- TargetPackages
  StartingTrees <- SomeTrees
  MaxChanges = 7
  MaximumRounds = 3
  MaxTree = 3
  RunOptions <- RoundOptions
  SessionCallers = {1, 2}
  SessionRequests <- SomeRequests
  SessionMutants = {1, 2}
  MaxArtifacts = 2
  Batch <- SomeBatch
  RepairPaths = {"a", "b", "c"}
  UserContent = {3, 7}
  MaxUserEdits = 1
  RepairModes = {"fix", "run", "dry"}
INVARIANTS
  SkippedIsEarned RoundIsOrderly RepairsAreAllOrNothing CacheServes
  EvidenceIsTrue CallsAreClean
CHECK_DEADLOCK FALSE
