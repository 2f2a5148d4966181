CONSTANTS
  Askers = {a1, a2}
  Queries = {q1}
  Commands = {x1}
  MaxAnswers = 2
  MaxVersion = 1
  Failed = Failed
  Canceled = Canceled
  Refused = Refused
  Nothing = Nothing
  Platforms = {"linux", "darwin", "windows"}
  Limits = {0, 1}
  MaxUse = 2
  SinkKinds = {"dir", "ring", "tee", "own"}
  Capacities = {0, 1, 2, 3}
  MaxSeq = 6
  Targets = {"t1", "t2", "t3"}
  MaxInstances = 3
SPECIFICATION LibrarySpec
INVARIANTS AnswersAreRight VerdictIsTheTrees RecordingIsHonest LeasesAreKept
PROPERTIES CallsComeBack
CHECK_DEADLOCK FALSE
