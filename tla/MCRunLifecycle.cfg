SPECIFICATION Spec
CONSTANTS
  t1 = t1
  r1 = r1
  r2 = r2
  Tasks = {t1}
  Runs = {r1, r2}
  TaskOf <- OneTaskOf
  ScanRuns = {r1}
  MaxConcurrentRuns = 2
  MaxRevision = 1
  MaxServerStarts = 2
  MaxStreams = 0
  MaxErrors = 0
CHECK_DEADLOCK FALSE
INVARIANTS
  NoDuplicateWorker
  ArchivedIsIdle
  ArtifactsInUseAreKept
  CleanExitStopsWorkers
