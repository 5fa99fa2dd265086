SPECIFICATION FairSpec
CONSTANTS
  t1 = t1
  r1 = r1
  r2 = r2
  Tasks = {t1}
  Runs = {r1}
  TaskOf <- OneRunOf
  ScanRuns = {r1}
  MaxConcurrentRuns = 1
  MaxRevision = 2
  MaxServerStarts = 2
  MaxStreams = 1
  MaxErrors = 2
CHECK_DEADLOCK FALSE
INVARIANTS
  NoWorkerIsLost
  FinalStateIsTrue
PROPERTIES
  ForceStopIsCarriedOut
  ExitIsRecorded
