SPECIFICATION FairSpec
CONSTANTS
  l1 = l1
  l2 = l2
  Libraries = {l1, l2}
  BufSize = 2
  HistoryLimit = 1
  MaxJobs = 3
  MaxRestarts = 1
INVARIANTS
  AdmissionSafe
  ShutdownSafe
  RecordsTrue
PROPERTIES
  ImplementsService
  AcceptedJobsEnd
  ShutdownEnds
CHECK_DEADLOCK FALSE
