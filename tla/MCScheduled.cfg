SPECIFICATION FairSpec
CONSTANTS
  j1 = j1
  q1 = q1
  q2 = q2
  a = a
  None = None
  Deleted = Deleted
  Jobs = {j1}
  Requests = {q1, q2}
  Assets = {a}
  AssetOf <- MCAssetOf
  MaxCap = 2
  MaxRuns = 1
  MaxWriters = 1
INVARIANTS
  SchedTypeOK
  LogTellsVerdict
  WorkWaitsForLog
  SchedulerFollowsJobs
PROPERTIES
  ClosedLogStays
  LogCloses
