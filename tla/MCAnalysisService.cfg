\* Two runs of one asset, the second perhaps a retry of the first; caps of one, where
\* the second run waits for the thread of a worker whose run may have ended, and two;
\* one crash; with and without the report root at load.
CONSTANTS
  r1 = r1
  r2 = r2
  stockA = stockA
  NoRun = NoRun
  Runs <- MCRuns
  Assets <- MCAssets
  AssetOf <- MCAssetOf
  MaxCap = 2
  MaxFaults = 0
  MaxCrashes = 1
  RootsAtLoad <- MCEitherRoot
  Watched = {}
SPECIFICATION ServiceSpec
INVARIANTS
  ServiceTypeOK
  VerdictMatchesReport
  PublishingHasWorker
  WorkerLeavesVerdict
PROPERTY
  EveryRunEnds
