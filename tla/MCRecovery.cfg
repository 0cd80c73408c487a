\* Does a restart complete a run whose report is complete?
CONSTANTS
  r1 = r1
  r2 = r2
  stockA = stockA
  NoRun = NoRun
  Runs <- MCRuns
  Assets <- MCAssets
  AssetOf <- MCAssetOf
  MaxCap = 2
  MaxFaults = 0
  MaxCrashes = 1
  RootsAtLoad <- MCAppRoot
  Watched = {}
SPECIFICATION ServiceSpec
PROPERTY
  RecoveryHonoursCommit
