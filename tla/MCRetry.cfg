\* Is a retry created only while its checkpoint exists?
CONSTANTS
  r1 = r1
  r2 = r2
  stockA = stockA
  NoRun = NoRun
  Runs <- MCRuns
  Assets <- MCAssets
  AssetOf <- MCAssetOf
  MaxCap = 2
  MaxFaults = 0
  MaxCrashes = 1
  RootsAtLoad <- MCAppRoot
  Watched = {}
SPECIFICATION ServiceSpec
PROPERTY
  RetryFindsCheckpoint
