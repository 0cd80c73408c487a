\* Can a worker write artifacts of a run that has ended?
CONSTANTS
  r1 = r1
  r2 = r2
  stockA = stockA
  NoRun = NoRun
  Runs <- MCRuns
  Assets <- MCAssets
  AssetOf <- MCAssetOf
  MaxCap = 2
  MaxFaults = 0
  MaxCrashes = 1
  RootsAtLoad <- MCAppRoot
  Watched <- MCRuns
SPECIFICATION ServiceSpec
PROPERTY
  NoLateArtifacts
