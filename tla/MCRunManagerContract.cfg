\* No write fails, the process dies once: the promises of RunContract.
CONSTANTS
  r1 = r1
  r2 = r2
  r3 = r3
  stockA = stockA
  stockB = stockB
  NoRun = NoRun
  Runs <- MCRuns
  Assets <- MCAssets
  AssetOf <- MCAssetOf
  MaxCap = 2
  MaxFaults = 0
  MaxCrashes = 1
SPECIFICATION Spec
SYMMETRY Competitors
INVARIANTS
  TypeOK
  AssetExclusive
  ActiveFitsPool
  MemoryMatchesDisk
PROPERTY
  KeepsContract
