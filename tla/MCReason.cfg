\* Does a run that has ended keep the reason its row gives?
CONSTANTS
  r1 = r1
  r2 = r2
  r3 = r3
  stockA = stockA
  stockB = stockB
  NoRun = NoRun
  Runs <- MCPair
  Assets <- MCAssets
  AssetOf <- MCSameAsset
  MaxCap = 1
  MaxFaults = 0
  MaxCrashes = 1
SPECIFICATION Spec
PROPERTY
  ReasonIsKept
