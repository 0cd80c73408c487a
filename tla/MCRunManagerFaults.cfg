\* Two runs of one asset, two failed writes, two crashes.
CONSTANTS
  r1 = r1
  r2 = r2
  r3 = r3
  stockA = stockA
  stockB = stockB
  NoRun = NoRun
  Runs <- MCPair
  Assets <- MCAssets
  AssetOf <- MCSameAsset
  MaxCap = 2
  MaxFaults = 2
  MaxCrashes = 2
SPECIFICATION Spec
SYMMETRY Competitors
INVARIANTS
  ActiveIndexAgrees
  DiskNeverLeads
  ParentHasEnded
PROPERTY
  VerdictIsFinal
