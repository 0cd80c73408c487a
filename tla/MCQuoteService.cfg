SPECIFICATION FairSpec
CONSTANTS
  c1 = c1
  c2 = c2
  s1 = s1
  NoOne = NoOne
  NoKey = NoKey
  Callers = {c1, c2}
  Symbols <- MCSymbols
  Chain <- MCChain
  Covers <- MCCovers
  Retries = 1
  Workers = 1
  Threshold = 2
INVARIANTS
  QuoteTypeOK
  FlightHasFetcher
  WaiterIsServed
  OpenCircuitSpares
PROPERTIES
  EveryAskEnds
