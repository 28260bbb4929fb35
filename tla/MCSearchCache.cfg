SPECIFICATION FairSpec
CONSTANTS
  f1 = f1
  f2 = f2
  k1 = k1
  k2 = k2
  Fields <- MCFields
  Calls <- MCCalls
  None = None
  FacetQueries = 2
  TTL = 1
  MaxEntries = 1
  MaxVersion = 2
INVARIANTS TypeOK StaleOnlyByOverlap CapHolds
PROPERTY Converges
