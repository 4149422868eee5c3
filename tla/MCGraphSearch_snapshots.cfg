\* Two searches over two snapshots, a cache of two records, reads of one or two.
SPECIFICATION Spec
CONSTANTS
  r1 = r1
  r2 = r2
  Readers = {r1, r2}
  MaxEntries = 2
  MaxNeighbors = 2
  BuildSearchListSize = 2
  AlphaSteps = 1
  Configs <- MCConfigs
  Inputs <- MCInputs
  Searched <- MCSearched
  Searches <- MCSearches
  Limit = 2
  Budget <- MCBudget
  MaxVersion = 2
SYMMETRY MCSymmetry
CHECK_DEADLOCK FALSE
INVARIANTS
  CacheExact
  CacheConsistent
  SearchesExact
  AccountingExact
  QueryEncodedLikeRows

PROPERTIES
  BuildConnected
