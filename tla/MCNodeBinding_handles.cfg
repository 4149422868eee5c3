SPECIFICATION Spec
CONSTANTS
  Ids = {x, y}
  x = x
  y = y
  Providers <- AllProviders
  Calls <- MCCalls
  BuiltOver <- MCBuiltOver
  PoolSize = 2
  MaxTasks = 3
  MaxInodes = 3
CHECK_DEADLOCK FALSE
INVARIANTS
  AttachedToOneHandle
  OneStatePerDirectory
  MapMatchesIndex
  PinnedSearchesRepeat
  SearchesOnlyExpire
PROPERTIES
  PromisesSettle
