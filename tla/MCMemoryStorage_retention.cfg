\* Any client: one node with two rows, b without a full
\* vector; four freezes, two publishes.
SPECIFICATION StorageSpec
CONSTANTS
  Nodes = {n1}
  Rows = {a, b}
  Bare = {b}
  Starts = {s1}
  NoStart = NoStart
  MaxNeighbors = 1
  Readers = {r1}
  MaxSegments = 1
  MaxFreezes = 4
  MaxEpoch = 1
  MaxVersion = 2
INVARIANTS
  ManifestResolves
  ExpiredOnlyIfSuperseded
  RecentFreezesResolve
  RoutingAndFullVectorAgree
PROPERTY ImplementsSnapshotStore
