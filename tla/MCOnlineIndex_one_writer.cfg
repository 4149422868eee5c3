\* One writer, a reader: a bulk build or none, then rows of three kinds, deletes, every reopen.
SPECIFICATION Spec
CONSTANTS
  plain = plain
  tagged = tagged
  other = other
  label = label
  otherLabel = otherLabel
  Nodes = {1, 2, 3, 4}
  Rows = {plain, tagged, other}
  Bare = {}
  Labels = {label, otherLabel}
  LabelsOf <- MCLabelsOf
  Starts <- MCStarts
  NoStart = NoStart
  Writers = {w1}
  Readers = {r1}
  StorageMayFail = FALSE
  MaxFreezes = 4
  MaxEpoch = 2
  MaxVersion = 4
  MaxNeighbors = 1
  MaxVisited = 2
  MaxSegments = 1
  MaxBulkBuilds = 1
  MaxBuiltRows = 1
  BuildAnytime = FALSE
SYMMETRY LabelSymmetry
CHECK_DEADLOCK FALSE
INVARIANTS
  NamedIdsNeverReused
  QuietManifestExact
  StartNodesLive
  QuietSnapshotsResolve
  NothingRefused
PROPERTY LiveLabelsKeepStarts
