\* One writer: online mutations, then a bulk build, then another mutation.
SPECIFICATION OneIndexSpec
CONSTANTS
  plain = plain
  tagged = tagged
  other = other
  label = label
  otherLabel = otherLabel
  Nodes = {1, 2, 3}
  Rows = {plain}
  Bare = {}
  Labels = {label}
  LabelsOf <- MCLabelsOf
  Starts <- MCStarts
  NoStart = NoStart
  Writers = {w1}
  Readers = {}
  StorageMayFail = FALSE
  MaxFreezes = 3
  MaxEpoch = 1
  MaxVersion = 4
  MaxNeighbors = 1
  MaxVisited = 2
  MaxSegments = 1
  MaxBulkBuilds = 4
  MaxBuiltRows = 3
  BuildAnytime = TRUE
CHECK_DEADLOCK FALSE
INVARIANT BulkBuildReplacesGraph
