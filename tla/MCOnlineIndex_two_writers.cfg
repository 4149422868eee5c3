\* Two writers that interleave and fail anywhere.
SPECIFICATION OneIndexSpec
CONSTANTS
  plain = plain
  tagged = tagged
  other = other
  label = label
  otherLabel = otherLabel
  Nodes = {1, 2, 3}
  Rows = {tagged}
  Bare = {}
  Labels = {label}
  LabelsOf <- MCLabelsOf
  Starts <- MCStarts
  NoStart = NoStart
  Writers = {w1, w2}
  Readers = {}
  StorageMayFail = TRUE
  MaxFreezes = 4
  MaxEpoch = 1
  MaxVersion = 3
  MaxNeighbors = 1
  MaxVisited = 2
  MaxSegments = 0
  MaxBulkBuilds = 0
  MaxBuiltRows = 0
  BuildAnytime = TRUE
CHECK_DEADLOCK FALSE
INVARIANTS
  TypeOK
  OwedRowsVisible
  DeletedRowsStayGone
