\* Any two kinds of faults, in any order and number.
SPECIFICATION Spec
CONSTANTS
  a = a
  b = b
  Mutations = {a}
  Torn = Torn
  Faults = {"write", "sync", "directory", "rename", "reopen", "exit"}
  MaxFaults = 2
  MaxAppends = 2
  MaxFrames = 3
INVARIANTS
  AcknowledgedAppendsSurvive
  NoOffsetReused
  RecoveredOffsetsIncrease
