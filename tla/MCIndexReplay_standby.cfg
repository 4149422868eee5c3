\* One built row, two more ids, three log entries, one more standby, two faults.
SPECIFICATION Spec
CONSTANTS
  a = a
  b = b
  Rows = {a, b}
  Base = 1
  MaxId = 3
  MaxAppends = 3
  MaxCopies = 1
  MaxFaults = 2
  Mutations <- MCMutations
CHECK_DEADLOCK FALSE
SYMMETRY RowSymmetry
INVARIANTS
  ReplayComplete
  StandbyComplete
  StandbyIdsFresh
  FirstReplayAccepted
