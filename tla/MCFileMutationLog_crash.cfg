\* Crashes at any point; no file operation fails.
SPECIFICATION Spec
CONSTANTS
  a = a
  b = b
  Mutations = {a, b}
  Torn = Torn
  Faults = {}
  MaxFaults = 0
  MaxAppends = 3
  MaxFrames = 3
PROPERTY ImplementsMutationLog
