\* A write may fail part of the way.
SPECIFICATION Spec
CONSTANTS
  a = a
  b = b
  Mutations = {a}
  Torn = Torn
  Faults = {"write"}
  MaxFaults = 1
  MaxAppends = 2
  MaxFrames = 3
INVARIANT AppendsAreDurable
