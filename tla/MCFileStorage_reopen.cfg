\* Two online inserts, with the directory reopened in between.
SPECIFICATION Spec
CONSTANTS
  n1 = n1
  n2 = n2
  a = a
  l = l
  q = q
  Nodes = {n1, n2}
  Rows = {a}
  Lists = {l}
  Trained = {q}
  MaxFiles = 2
  MaxEpoch = 1
  MaxVersion = 2
  MaxFaults = 1
CHECK_DEADLOCK FALSE
PROPERTY AcknowledgedRowsStay
