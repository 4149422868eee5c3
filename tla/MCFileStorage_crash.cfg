\* Any trait calls, two faults, a crash after every step of every call.
SPECIFICATION Spec
CONSTANTS
  n1 = n1
  n2 = n2
  a = a
  l = l
  q = q
  Nodes = {n1}
  Rows = {a}
  Lists = {l}
  Trained = {q}
  MaxFiles = 2
  MaxEpoch = 1
  MaxVersion = 2
  MaxFaults = 2
CHECK_DEADLOCK FALSE
INVARIANTS
  FileTypeOK
  EveryCrashReopens
  AcknowledgedPublishesSurvive
  OpensToWhatWasPublished
  EpochsStayFresh
PROPERTY ReferencesAreImmutable
