SPECIFICATION TSpec
CONSTANTS
  d1 = d1
  d2 = d2
  d3 = d3
  c1 = c1
  c2 = c2
  None = None
  Content = {d1, d2, d3}
  HashOf <- MCHash
  Size <- MCSize
  Client = {c1, c2}
  Io = {1}
  MaxQueue = 2
  MaxBytes = 2
  HotSize = 1
  WarmSize = 1
  MaxInflight = 1
  Faults = 1
INVARIANTS
  SleepersWillWake
  AcceptedIsKept
  PromisedIsDurable
PROPERTIES
  LoadAnswersAccepted
SYMMETRY Symmetry
