SPECIFICATION Spec
CONSTANTS
  s1 = s1  s2 = s2  s3 = s3  s4 = s4  s5 = s5  s6 = s6  w1 = w1  w2 = w2
  State <- SixStates
  Worker <- MCWorkers
  Graphs <- Programs
  Admissions <- RootOnly
  Limit = 3
  Policies <- FreeOrBfs
  Window = 2
  MaxStates = 5
  MaxLeases = 5
  NoTicket = NoTicket
SYMMETRY Symmetry
INVARIANTS
  IndexConsistent
  LayerBarrier
  SettledDepthsAreShortest
  CompleteIsClosed
PROPERTIES
  LeaseNeverRevives
CHECK_DEADLOCK FALSE
