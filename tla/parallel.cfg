SPECIFICATION MCSpec
CONSTANTS
  s1 = s1  s2 = s2  s3 = s3  w1 = w1  w2 = w2
  State <- ThreeStates
  Worker <- MCWorkers
  Graphs <- MCGraphs
  Admissions <- RootOnly
  BadSets <- MCBadSets
  Options <- MCOptions
  Limit = 1
  Policies = {"Dfs", "Bfs"}
  Window = 2
  MaxStates = 3
  MaxLeases = 6
  NoTicket = NoTicket
  NoState = NoState
INVARIANTS
  VerdictSound
  LeasesAgree
  FailsOnlyWhenExhausted
PROPERTIES
  ImplementsFrontier
  Terminates
CHECK_DEADLOCK FALSE
