SPECIFICATION SSpec
CONSTANTS
  s1 = s1
  s2 = s2
  s3 = s3
  State <- ThreeStates
  Initial = s1
  Programs <- AllPrograms
  BadSets <- AnyBad
  Exited <- OnlyLast
  MaxDepth = 2
  Budget = 0
INVARIANTS ReportSound CoverageExact
PROPERTY SearchReturns
