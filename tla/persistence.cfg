SPECIFICATION PSpec
CONSTANTS
  d1 = d1  d2 = d2  m1 = m1
  Content = {d1, d2}
  HashOf <- MCHash
  Metadata = {m1}
  KeyOf <- MCKey
  Roots <- MCRoots
  MaxEntries = 1
  Faults = 1
  NoContent = NoContent
  NoMetadata = NoMetadata
INVARIANTS
  OpenIsExact
  QuietCrashReopens
  CommittedIsWhole
PROPERTIES
  ImplementsContentStore
