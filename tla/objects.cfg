SPECIFICATION MCSpec
CONSTANTS
  r0 = r0 r1 = r1 r2 = r2 blobA = blobA blobB = blobB twinB = twinB blobC = blobC
  s0 = s0 s1 = s1 s2 = s2 w1 = w1 w2 = w2
  Content = {r0, r1, r2, blobA, blobB, twinB, blobC}
  KeyOf <- MCKey
  Worker = {w1, w2}
  Coord = Coord
  State = {s0, s1, s2}
  Start = s0
  Roots <- MCRoots
  Closure <- MCClosure
  Successors <- MCSuccessors
  Capacity = 1
  NoState = NoState
  Bundle <- MCBundle
  First <- MCFirst
  CacheSegments = 1
  SegmentObjects = 1
  MaxObjects = 1
  ConfirmedKeys = 1
  MaxTransfers = 4
  MaxLosses = 1
CHECK_DEADLOCK FALSE
INVARIANTS CertificatesAreTrue ReceivedIsSent NoStandoff
