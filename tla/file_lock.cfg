SPECIFICATION MSpec
CONSTANTS
  p1 = p1
  p2 = p2
  Tracer <- Two
  Traced <- One
  NP = 2
  Signals = {"SEGV", "CHLD"}
  Suppressed = {"CHLD"}
  Stale = Stale
  NoPid = NoPid
  NoFile = NoFile
  Inodes = 5
  Reruns = 1
INVARIANTS OneTracerInTurn CleansUpItsOwn
CHECK_DEADLOCK FALSE
