SPECIFICATION Spec
CONSTANTS
  r1 = r1
  r2 = r2
  r3 = r3
  r4 = r4
  p1 = p1
  p2 = p2
  p3 = p3
  Ids <- IdSet4
  TerminalLimit = 4
  StoreFaults = {}
  Payloads <- Two
  V2Payloads <- V2Of
  BadPayloads = {}
  NoState = NoState
  Mixed = Mixed
  None = None
  Faults = {}
  Kinds = {"apply", "reconcile"}
  MaxRestarts = 0
SYMMETRY Symmetry4
INVARIANTS
  NewestStateIsNotDropped
