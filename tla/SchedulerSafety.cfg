SPECIFICATION Spec
CONSTANTS
  r1 = r1
  r2 = r2
  r3 = r3
  r4 = r4
  p1 = p1
  p2 = p2
  p3 = p3
  Ids <- IdSet3
  TerminalLimit = 1
  StoreFaults = {}
  Payloads <- Three
  V2Payloads <- V2BadOf
  BadPayloads = {p3}
  NoState = NoState
  Mixed = Mixed
  None = None
  Faults = {"thread", "save", "apps", "artifact"}
  Kinds = {"apply", "reconcile", "migration_retry"}
  MaxRestarts = 1
SYMMETRY Symmetry3
INVARIANTS
  TypeOK
  LiveRecordsHaveAJob
  NoLostWakeup
  LatestWins
  RetriesAreNotDropped
PROPERTIES
  
  TerminalIsFinal
  ImplementsService
