SPECIFICATION MCLiveSpec
CONSTANTS
  r1 = r1
  r2 = r2
  r3 = r3
  r4 = r4
  p1 = p1
  p2 = p2
  p3 = p3
  Ids <- IdSet3
  TerminalLimit = 1
  StoreFaults = {"create"}
  Payloads <- One
  V2Payloads <- One
  BadPayloads = {}
  NoState = NoState
  Mixed = Mixed
  None = None
  Faults = {"host"}
  Kinds = {"apply", "migration_retry"}
  MaxRestarts = 1
PROPERTIES
  EveryRequestSettles
  EveryWaiterReturns
