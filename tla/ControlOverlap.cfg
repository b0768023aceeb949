SPECIFICATION LiveSpec
CONSTANTS
  r1 = r1
  r2 = r2
  r3 = r3
  t1 = t1
  t2 = t2
  t3 = t3
  p1 = p1
  p2 = p2
  None = None
  NoState = NoState
  Resync = Resync
  Ids <- IdSet2
  Threads <- TwoThreads
  States <- TwoStates
  Faults = {"submit", "lost", "unknown"}
  Internals = FALSE
  Overlap = TRUE
  MaxCrashes = 1
INVARIANTS
  TypeOK
  MarkerIsNewest
  TheLatestReports
PROPERTIES
  EveryThreadEnds

CHECK_DEADLOCK FALSE
