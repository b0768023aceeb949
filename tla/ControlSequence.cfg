SPECIFICATION Spec
CONSTANTS
  r1 = r1
  r2 = r2
  r3 = r3
  t1 = t1
  t2 = t2
  t3 = t3
  p1 = p1
  p2 = p2
  None = None
  NoState = NoState
  Resync = Resync
  Ids <- IdSet3
  Threads <- ThreeThreads
  States <- TwoStates
  Faults = {"submit", "lost"}
  Internals = TRUE
  Overlap = FALSE
  MaxCrashes = 1
SYMMETRY Symmetry
INVARIANTS
  ReadyMeansConverged

  
