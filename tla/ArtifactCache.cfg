SPECIFICATION FairSpec
CONSTANTS
  p1 = p1
  p2 = p2
  v1 = v1
  v2 = v2
  h1 = h1
  h2 = h2
  l1 = l1
  l2 = l2
  k1 = k1
  k2 = k2
  b1 = b1
  b2 = b2
  NoArtifact = NoArtifact
  NoLayer = NoLayer
  Procs <- TwoProcs
  Artifacts <- FourArtifacts
  Info <- Described
  Builds <- TwoBuilds
  States <- SavedStates
  Stocks <- Stocked
  Slots = 1
  Keep = 1
  Budget <- Small
INVARIANTS
  TypeOK
  AdmittedIsWhole
  ReadyStaysReady
  HooksFitTheBuild
PROPERTIES
  EveryInvocationEnds
CHECK_DEADLOCK FALSE
