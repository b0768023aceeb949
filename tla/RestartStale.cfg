SPECIFICATION FairSpec
CONSTANTS
  r1 = r1
  s1 = s1
  Worker = Worker
  NoThread = NoThread
  Last = 3
  Repairs <- TheRepairs
  Restarts <- TheRestarts
  Budget <- Limits
PROPERTY RestartReflectsCurrent
CHECK_DEADLOCK FALSE
