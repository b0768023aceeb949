SPECIFICATION FairSpec
CONSTANTS
  a1 = a1
  a2 = a2
  Sys = Sys
  NoApp = NoApp
  Apps <- TwoApps
  Budget <- Limits
INVARIANTS
  TypeOK
  LegacyUntilCommitted
  AllOrNothing
PROPERTIES
  
  MigrationCompletes
