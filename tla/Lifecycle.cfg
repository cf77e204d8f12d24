CONSTANTS
  Requests = {r1, r2, r3}
  Tables = 3
  MaxFaults = 3
  File <- MCFile
  Deployments <- MCDeployments
SPECIFICATION FairSpec
INVARIANTS
  TypeOK
  ServesOnlyMigrated
  CleanStop
  RunsAsMeant
PROPERTIES
  SignalEnds
  RestartServes
