CONSTANTS
  Requests = {r1}
  Tables = 2
  MaxFaults = 0
  File <- MCFile
  Deployments <- MakeUp
SPECIFICATION FairSpec
PROPERTY ServesAtLast
