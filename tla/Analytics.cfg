CONSTANTS
  u1 = u1
  u2 = u2
  team1 = team1
  team2 = team2
  Users = {u1, u2}
  Id <- MCId
  Teams = {team1, team2}
  Owner <- MCOwner
  Statuses = {"todo", "done"}
  DoneStatus = "done"
  Titles = {"text", "done"}
  Nobody = Nobody
  Keep = Keep
  Workers = {w1, w2}
  Births <- MCBirths
  Patches <- MCPatches
  DoneDays = 0
  MonthDays = 0
  Top = 1
  LastDay = 1
  MaxTasks = 2
  MaxHistory = 2
  Null = Null
SYMMETRY WorkerSymmetry
CHECK_DEADLOCK FALSE
SPECIFICATION Spec
INVARIANTS
  TypeOK
  StatsCountMoves
  TopCreatorsAreTop
PROPERTY IssuesHaveCauses
