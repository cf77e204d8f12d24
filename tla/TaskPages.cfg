CONSTANTS
  u1 = u1
  stranger = stranger
  Teams = {1, 2}
  Users = {u1}
  Callers = {u1, stranger}
  Statuses = {"todo", "done"}
  Members <- MCMembers
  Nobody = Nobody
  Missing = Missing
  Junk = Junk
  All = All
  DefaultLimit = 1
  MaxLimit = 2
  Queries <- MCQueries
  Walks <- MCWalks
  NewRows <- MCNewRows
  Absent = Absent
  NoWalk = NoWalk
  MaxTasks = 3
  MaxEdits = 1
  MaxSlips = 1
SPECIFICATION PagesSpec
INVARIANTS
  PagesTypeOK
  AnswersFitTheQuestion
  WalkMissesNothing
