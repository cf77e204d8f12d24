CONSTANTS
  Requests = {r1, r2, r3}
  u1 = u1
  u2 = u2
  stranger = stranger
  team1 = team1
  task1 = task1
  Users = {u1, u2}
  Strangers = {stranger}
  Teams = {team1}
  Owner <- MCOwner
  Tasks = {task1}
  Titles = {"title1", "title2"}
  Descriptions = {"none", "text"}
  Statuses = {"todo", "done"}
  Todo = "todo"
  NoText = "none"
  Nobody = Nobody
  Keep = Keep
  Invalid = Invalid
  Inputs <- MCInputs
  NoRow = NoRow
  Free = Free
  MaxConns = 2
CHECK_DEADLOCK FALSE
SPECIFICATION FairSpec
INVARIANTS
  TypeOK
  TrailExplainsUnracedTasks
  UpdatesAreAtomic
PROPERTIES
  ImplementsAuditedTasks
  EveryRequestEnds
