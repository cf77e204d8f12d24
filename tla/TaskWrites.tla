------------------------------ MODULE TaskWrites ------------------------------
(***************************************************************************)
(* The write side of TaskService over TaskRepo and MySQL: Create, Update   *)
(* and History requests served concurrently, each by its own goroutine.    *)
(*                                                                         *)
(* A request is a sequence of database calls with other requests' calls in *)
(* between: Update reads the task (GetByID), checks membership, computes   *)
(* the new row and the audit rows from what it READ, and then writes both  *)
(* in one transaction (UpdateWithHistory).  The model keeps the committed  *)
(* tables apart from what an open transaction has written, has InnoDB's    *)
(* row lock, the connection pool, errors of any database call, a COMMIT    *)
(* whose answer is lost, and a crash of the process.                       *)
(*                                                                         *)
(* The cache invalidation that ends Create and Update never changes their  *)
(* answer nor the tables: it is the subject of module TaskListCache.       *)
(***************************************************************************)
EXTENDS Naturals, Sequences, FiniteSets

CONSTANTS
  Requests,       \* HTTP requests, each served once; bounds the model
  Users,          \* ids in table users
  Strangers,      \* ids a client may send that are not in table users
  Teams,          \* ids in table teams
  Owner,          \* [Teams -> Users], who created each team
  Tasks,          \* ids that table tasks may give to a row; bounds the model
  Titles, Descriptions, Statuses,   \* the valid values of a column
  Todo,           \* the default status
  NoText,         \* the empty description
  Nobody,         \* assignee_id NULL, "" in the audit rows
  Keep,           \* the member is absent from the JSON body
  Invalid,        \* a title that is blank once trimmed, an unknown status
  Inputs,         \* what clients send; bounds the model
  NoRow,          \* no row with this id
  Free,           \* no transaction holds the row lock
  MaxConns        \* mysql.max_open_conns, less the one that golang-migrate keeps

(***************************************************************************)
(* The columns a request can change, in the order Update examines them,    *)
(* and the bodies a client can send for them.                              *)
(***************************************************************************)
Fields == {"title", "description", "status", "assignee_id"}

FieldRank == [title |-> 1, description |-> 2, status |-> 3, assignee_id |-> 4]

Values == Titles \cup Descriptions \cup Statuses \cup Users \cup {Nobody}

Patch == [title       : Titles \cup {Keep, Invalid},
          description : Descriptions \cup {Keep},
          status      : Statuses \cup {Keep, Invalid},
          assignee_id : Users \cup Strangers \cup {Nobody, Keep}]

Content == [title       : Titles,
            description : Descriptions,
            status      : Statuses,
            assignee_id : Users \cup {Nobody}]

Input == [kind : {"create", "update", "history"}, actor : Users, team : Teams,
          task : Tasks, patch : Patch]

ASSUME ConstantsAssumption ==
  /\ Owner \in [Teams -> Users]
  /\ Todo \in Statuses
  /\ NoText \in Descriptions
  /\ Titles # {}
  /\ Inputs # {} /\ Inputs \subseteq Input
  /\ MaxConns \in Nat \ {0}

ASSUME SentinelsAssumption ==
  /\ Keep \notin Values \cup Strangers
  /\ Invalid \notin Values \cup Strangers \cup {Keep}
  /\ Strangers \cap (Users \cup {Nobody}) = {}
  /\ Nobody \notin Users
  /\ Free \notin Requests

Row == [team : Teams, created_by : Users, fields : Content]

ASSUME NoRowAssumption == NoRow \notin Row

HistoryRow == [changed_by : Users, field : Fields, old_value : Values,
               new_value : Values, cause : Requests]

VARIABLES
  members,   \* table team_members, as pairs <<team, user>>
  rows,      \* table tasks, the committed row of each id or NoRow
  history,   \* table task_history, the committed audit rows of each task by id
  lock,      \* the request whose transaction holds the row lock of each task
  pc,        \* what each request does next, or how it ended
  req,       \* the input of each request
  snap,      \* `current` of each Update: the columns that GetByID returned
  todo,      \* the columns whose audit row the transaction has yet to insert
  audit,     \* the audit rows the open transaction has inserted
  original,  \* auxiliary: the columns each task was created with
  raced      \* auxiliary: tasks where an Update overwrote a row it had not read

tables == <<members, rows, history>>
vars == <<members, rows, history, lock, pc, req, snap, todo, audit,
          original, raced>>

InTx      == {"write", "audit", "commit"}
Connected == InTx \cup {"acknowledge"}
InFlight  == {"load", "authorize", "insert", "select", "begin"} \cup Connected
Rejected == {"forbidden", "invalid", "notfound"}
Done     == {"ok", "error", "lost"} \cup Rejected

-----------------------------------------------------------------------------
(* What the service computes from a request and the task it read. *)

Wellformed(patch) == patch.title # Invalid /\ patch.status # Invalid

\* Mutant: an absent description has no default.
NewContentWithoutDefault(patch) ==
  [title       |-> patch.title,
   description |-> patch.description,
   status      |-> IF patch.status = Keep THEN Todo ELSE patch.status,
   assignee_id |-> IF patch.assignee_id = Keep THEN Nobody ELSE patch.assignee_id]

\* CreateTaskInput: a title is required, the other members have defaults.
NewContent(patch) ==
  [title       |-> patch.title,
   description |-> IF patch.description = Keep THEN NoText ELSE patch.description,
   status      |-> IF patch.status = Keep THEN Todo ELSE patch.status,
   assignee_id |-> IF patch.assignee_id = Keep THEN Nobody ELSE patch.assignee_id]

\* The columns Update changes and audits: present and different from `current`.
Changed(r) ==
  {f \in Fields : req[r].patch[f] # Keep /\ req[r].patch[f] # snap[r][f]}

\* `updated`: a copy of `current` with the changed columns.  The UPDATE
\* statement writes all of it, the columns nobody asked to change included.
Updated(r) ==
  [f \in Fields |-> IF f \in Changed(r) THEN req[r].patch[f] ELSE snap[r][f]]

\* Mutant: the arguments of `add` are swapped.
AuditRowSwapped(r, f) ==
  [changed_by |-> req[r].actor, field |-> f, old_value |-> Updated(r)[f],
   new_value |-> snap[r][f], cause |-> r]

\* The audit row of one column: what Update read, and what it writes.
AuditRow(r, f) ==
  [changed_by |-> req[r].actor, field |-> f, old_value |-> snap[r][f],
   new_value |-> Updated(r)[f], cause |-> r]

\* fk_tasks_assignee
AssigneeExists(content) == content.assignee_id \in Users \cup {Nobody}

IsMember(team, user) == <<team, user>> \in members

\* A transaction keeps its connection until it ends, any other statement
\* takes one from the pool and returns it.
ConnAvailable == Cardinality({r \in Requests : pc[r] \in Connected}) < MaxConns

Goto(r, phase) == pc' = [pc EXCEPT ![r] = phase]

TeamOf(r) ==
  IF req[r].kind = "create" THEN req[r].team ELSE rows[req[r].task].team

-----------------------------------------------------------------------------
SomeInput == CHOOSE in \in Inputs : TRUE

SomeContent == NewContent([title |-> CHOOSE x \in Titles : TRUE,
                           description |-> Keep, status |-> Keep,
                           assignee_id |-> Keep])

Init ==
  /\ members = {<<t, Owner[t]>> : t \in Teams}
  /\ rows = [t \in Tasks |-> NoRow]
  /\ history = [t \in Tasks |-> <<>>]
  /\ lock = [t \in Tasks |-> Free]
  /\ pc = [r \in Requests |-> "idle"]
  /\ req = [r \in Requests |-> SomeInput]
  /\ snap = [r \in Requests |-> SomeContent]
  /\ todo = [r \in Requests |-> {}]
  /\ audit = [r \in Requests |-> <<>>]
  /\ original = [t \in Tasks |-> SomeContent]
  /\ raced = {}

\* An invitation adds a member (TeamRepo.AddMember); nothing removes one.
Join(team, user) ==
  /\ ~IsMember(team, user)
  /\ members' = members \cup {<<team, user>>}
  /\ UNCHANGED <<rows, history, lock, pc, req, snap, todo, audit, original, raced>>

\* A bound of the model: no more creates than there are ids.
IdLeft ==
  Cardinality({r \in Requests : pc[r] # "idle" /\ req[r].kind = "create"})
    < Cardinality(Tasks)

\* A handler calls TaskService with the actor and the decoded body.
Start(r, in) ==
  /\ pc[r] = "idle"
  /\ in.kind = "create" => IdLeft
  /\ req' = [req EXCEPT ![r] = in]
  /\ Goto(r, IF in.kind = "create" THEN "authorize" ELSE "load")
  /\ UNCHANGED <<tables, lock, snap, todo, audit, original, raced>>

\* TaskRepo.GetByID, outside any transaction.
Load(r) ==
  /\ pc[r] = "load"
  /\ ConnAvailable
  /\ IF rows[req[r].task] = NoRow
     THEN Goto(r, "notfound") /\ UNCHANGED snap
     ELSE /\ Goto(r, "authorize")
          /\ snap' = [snap EXCEPT ![r] = rows[req[r].task].fields]
  /\ UNCHANGED <<tables, lock, req, todo, audit, original, raced>>

\* Where a request goes once requireMember has read the membership: the
\* validation and the diff touch no database.
AfterValidation(r) ==
  CASE req[r].kind = "history" -> "select"
    [] req[r].kind = "create"  ->
         IF Wellformed(req[r].patch) /\ req[r].patch.title # Keep
         THEN "insert" ELSE "invalid"
    [] req[r].kind = "update"  ->
         IF ~Wellformed(req[r].patch) THEN "invalid"
         ELSE IF Changed(r) = {} THEN "ok" ELSE "begin"

\* Mutant: requireMember is not called.
AuthorizeAnyone(r) ==
  /\ pc[r] = "authorize"
  /\ ConnAvailable
  /\ Goto(r, AfterValidation(r))
  /\ UNCHANGED <<tables, lock, req, snap, todo, audit, original, raced>>

Authorize(r) ==
  /\ pc[r] = "authorize"
  /\ ConnAvailable
  /\ Goto(r, IF IsMember(TeamOf(r), req[r].actor)
             THEN AfterValidation(r) ELSE "forbidden")
  /\ UNCHANGED <<tables, lock, req, snap, todo, audit, original, raced>>

\* The row of a created task, with the next id.
InsertRow(r) ==
  \E t \in Tasks :
    /\ rows[t] = NoRow
    /\ rows' = [rows EXCEPT ![t] = [team       |-> req[r].team,
                                    created_by |-> req[r].actor,
                                    fields     |-> NewContent(req[r].patch)]]
    /\ original' = [original EXCEPT ![t] = NewContent(req[r].patch)]

\* TaskRepo.Create: one INSERT, which a foreign key may refuse.
Insert(r) ==
  /\ pc[r] = "insert"
  /\ ConnAvailable
  /\ IF AssigneeExists(NewContent(req[r].patch))
     THEN InsertRow(r) /\ Goto(r, "acknowledge")
     ELSE Goto(r, "error") /\ UNCHANGED <<rows, original>>
  /\ UNCHANGED <<members, history, lock, req, snap, todo, audit, raced>>

\* TaskRepo.History: one SELECT.
Select(r) ==
  /\ pc[r] = "select"
  /\ ConnAvailable
  /\ Goto(r, "ok")
  /\ UNCHANGED <<tables, lock, req, snap, todo, audit, original, raced>>

\* UpdateWithHistory takes a connection and begins a transaction.
Begin(r) ==
  /\ pc[r] = "begin"
  /\ ConnAvailable
  /\ Goto(r, "write")
  /\ UNCHANGED <<tables, lock, req, snap, todo, audit, original, raced>>

\* Mutant: Rollback is not deferred, a failed statement keeps the lock.
RollbackForgotten(r) ==
  /\ lock' = [t \in Tasks |-> IF lock[t] = r /\ pc[r] = "commit" THEN Free ELSE lock[t]]
  /\ todo' = [todo EXCEPT ![r] = {}]
  /\ audit' = [audit EXCEPT ![r] = <<>>]

\* The deferred Rollback: the transaction's rows and its lock are gone.
Rollback(r) ==
  /\ lock' = [t \in Tasks |-> IF lock[t] = r THEN Free ELSE lock[t]]
  /\ todo' = [todo EXCEPT ![r] = {}]
  /\ audit' = [audit EXCEPT ![r] = <<>>]

\* UPDATE tasks: waits for the row lock and keeps it until the transaction ends.
Write(r) ==
  /\ pc[r] = "write"
  /\ lock[req[r].task] = Free
  /\ IF AssigneeExists(Updated(r))
     THEN /\ lock' = [lock EXCEPT ![req[r].task] = r]
          /\ todo' = [todo EXCEPT ![r] = Changed(r)]
          /\ Goto(r, "audit")
          /\ UNCHANGED audit
     ELSE Rollback(r) /\ Goto(r, "error")
  /\ UNCHANGED <<tables, req, snap, original, raced>>

\* Mutant: the audit rows are inserted through db, not through tx.
AuditOutsideTx(r) ==
  /\ pc[r] = "audit"
  /\ \E f \in todo[r] :
       /\ \A g \in todo[r] : FieldRank[f] <= FieldRank[g]
       /\ history' = [history EXCEPT ![req[r].task] = Append(@, AuditRow(r, f))]
       /\ todo' = [todo EXCEPT ![r] = @ \ {f}]
       /\ Goto(r, IF todo[r] = {f} THEN "commit" ELSE "audit")
  /\ UNCHANGED <<members, rows, lock, req, snap, audit, original, raced>>

\* INSERT INTO task_history, one row for each changed column in order.
Audit(r) ==
  /\ pc[r] = "audit"
  /\ \E f \in todo[r] :
       /\ \A g \in todo[r] : FieldRank[f] <= FieldRank[g]
       /\ audit' = [audit EXCEPT ![r] = Append(@, AuditRow(r, f))]
       /\ todo' = [todo EXCEPT ![r] = @ \ {f}]
       /\ Goto(r, IF todo[r] = {f} THEN "commit" ELSE "audit")
  /\ UNCHANGED <<tables, lock, req, snap, original, raced>>

\* COMMIT makes the row and its audit rows visible together and frees the lock.
Commit(r) ==
  LET t == req[r].task IN
  /\ pc[r] = "commit"
  /\ rows' = [rows EXCEPT ![t].fields = Updated(r)]
  /\ history' = [history EXCEPT ![t] = @ \o audit[r]]
  /\ raced' = IF rows[t].fields = snap[r] THEN raced ELSE raced \cup {t}
  /\ Rollback(r)
  /\ Goto(r, "acknowledge")
  /\ UNCHANGED <<members, req, snap, original>>

\* The answer to the INSERT or the COMMIT arrives.
Acknowledge(r) ==
  /\ pc[r] = "acknowledge"
  /\ Goto(r, "ok")
  /\ UNCHANGED <<tables, lock, req, snap, todo, audit, original, raced>>

-----------------------------------------------------------------------------
(* Failures. *)

\* A call returns an error: the server is unreachable, the lock wait times
\* out, the client is gone and its context is cancelled.  A transaction is
\* rolled back, but what the server has committed stays: the request whose
\* acknowledgement is lost fails like any other.
Fail(r) ==
  /\ pc[r] \in InFlight
  /\ Rollback(r)
  /\ Goto(r, "error")
  /\ UNCHANGED <<tables, req, snap, original, raced>>

\* The process dies: its requests are never answered, and MySQL rolls back
\* the transactions of its connections.
Crash ==
  /\ \E r \in Requests : pc[r] \in InFlight
  /\ pc' = [r \in Requests |-> IF pc[r] \in InFlight THEN "lost" ELSE pc[r]]
  /\ lock' = [t \in Tasks |-> Free]
  /\ todo' = [r \in Requests |-> {}]
  /\ audit' = [r \in Requests |-> <<>>]
  /\ UNCHANGED <<tables, req, snap, original, raced>>

-----------------------------------------------------------------------------
Progress(r) ==
  \/ Load(r) \/ Authorize(r) \/ Insert(r) \/ Select(r)
  \/ Begin(r) \/ Write(r) \/ Audit(r) \/ Commit(r) \/ Acknowledge(r)

Next ==
  \/ \E team \in Teams, user \in Users : Join(team, user)
  \/ \E r \in Requests : \/ \E in \in Inputs : Start(r, in)
                         \/ Progress(r)
                         \/ Fail(r)
  \/ Crash

Spec == Init /\ [][Next]_vars

\* A goroutine that is served runs on; nothing makes a client send a request,
\* a call fail or the process crash.
FairSpec == Spec /\ \A r \in Requests : WF_vars(Progress(r))

-----------------------------------------------------------------------------
(* Properties. *)

\* Every variable keeps its type.
TypeOK ==
  /\ members \subseteq Teams \X Users
  /\ rows \in [Tasks -> Row \cup {NoRow}]
  /\ history \in [Tasks -> Seq(HistoryRow)]
  /\ lock \in [Tasks -> Requests \cup {Free}]
  /\ pc \in [Requests -> {"idle"} \cup InFlight \cup Done]
  /\ req \in [Requests -> Inputs]
  /\ snap \in [Requests -> Content]
  /\ todo \in [Requests -> SUBSET Fields]
  /\ audit \in [Requests -> Seq(HistoryRow)]
  /\ original \in [Tasks -> Content]
  /\ raced \subseteq Tasks

\* Whoever created a task or appears in its audit trail is a member of the
\* task's team: membership is checked calls before the write, and holds still.
AuthorsAreMembers ==
  \A t \in Tasks : rows[t] # NoRow =>
    /\ IsMember(rows[t].team, rows[t].created_by)
    /\ \A i \in DOMAIN history[t] : IsMember(rows[t].team, history[t][i].changed_by)

\* Replaying the first n audit rows of task t over the columns it was created
\* with leaves v in column f.
ReplaysTo(t, f, n, v) ==
  \/ /\ \A i \in 1..n : history[t][i].field # f
     /\ v = original[t][f]
  \/ \E i \in 1..n :
       /\ history[t][i].field = f
       /\ history[t][i].new_value = v
       /\ \A j \in (i + 1)..n : history[t][j].field # f

\* The audit trail alone explains the task: replayed to its end it gives the
\* columns the task has.
Explained(t) == \A f \in Fields : ReplaysTo(t, f, Len(history[t]), rows[t].fields[f])

\* Replayed up to an audit row, the trail gives the old value of that row.
Chained(t) ==
  \A i \in DOMAIN history[t] :
    ReplaysTo(t, history[t][i].field, i - 1, history[t][i].old_value)

\* The trail explains every task, and is a chain, unless an Update overwrote
\* the task blindly: its row changed between the Update's GetByID and UPDATE.
TrailExplainsUnracedTasks ==
  \A t \in Tasks : rows[t] # NoRow /\ t \notin raced => Explained(t) /\ Chained(t)

\* Update "records the changes in task_history": the trail explains every task.
TrailExplainsTasks ==
  \A t \in Tasks : rows[t] # NoRow => Explained(t)

\* Races or not, no column ever holds a value that is neither the one it was
\* created with nor the new value of a committed audit row.
Audited(t, f, v) ==
  \/ v = original[t][f]
  \/ \E i \in DOMAIN history[t] :
       history[t][i].field = f /\ history[t][i].new_value = v

EveryValueAudited ==
  \A t \in Tasks : rows[t] # NoRow =>
    \A f \in Fields : Audited(t, f, rows[t].fields[f])

\* The columns that request r has committed audit rows for.
AuditedBy(r) ==
  {f \in Fields : \E t \in Tasks : \E i \in DOMAIN history[t] :
                    history[t][i].cause = r /\ history[t][i].field = f}

\* An Update is all or nothing, however it ended: acknowledged, all its audit
\* rows are committed; refused or on its way, none is; failed or lost, all or
\* none.
UpdatesAreAtomic ==
  \A r \in Requests :
    /\ pc[r] # "idle" => AuditedBy(r) \in {{}, Changed(r)}
    /\ pc[r] = "ok" /\ req[r].kind = "update" => AuditedBy(r) = Changed(r)
    /\ pc[r] \notin {"ok", "acknowledge", "error", "lost"} => AuditedBy(r) = {}

\* Every request that starts is answered, or lost in a crash: no one waits
\* forever for a row lock or for a connection.
EveryRequestEnds ==
  \A r \in Requests : (pc[r] \in InFlight) ~> (pc[r] \in Done)

-----------------------------------------------------------------------------
\* The requests implement the abstract service: between GetByID and COMMIT,
\* through races, failures and crashes, the tables only ever make its steps.
\* Its tables are the committed ones: the pool, the row lock, what requests hold
\* and what transactions have not committed are hidden.
Abstract == INSTANCE AuditedTasks WITH
              Users <- Users, Teams <- Teams, Tasks <- Tasks, Owner <- Owner,
              Fields <- Fields, NoRow <- NoRow,
              members <- members, rows <- rows, history <- history, original <- original

ImplementsAuditedTasks == Abstract!Spec
=============================================================================
