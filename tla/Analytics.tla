------------------------------ MODULE Analytics ------------------------------
(***************************************************************************)
(* The three reports of AnalyticsRepo over the tables that the other parts *)
(* of the server write: who is a member of what, the tasks, and the audit  *)
(* trail from which TeamStats learns what was done lately.                 *)
(*                                                                         *)
(* A report is one SELECT, an operator on the tables of the moment.  What  *)
(* changes them is cut down to what the reports read: the columns of tasks *)
(* they mention, the audit rows, and the date.  Update keeps its two steps,*)
(* the read and the transaction, since what a report says of a task is     *)
(* only as good as the copy that the last Update was made from.            *)
(***************************************************************************)
EXTENDS TaskTable

CONSTANTS
  Id,          \* [Users -> Nat], the id of each, which orders equal counts
  Owner,       \* [Teams -> Users], who created each team
  DoneStatus,  \* 'done'
  Titles,      \* what a title may read: the word 'done' too
  Keep,        \* the member is absent from the JSON body
  Workers,     \* goroutines serving Update
  Births,      \* the [title, status, assignee_id] that Create is sent
  Patches,     \* the [title, status, assignee_id] that Update is sent
  DoneDays,    \* INTERVAL 7 DAY, in days
  MonthDays,   \* INTERVAL 1 MONTH, in days
  Top,         \* how many creators are listed for each team: 3
  LastDay, MaxHistory,   \* bound the model
  Null         \* what a LEFT JOIN finds when it finds nothing

Birth == [title : Titles, status : Statuses, assignee_id : Assignees]

Patch == [title       : Titles \cup {Keep},
          status      : Statuses \cup {Keep},
          assignee_id : Assignees \cup {Keep}]

ASSUME ConstantsAssumption ==
  /\ IsFiniteSet(Users)
  /\ Id \in [Users -> Nat]
  /\ \A u, v \in Users : Id[u] = Id[v] => u = v
  /\ Owner \in [Teams -> Users]
  /\ DoneStatus \in Statuses
  /\ Births \subseteq Birth
  /\ Patches \subseteq Patch
  /\ DoneDays \in Nat /\ MonthDays \in Nat /\ LastDay \in Nat
  /\ Top \in Nat \ {0}
  /\ MaxTasks \in Nat /\ MaxHistory \in Nat

ASSUME SentinelsAssumption ==
  /\ Nobody \notin Users
  /\ Keep \notin Titles \cup Statuses \cup Assignees
  /\ Null \notin Users \cup (1..MaxTasks) \cup (1..MaxHistory)

VARIABLES
  today,    \* the date by the database's clock
  members,  \* table team_members, as pairs <<team, user>>
  history,  \* table task_history, in the order of insertion
  work,     \* what each worker has in hand: the task it read and its input
  moved,    \* auxiliary: <<id, day>> of each status that became 'done'
  raced     \* auxiliary: ids of rows that an Update wrote from an old copy

vars == <<today, members, tasks, history, work, moved, raced>>

Days == 0..LastDay

Task == [team : Teams, created_by : Users, title : Titles, status : Statuses,
         assignee_id : Assignees, created_at : Days, updated_at : Days]

Fields == {"title", "status", "assignee_id"}

HistoryRow == [task_id : 1..MaxTasks, field : Fields,
               new_value : Titles \cup Statuses \cup Assignees, changed_at : Days]

Idle == [task |-> 0]

Job == [task : 1..MaxTasks, current : Task, patch : Patches]

-----------------------------------------------------------------------------
(* GET /analytics/team-stats *)

Membership(tm) == {u \in Users : <<tm, u>> \in members}
TasksOf(tm)    == {i \in Ids : tasks[i].team = tm}

\* The ON clause of the join with task_history.
DoneRows(i) ==
  {h \in 1..Len(history) : /\ history[h].task_id = i
                           /\ history[h].field = "status"
                           /\ history[h].new_value = DoneStatus
                           /\ history[h].changed_at >= today - DoneDays}

OrNull(S) == IF S = {} THEN {Null} ELSE S

\* The rows that the three LEFT JOINs make of one team: each member is paired
\* with each task, and each task with each of its audit rows.
Joined(tm) ==
  UNION {{[tm |-> m, tk |-> k, th |-> h] :
            m \in OrNull(Membership(tm)),
            h \in IF k = Null THEN {Null} ELSE OrNull(DoneRows(k))}
         : k \in OrNull(TasksOf(tm))}

\* Mutant: COUNT without DISTINCT, the rows of the join are counted.
TeamStatsOfRows ==
  [tm \in Teams |->
     [member_count     |-> Cardinality({r.tm : r \in Joined(tm)} \ {Null}),
      done_last_7_days |-> Cardinality({r \in Joined(tm) : r.th # Null})]]

\* COUNT(DISTINCT ...) skips NULL.
TeamStats ==
  [tm \in Teams |->
     [member_count     |-> Cardinality({r.tm : r \in Joined(tm)} \ {Null}),
      done_last_7_days |->
        Cardinality({r.tk : r \in {j \in Joined(tm) : j.th # Null}})]]

-----------------------------------------------------------------------------
(* GET /analytics/top-creators *)

\* Mutant: the month is that of the last change.
CreatedLatelyByChange(tm, u) ==
  {i \in TasksOf(tm) : /\ tasks[i].created_by = u
                       /\ tasks[i].updated_at >= today - MonthDays}

\* One group of WHERE and GROUP BY.
CreatedLately(tm, u) ==
  {i \in TasksOf(tm) : /\ tasks[i].created_by = u
                       /\ tasks[i].created_at >= today - MonthDays}

\* COUNT(*) of each group; a user without a group has none.
TaskCount ==
  [tm \in Teams |-> [u \in Users |-> Cardinality(CreatedLately(tm, u))]]

\* ORDER BY COUNT(*) DESC, created_by ASC
Above(count, u, v) ==
  count[u] > count[v] \/ (count[u] = count[v] /\ Id[u] < Id[v])

\* ROW_NUMBER() OVER (PARTITION BY team_id ...), of which the first are kept.
Ranked(count) ==
  LET all == OrderBy({u \in Users : count[u] > 0},
                     {p \in Users \X Users : Above(count, p[1], p[2])})
  IN  SubSeq(all, 1, IF Len(all) > Top THEN Top ELSE Len(all))

TopCreators == [tm \in Teams |-> Ranked(TaskCount[tm])]

-----------------------------------------------------------------------------
(* GET /analytics/integrity-issues *)

\* Mutant: NOT EXISTS forgets the team.
IntegrityIssuesOfStrangers ==
  {i \in Ids : /\ tasks[i].assignee_id # Nobody
               /\ \A tm \in Teams : <<tm, tasks[i].assignee_id>> \notin members}

IntegrityIssues ==
  {i \in Ids : /\ tasks[i].assignee_id # Nobody
               /\ <<tasks[i].team, tasks[i].assignee_id>> \notin members}

-----------------------------------------------------------------------------
Init ==
  /\ today = 0
  /\ members = {<<tm, Owner[tm]>> : tm \in Teams}
  /\ tasks = <<>>
  /\ history = <<>>
  /\ work = [w \in Workers |-> Idle]
  /\ moved = {}
  /\ raced = {}

\* AddMember.  Members are never removed.
Join(tm, u) ==
  /\ <<tm, u>> \notin members
  /\ members' = members \cup {<<tm, u>>}
  /\ UNCHANGED <<today, tasks, history, work, moved, raced>>

\* Mutant: an audit row from before LastInsertId.
CreateAudited(tm, u, b) ==
  /\ Len(tasks) < MaxTasks /\ Len(history) < MaxHistory
  /\ <<tm, u>> \in members
  /\ tasks' = Append(tasks, [team |-> tm, created_by |-> u, title |-> b.title,
                             status |-> b.status, assignee_id |-> b.assignee_id,
                             created_at |-> today, updated_at |-> today])
  /\ history' = Append(history, [task_id |-> 0, field |-> "status",
                                 new_value |-> b.status, changed_at |-> today])
  /\ UNCHANGED <<today, members, work, moved, raced>>

\* TaskService.Create: a member of the team, any user as assignee, any status
\* to begin with, and no audit row.
Create(tm, u, b) ==
  /\ Len(tasks) < MaxTasks
  /\ <<tm, u>> \in members
  /\ tasks' = Append(tasks, [team |-> tm, created_by |-> u, title |-> b.title,
                             status |-> b.status, assignee_id |-> b.assignee_id,
                             created_at |-> today, updated_at |-> today])
  /\ UNCHANGED <<today, members, history, work, moved, raced>>

\* The columns that differ from the copy.
Changes(job) ==
  {f \in Fields : job.patch[f] # Keep /\ job.patch[f] # job.current[f]}

AuditRow(job, f) ==
  IF f \in Changes(job)
  THEN <<[task_id |-> job.task, field |-> f, new_value |-> job.patch[f],
          changed_at |-> today]>>
  ELSE <<>>

\* In the order Update examines the columns.
AuditRows(job) ==
  AuditRow(job, "title") \o AuditRow(job, "status") \o AuditRow(job, "assignee_id")

\* TaskService.Update up to its transaction: GetByID, the membership of the
\* caller, which every team has somebody to pass, and the return of a request
\* that changes nothing.
Read(w, i, p) ==
  LET job == [task |-> i, current |-> tasks[i], patch |-> p]
  IN  /\ work[w] = Idle
      /\ i \in Ids
      /\ Changes(job) # {}
      /\ Len(history) + Len(AuditRows(job)) <= MaxHistory
      /\ work' = [work EXCEPT ![w] = job]
      /\ UNCHANGED <<today, members, tasks, history, moved, raced>>

Patched(job, f) == IF job.patch[f] = Keep THEN job.current[f] ELSE job.patch[f]

\* The UPDATE statement writes every column from the copy; updated_at changes
\* with the row.
Overwritten(job, row) ==
  LET new == [row EXCEPT !.title       = Patched(job, "title"),
                         !.status      = Patched(job, "status"),
                         !.assignee_id = Patched(job, "assignee_id")]
  IN  IF new = row THEN row ELSE [new EXCEPT !.updated_at = today]

\* The columns of a row that Update overwrites, whenever they were written.
Content(row) == <<row.title, row.status, row.assignee_id>>

\* UpdateWithHistory, one transaction.
Write(w) ==
  LET job == work[w]
      i   == job.task
      row == tasks[i]
      new == Overwritten(job, row)
  IN  /\ job # Idle
      /\ Len(history) + Len(AuditRows(job)) <= MaxHistory
      /\ tasks' = [tasks EXCEPT ![i] = new]
      /\ history' = history \o AuditRows(job)
      /\ moved' = IF new.status = DoneStatus /\ row.status # DoneStatus
                  THEN moved \cup {<<i, today>>} ELSE moved
      /\ raced' = IF Content(row) # Content(job.current)
                  THEN raced \cup {i} ELSE raced
      /\ work' = [work EXCEPT ![w] = Idle]
      /\ UNCHANGED <<today, members>>

\* The transaction fails and is rolled back, or the process that ran it dies.
Leave(w) ==
  /\ work[w] # Idle
  /\ work' = [work EXCEPT ![w] = Idle]
  /\ UNCHANGED <<today, members, tasks, history, moved, raced>>

\* A request takes less than a day.
Midnight ==
  /\ today < LastDay
  /\ \A w \in Workers : work[w] = Idle
  /\ today' = today + 1
  /\ UNCHANGED <<members, tasks, history, work, moved, raced>>

Next ==
  \/ \E tm \in Teams, u \in Users : Join(tm, u)
  \/ \E tm \in Teams, u \in Users, b \in Births : Create(tm, u, b)
  \/ \E w \in Workers, i \in 1..MaxTasks, p \in Patches : Read(w, i, p)
  \/ \E w \in Workers : Write(w) \/ Leave(w)
  \/ Midnight

Spec == Init /\ [][Next]_vars

-----------------------------------------------------------------------------
\* Types, and: an audit row is of a task there is.
TypeOK ==
  /\ today \in Days
  /\ members \subseteq Teams \X Users
  /\ tasks \in Seq(Task) /\ Len(tasks) <= MaxTasks
  /\ history \in Seq(HistoryRow) /\ Len(history) <= MaxHistory
  /\ \A h \in 1..Len(history) : history[h].task_id \in Ids
  /\ work \in [Workers -> Job \cup {Idle}]
  /\ \A w \in Workers : work[w] = Idle \/ work[w].task \in Ids
  /\ moved \subseteq Ids \X Days
  /\ raced \subseteq Ids

\* The tasks of a team whose status became 'done' within the window, by what
\* the tables went through and not by what the trail says of it.
MovedLately(tm) ==
  {i \in TasksOf(tm) : \E d \in Days : <<i, d>> \in moved /\ d >= today - DoneDays}

\* TeamStats counts each member once and each task that was moved to done in
\* the last days once, however many members, tasks and audit rows the joins
\* multiply: a task that was reopened counts, one that was edited since counts
\* by the day of the move, one born done or titled 'done' does not.  Where an
\* Update wrote a row it had not read the trail may be wrong either way, by
\* those tasks at most.
StatsCountMoves ==
  \A tm \in Teams :
    LET stats == TeamStats[tm]
        doubt == TasksOf(tm) \cap raced
    IN  /\ stats.member_count = Cardinality(Membership(tm))
        /\ stats.done_last_7_days >= Cardinality(MovedLately(tm) \ doubt)
        /\ stats.done_last_7_days <= Cardinality(MovedLately(tm) \cup doubt)

\* TopCreators lists nobody without a task of the month, nobody twice and no
\* more than it may, and whoever it leaves out has created fewer tasks than each
\* of those listed, or as many and came later.
TopCreatorsAreTop ==
  \A tm \in Teams :
    LET top    == TopCreators[tm]
        listed == {top[k] : k \in 1..Len(top)}
        made(u) == Cardinality({i \in Ids : /\ tasks[i].team = tm
                                            /\ tasks[i].created_by = u
                                            /\ today - tasks[i].created_at <= MonthDays})
    IN  /\ Len(top) <= Top /\ Cardinality(listed) = Len(top)
        /\ \A u \in listed : made(u) > 0
        /\ \A v \in Users \ listed :
             made(v) > 0 => /\ Len(top) = Top
                            /\ \A u \in listed : \/ made(u) > made(v)
                                                 \/ made(u) = made(v) /\ Id[u] < Id[v]
        /\ \A j, k \in 1..Len(top) : j < k => made(top[j]) >= made(top[k])

\* What was created counts for the creator until the month is over, whatever is
\* done to it since: only a new task or a new day changes the ranks.
RanksIgnoreEdits ==
  [][TopCreators' # TopCreators => Len(tasks') > Len(tasks) \/ today' > today]_vars

\* A task is reported as assigned to an outsider from the write that assigned
\* it, by a request that named the outsider or one that wrote a row it had not
\* read, and for as long as that user is not in the task's team: no other
\* task's write, no other team's membership and no passing of time changes it.
IssuesHaveCauses ==
  [][/\ \A i \in IntegrityIssues' \ IntegrityIssues :
          \/ i \notin Ids
          \/ \E w \in Workers :
               /\ work[w] # Idle /\ work'[w] = Idle /\ work[w].task = i
               /\ \/ work[w].patch.assignee_id = tasks'[i].assignee_id
                  \/ i \in raced'
     /\ \A i \in IntegrityIssues \ IntegrityIssues' :
          \/ tasks'[i].assignee_id # tasks[i].assignee_id
          \/ /\ <<tasks[i].team, tasks[i].assignee_id>> \in members'
             /\ <<tasks[i].team, tasks[i].assignee_id>> \notin members]_vars
=============================================================================
