----------------------------- MODULE AuditedTasks -----------------------------
(***************************************************************************)
(* What the write side of the task service promises, without requests,     *)
(* transactions or failures: a task is created whole by a member of its    *)
(* team, and from then on it only changes by amendments.  An amendment is  *)
(* one step of one current member; it appends at least one audit row,      *)
(* carries out every audit row it appends, and leaves the other columns    *)
(* alone or, when it overwrote a row that changed under it, puts back a    *)
(* value they held before.  Tasks, authors and audit rows never go away.   *)
(***************************************************************************)
EXTENDS Naturals, Sequences

CONSTANTS
  Users, Teams, Tasks,
  Owner,     \* [Teams -> Users], who created each team
  Fields,    \* the columns of a task that can be amended
  NoRow      \* no row with this id

VARIABLES
  members,   \* the pairs <<team, user>> that are memberships
  rows,      \* the row of each task, or NoRow
  history,   \* the audit rows of each task, oldest first
  original   \* the columns each task was created with

vars == <<members, rows, history, original>>

IsMember(team, user) == <<team, user>> \in members

\* The values column f of task t has held, read off the audit trail.
Held(t, f) ==
  {original[t][f]} \cup
  {history[t][i].new_value : i \in {j \in DOMAIN history[t] : history[t][j].field = f}}

-----------------------------------------------------------------------------
Init ==
  /\ members = {<<team, Owner[team]>> : team \in Teams}
  /\ \A t \in Tasks : rows[t] = NoRow /\ history[t] = <<>>

Join(team, user) ==
  /\ members' = members \cup {<<team, user>>}
  /\ UNCHANGED <<rows, history, original>>

\* A member creates task t: its row is what it was created with.
Create(t) ==
  /\ rows[t] = NoRow
  /\ rows'[t] # NoRow
  /\ IsMember(rows'[t].team, rows'[t].created_by)
  /\ original'[t] = rows'[t].fields
  /\ \A u \in Tasks \ {t} : rows'[u] = rows[u] /\ original'[u] = original[u]
  /\ UNCHANGED <<members, history>>

\* The audit rows that a step appends to the trail of task t.
Appended(t) == SubSeq(history'[t], Len(history[t]) + 1, Len(history'[t]))

AuditedFields(added) == {added[i].field : i \in DOMAIN added}

\* One member appends audit rows, at most one for a column, and the task's
\* columns hold what they say.
Amend(t, user, added) ==
  /\ rows[t] # NoRow
  /\ IsMember(rows[t].team, user)
  /\ added # <<>>
  /\ history' = [history EXCEPT ![t] = @ \o added]
  /\ \A i \in DOMAIN added :
       /\ added[i].changed_by = user
       /\ rows'[t].fields[added[i].field] = added[i].new_value
       /\ \A j \in DOMAIN added : added[i].field = added[j].field => i = j
  /\ \A f \in Fields \ AuditedFields(added) : rows'[t].fields[f] \in Held(t, f)
  /\ rows'[t].team = rows[t].team /\ rows'[t].created_by = rows[t].created_by
  /\ \A u \in Tasks \ {t} : rows'[u] = rows[u]
  /\ UNCHANGED <<members, original>>

Next ==
  \/ \E team \in Teams, user \in Users : Join(team, user)
  \/ \E t \in Tasks : Create(t) \/ \E user \in Users : Amend(t, user, Appended(t))

Spec == Init /\ [][Next]_vars
=============================================================================
