------------------------------ MODULE TaskTable ------------------------------
(***************************************************************************)
(* Table tasks as those see it that read it in order: the list of GET      *)
(* /tasks (TaskPages) and the reports (Analytics).  Each of them says      *)
(* which columns a row has for it.                                         *)
(***************************************************************************)
EXTENDS Integers, Sequences, FiniteSets

CONSTANTS
  Users,     \* table users
  Teams,     \* ids in table teams
  Statuses,  \* the enum of tasks.status
  Nobody,    \* assignee_id NULL
  MaxTasks   \* bounds the table

VARIABLE
  tasks      \* the row of each id, in the order of creation; none is deleted

Assignees == Users \cup {Nobody}

Ids == 1..Len(tasks)

-----------------------------------------------------------------------------
(* ORDER BY.  The order is a set of pairs, the first before the second.    *)

\* ROW_NUMBER(): the place of x among the elements of S.
RowNumber(S, order, x) == Cardinality({y \in S : <<y, x>> \in order}) + 1

OrderBy(S, order) ==
  [n \in 1..Cardinality(S) |-> CHOOSE x \in S : RowNumber(S, order, x) = n]
=============================================================================
