---------------------------- MODULE MCTaskWrites ----------------------------
(***************************************************************************)
(* A small instance of TaskWrites: one team whose owner u1 may be joined   *)
(* by u2, and inputs that touch the same column, different columns, two    *)
(* columns at once, an assignee that does not exist, and invalid bodies.   *)
(***************************************************************************)
EXTENDS TaskWrites, TLC

CONSTANTS u1, u2, stranger, team1, task1

MCOwner == [t \in Teams |-> u1]

Same == [title |-> Keep, description |-> Keep, status |-> Keep, assignee_id |-> Keep]

Send(kind, actor, patch) ==
  [kind |-> kind, actor |-> actor, team |-> team1, task |-> task1, patch |-> patch]

MCInputs ==
  {Send("create", u1, [Same EXCEPT !.title = "title1"]),
   Send("create", u2, [Same EXCEPT !.title = "title1", !.assignee_id = u1]),
   Send("create", u1, [Same EXCEPT !.title = "title1", !.assignee_id = stranger]),
   Send("update", u1, [Same EXCEPT !.title = "title1", !.status = "done"]),
   Send("update", u2, [Same EXCEPT !.title = "title2"]),
   Send("update", u1, [Same EXCEPT !.description = "text", !.assignee_id = Nobody]),
   Send("update", u2, [Same EXCEPT !.assignee_id = stranger]),
   Send("update", u2, [Same EXCEPT !.title = Invalid]),
   Send("history", u2, Same)}

RequestSymmetry == Permutations(Requests)
=============================================================================
