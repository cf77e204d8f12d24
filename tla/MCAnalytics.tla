---------------------------- MODULE MCAnalytics ----------------------------
(***************************************************************************)
(* Two teams of one owner, which another user may join.  A task is born    *)
(* open, or done, titled 'done' and given to one who may be an outsider;   *)
(* it is moved to done, reopened, or given away and titled 'done'.         *)
(***************************************************************************)
EXTENDS Analytics, TLC

CONSTANTS u1, u2, team1, team2

MCId == [u \in Users |-> IF u = u1 THEN 1 ELSE 2]

MCOwner == [tm \in Teams |-> u1]

MCBirths ==
  {[title |-> "text", status |-> "todo", assignee_id |-> Nobody],
   [title |-> "done", status |-> "done", assignee_id |-> u2]}

Same == [title |-> Keep, status |-> Keep, assignee_id |-> Keep]

MCPatches ==
  {[Same EXCEPT !.status = "done"],
   [Same EXCEPT !.status = "todo"],
   [Same EXCEPT !.title = "done", !.assignee_id = u1]}

WorkerSymmetry == Permutations(Workers)
=============================================================================
