---------------------------- MODULE MCTaskPages ----------------------------
(***************************************************************************)
(* Somebody pages through the open tasks of a team, by a limit beyond the *)
(* maximum; others ask for their own of them, in the same pages or with    *)
(* numbers that are none or negative, for the tasks of a team that has     *)
(* none, and for what they may not have or forgot to say.                  *)
(***************************************************************************)
EXTENDS TaskPages

CONSTANTS u1, stranger

MCMembers == {<<1, u1>>, <<2, u1>>}

Ask(team, status, assignee, limit, offset) ==
  [user |-> u1, team |-> team, status |-> status, assignee |-> assignee,
   limit |-> limit, offset |-> offset]

MCWalks == {Ask(1, "todo", Missing, MaxLimit + 1, 0)}

MCQueries ==
  {[w EXCEPT !.offset = o] : w \in MCWalks, o \in 0..MaxTasks} \cup
  {Ask(1, "todo", u1, MaxLimit, -1),
   Ask(2, Missing, Missing, Junk, Junk),
   [Ask(2, Missing, Missing, Junk, Junk) EXCEPT !.user = stranger],
   Ask(1, Junk, Missing, Missing, Missing),
   Ask(1, Missing, Junk, Missing, Missing),
   Ask(0, Missing, Missing, Missing, Missing),
   Ask(Missing, Missing, Missing, Missing, Missing)}

MCNewRows == {[team |-> 1, status |-> "todo", assignee_id |-> Nobody]}
=============================================================================
