---------------------------- MODULE TeamMembership ----------------------------
(***************************************************************************)
(* What the team service promises about memberships: a team appears        *)
(* together with its one owner, its creator; a manager of the team may     *)
(* make a user who is not a member an admin or a member; and no membership *)
(* ever changes or goes away.                                              *)
(***************************************************************************)
CONSTANTS
  Users, Teams,
  Nobody,    \* no user: the creator of a team that does not exist
  NoRole     \* the role of a user who is not a member

VARIABLES
  teams,     \* the creator of each team, or Nobody
  members,   \* members[t][u], the role of user u in team t
  granter    \* granter[t][u], the user who made u a member of t, or Nobody

vars == <<teams, members, granter>>

Managers(t) == {u \in Users : members[t][u] \in {"owner", "admin"}}

Init ==
  /\ teams = [t \in Teams |-> Nobody]
  /\ members = [t \in Teams |-> [u \in Users |-> NoRole]]
  /\ granter = [t \in Teams |-> [u \in Users |-> Nobody]]

\* User `by` gives a user who has none a role in team t.
Grant(t, by, user, role) ==
  /\ members[t][user] = NoRole
  /\ members' = [members EXCEPT ![t][user] = role]
  /\ granter' = [granter EXCEPT ![t][user] = by]

\* A user creates team t, which nobody is a member of, and owns it.
Found(t, user) ==
  /\ teams[t] = Nobody
  /\ \A u \in Users : members[t][u] = NoRole
  /\ teams' = [teams EXCEPT ![t] = user]
  /\ Grant(t, user, user, "owner")

\* A manager of team t lets a user in.
Invite(t, by, user, role) ==
  /\ by \in Managers(t)
  /\ Grant(t, by, user, role)
  /\ UNCHANGED teams

Next ==
  \E t \in Teams, user \in Users :
    \/ Found(t, user)
    \/ \E by \in Users, role \in {"admin", "member"} : Invite(t, by, user, role)

Spec == Init /\ [][Next]_vars
=============================================================================
