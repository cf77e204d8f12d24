---------------------------- MODULE MCTeamService ----------------------------
(***************************************************************************)
(* A small instance of TeamService: u1 founds a team; invitations race for *)
(* the same user with different roles, come from an admin who was invited, *)
(* from someone who may be a plain member by then, for the owner, and      *)
(* with a role that is none.                                               *)
(***************************************************************************)
EXTENDS TeamService, TLC

CONSTANTS u1, u2, u3

Found(actor, blank) == [kind |-> "create", actor |-> actor, blank |-> blank]

Ask(actor, invitee, role, team) ==
  [kind |-> "invite", actor |-> actor, team |-> team, invitee |-> invitee, role |-> role]

MCInputs ==
  {Found(u1, FALSE), Found(u2, TRUE)} \cup
  UNION {{Ask(u1, u2, "admin", t), Ask(u1, u2, "", t), Ask(u2, u3, "member", t),
          Ask(u2, u1, "member", t), Ask(u3, u2, "member", t),
          Ask(u2, u3, "owner", t), Ask(u1, u3, "other", t)} : t \in Teams}

Symmetry == Permutations(Requests)
=============================================================================
