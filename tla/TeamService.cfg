CONSTANTS
  Requests = {r1, r2, r3, r4}
  u1 = u1
  u2 = u2
  u3 = u3
  Users = {u1, u2, u3}
  Teams = {t1}
  Inputs <- MCInputs
  Nobody = Nobody
  NoRole = NoRole
  NoTeam = NoTeam
SYMMETRY Symmetry
CHECK_DEADLOCK FALSE
SPECIFICATION Spec
INVARIANTS
  TypeOK
  AnswersHold
  MailedOnce
  SilentMembersAreReported
PROPERTY ImplementsTeamMembership
