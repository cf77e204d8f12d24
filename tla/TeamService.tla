----------------------------- MODULE TeamService -----------------------------
(***************************************************************************)
(* TeamService over TeamRepo, UserRepo and the mailer: Create and Invite   *)
(* requests served concurrently, each by its own goroutine.                *)
(*                                                                         *)
(* Each database call is a step, with other requests' calls in between.    *)
(* Create inserts the team and its owner in one transaction: what it has   *)
(* inserted is visible to nobody before COMMIT.  Invite is not one         *)
(* transaction: it reads the inviter's role, looks the invitee up, inserts *)
(* the membership, and then sends an email.  Any call may fail, the answer *)
(* to a write may be lost, and the process may crash.                      *)
(*                                                                         *)
(* The mailer is seen as one call that sends or does not: its circuit      *)
(* breaker is the subject of module EmailBreaker.                          *)
(***************************************************************************)
EXTENDS Naturals, FiniteSets

CONSTANTS
  Requests,     \* HTTP requests, each served once; bounds the model
  Users,        \* the users there may be, each with an email of its own
  Teams,        \* ids that table teams may give to a row; bounds the model
  Inputs,       \* what clients send; bounds the model
  Nobody,       \* no user
  NoRole,       \* no row in team_members
  NoTeam        \* no id has been given to a request's team

\* The roles of domain.Role, and those a client may send: Role("") stands for
\* a member without one, and "other" for any text that is not a role.
Roles     == {"owner", "admin", "member"}
SentRoles == Roles \cup {"", "other"}

Input ==
  [kind : {"create"}, actor : Users, blank : BOOLEAN] \cup
  [kind : {"invite"}, actor : Users, team : Teams, invitee : Users, role : SentRoles]

ASSUME ConstantsAssumption ==
  /\ Inputs \subseteq Input
  /\ Nobody \notin Users
  /\ NoRole \notin Roles
  /\ NoTeam \notin Teams

VARIABLES
  users,     \* table users
  teams,     \* table teams: the creator of each committed team, or Nobody
  members,   \* table team_members, committed: members[t][u] is a role or NoRole
  new,       \* the id that each Create was given for its team
  pc,        \* what each request does next, or how it ended
  req,       \* the input of each request
  mails,     \* how many invitations to a team each user was sent
  granter    \* auxiliary: the actor who made a user a member

tables == <<users, teams, members, granter>>
vars == <<users, teams, members, new, pc, req, mails, granter>>

AtDatabase == {"insertTeam", "insertOwner", "commit", "acknowledge",
               "getMember", "getByEmail", "addMember"}
InFlight   == AtDatabase \cup {"mail"}

\* How a request ends, by its status: 201, 204, 202, 400, 403, 409, 500, and
\* no answer at all.
Done == {"created", "invited", "warned", "invalid", "forbidden", "conflict",
         "error", "lost"}

Goto(r, phase) == pc' = [pc EXCEPT ![r] = phase]

\* InviteInput: a missing role is that of a member.
RoleOf(in) == IF in.role = "" THEN "member" ELSE in.role

\* Mutant: Role.Valid is not called.
GrantableUnchecked(role) == role # "owner"

\* Role.Valid, and not RoleOwner.
Grantable(role) == role \in Roles /\ role # "owner"

CanManageMembers(role) == role \in {"owner", "admin"}

\* Ids that AUTO_INCREMENT has not given: it gives no id twice, whether the
\* transaction that was given it commits or not.
NextIds == {t \in Teams : \A r \in Requests : new[r] # t}

-----------------------------------------------------------------------------
Init ==
  /\ users \in SUBSET Users
  /\ teams = [t \in Teams |-> Nobody]
  /\ members = [t \in Teams |-> [u \in Users |-> NoRole]]
  /\ new = [r \in Requests |-> NoTeam]
  /\ pc = [r \in Requests |-> "idle"]
  /\ req \in [Requests -> Inputs]
  /\ mails = [t \in Teams |-> [u \in Users |-> 0]]
  /\ granter = [t \in Teams |-> [u \in Users |-> Nobody]]

\* A registration (AuthService.Register); nothing removes a user.
Register(user) ==
  /\ user \notin users
  /\ users' = users \cup {user}
  /\ UNCHANGED <<teams, members, new, pc, req, mails, granter>>

\* A handler calls TeamService with an authenticated actor.  What is wrong
\* with the body itself is found before any call.
Start(r) ==
  /\ pc[r] = "idle"
  /\ req[r].actor \in users
  /\ Goto(r, IF req[r].kind = "create"
             THEN IF req[r].blank THEN "invalid" ELSE "insertTeam"
             ELSE IF Grantable(RoleOf(req[r])) THEN "getMember" ELSE "invalid")
  /\ UNCHANGED <<tables, new, req, mails>>

-----------------------------------------------------------------------------
(* Create: TeamRepo.CreateWithOwner. *)

\* BEGIN, INSERT INTO teams and LastInsertId.
InsertTeam(r) ==
  /\ pc[r] = "insertTeam"
  /\ \E t \in NextIds : new' = [new EXCEPT ![r] = t]
  /\ Goto(r, "insertOwner")
  /\ UNCHANGED <<tables, req, mails>>

\* INSERT INTO team_members: it refers to the team's row of this transaction,
\* and no other request can have a row for a team that it does not see.
InsertOwner(r) ==
  /\ pc[r] = "insertOwner"
  /\ Goto(r, "commit")
  /\ UNCHANGED <<tables, new, req, mails>>

\* A row of team_members, with the actor whose request wrote it.
Grant(t, by, user, role) ==
  /\ members' = [members EXCEPT ![t][user] = role]
  /\ granter' = [granter EXCEPT ![t][user] = by]

Commit(r) ==
  /\ pc[r] = "commit"
  /\ teams' = [teams EXCEPT ![new[r]] = req[r].actor]
  /\ Grant(new[r], req[r].actor, req[r].actor, "owner")
  /\ Goto(r, "acknowledge")
  /\ UNCHANGED <<users, new, req, mails>>

Acknowledge(r) ==
  /\ pc[r] = "acknowledge"
  /\ Goto(r, "created")
  /\ UNCHANGED <<tables, new, req, mails>>

-----------------------------------------------------------------------------
(* Invite. *)

\* Mutant: any member may invite.
GetMemberOfAnyRole(r) ==
  /\ pc[r] = "getMember"
  /\ Goto(r, IF members[req[r].team][req[r].actor] # NoRole
             THEN "getByEmail" ELSE "forbidden")
  /\ UNCHANGED <<tables, new, req, mails>>

\* TeamRepo.GetMember: the inviter's role decides.
GetMember(r) ==
  /\ pc[r] = "getMember"
  /\ Goto(r, IF CanManageMembers(members[req[r].team][req[r].actor])
             THEN "getByEmail" ELSE "forbidden")
  /\ UNCHANGED <<tables, new, req, mails>>

\* UserRepo.GetByEmail
GetByEmail(r) ==
  /\ pc[r] = "getByEmail"
  /\ Goto(r, IF req[r].invitee \in users THEN "addMember" ELSE "invalid")
  /\ UNCHANGED <<tables, new, req, mails>>

\* Mutant: ON DUPLICATE KEY UPDATE role.
AddOrChangeMember(r) ==
  /\ pc[r] = "addMember"
  /\ Grant(req[r].team, req[r].actor, req[r].invitee, RoleOf(req[r]))
  /\ Goto(r, "mail")
  /\ UNCHANGED <<users, teams, new, req, mails>>

\* Mutant: INSERT IGNORE, a second row for the user is no error.
AddMemberOnce(r) ==
  /\ pc[r] = "addMember"
  /\ IF members[req[r].team][req[r].invitee] = NoRole
     THEN Grant(req[r].team, req[r].actor, req[r].invitee, RoleOf(req[r]))
     ELSE UNCHANGED <<members, granter>>
  /\ Goto(r, "mail")
  /\ UNCHANGED <<users, teams, new, req, mails>>

\* TeamRepo.AddMember: the primary key refuses a second row for the user.
AddMember(r) ==
  /\ pc[r] = "addMember"
  /\ IF members[req[r].team][req[r].invitee] = NoRole
     THEN /\ Grant(req[r].team, req[r].actor, req[r].invitee, RoleOf(req[r]))
          /\ Goto(r, "mail")
     ELSE Goto(r, "conflict") /\ UNCHANGED <<members, granter>>
  /\ UNCHANGED <<users, teams, new, req, mails>>

\* SendInvite, once AddMember has returned.
Send(r) ==
  /\ pc[r] = "mail"
  /\ mails' = [mails EXCEPT ![req[r].team][req[r].invitee] = @ + 1]
  /\ Goto(r, "invited")
  /\ UNCHANGED <<tables, new, req>>

\* Mutant: the error of SendInvite is only logged.
SendFailsSilently(r) ==
  /\ pc[r] = "mail"
  /\ Goto(r, "invited")
  /\ UNCHANGED <<tables, new, req, mails>>

\* The email service refuses, or its circuit is open: ErrEmailFailed.
SendFails(r) ==
  /\ pc[r] = "mail"
  /\ Goto(r, "warned")
  /\ UNCHANGED <<tables, new, req, mails>>

-----------------------------------------------------------------------------
(* Failures. *)

\* A database call returns an error, and Create's transaction is rolled back:
\* nothing of it is in the tables before COMMIT.  At "acknowledge" and "mail"
\* it is the answer to a COMMIT or INSERT that took effect that is lost.
Fail(r) ==
  /\ pc[r] \in InFlight
  /\ Goto(r, "error")
  /\ UNCHANGED <<tables, new, req, mails>>

Crash ==
  /\ \E r \in Requests : pc[r] \in InFlight
  /\ pc' = [r \in Requests |-> IF pc[r] \in InFlight THEN "lost" ELSE pc[r]]
  /\ UNCHANGED <<tables, new, req, mails>>

Next ==
  \/ \E user \in Users : Register(user)
  \/ \E r \in Requests :
       \/ Start(r)
       \/ InsertTeam(r) \/ InsertOwner(r) \/ Commit(r) \/ Acknowledge(r)
       \/ GetMember(r) \/ GetByEmail(r) \/ AddMember(r) \/ Send(r) \/ SendFails(r)
       \/ Fail(r)
  \/ Crash

Spec == Init /\ [][Next]_vars

-----------------------------------------------------------------------------
(* Properties. *)

\* Every variable keeps its type.
TypeOK ==
  /\ users \subseteq Users
  /\ teams \in [Teams -> Users \cup {Nobody}]
  /\ members \in [Teams -> [Users -> Roles \cup {NoRole}]]
  /\ new \in [Requests -> Teams \cup {NoTeam}]
  /\ pc \in [Requests -> {"idle"} \cup InFlight \cup Done]
  /\ req \in [Requests -> Inputs]
  /\ mails \in [Teams -> [Users -> Nat]]
  /\ granter \in [Teams -> [Users -> Users \cup {Nobody}]]

\* A team has one owner at all times, its creator, and there is no membership
\* of a team that does not exist: whatever crashes or fails, a team is never
\* seen without the owner who can invite to it.
OneOwner ==
  \A t \in Teams :
    IF teams[t] = Nobody
    THEN \A u \in Users : members[t][u] = NoRole
    ELSE \A u \in Users : members[t][u] = "owner" <=> u = teams[t]

\* A 204 or a 202 keeps its word: the invitee has the role that this request
\* asked for, however many requests invite the same user with other roles.
AnswersHold ==
  \A r \in Requests : pc[r] \in {"mail", "invited", "warned"} =>
    members[req[r].team][req[r].invitee] = RoleOf(req[r])

\* A user is sent at most one invitation to a team, and only as a member of it
\* who was invited: never for a refused or repeated request.
MailedOnce ==
  \A t \in Teams, u \in Users :
    mails[t][u] <= IF members[t][u] \in {"admin", "member"} THEN 1 ELSE 0

\* A member who was let in without an invitation is accounted for: a request of
\* the one who let the member in, for the role that the member has, is still to
\* send it, was answered 202 or 500, or was lost.
Unmailed(r) == pc[r] \in {"mail", "warned", "error", "lost"}

SilentMembersAreReported ==
  \A t \in Teams, u \in Users :
    members[t][u] \in {"admin", "member"} /\ mails[t][u] = 0 =>
      \E r \in Requests :
        /\ req[r].kind = "invite" /\ req[r].team = t /\ req[r].invitee = u
        /\ req[r].actor = granter[t][u] /\ RoleOf(req[r]) = members[t][u]
        /\ Unmailed(r)

\* The tables only ever make the steps of the abstract service, although the
\* inviter's role is read several calls before the membership is written.
Abstract == INSTANCE TeamMembership WITH
              Users <- Users, Teams <- Teams, Nobody <- Nobody, NoRole <- NoRole,
              teams <- teams, members <- members, granter <- granter

ImplementsTeamMembership == Abstract!Spec
=============================================================================
