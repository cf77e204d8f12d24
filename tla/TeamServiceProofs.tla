-------------------------- MODULE TeamServiceProofs --------------------------
(***************************************************************************)
(* Theorems about TeamService, for any users, teams, requests and inputs.  *)
(***************************************************************************)
EXTENDS TeamService, TLAPS

\* The phases of an Invite, before and after its membership is written.
Inviting == {"getMember", "getByEmail", "addMember"}
Invited  == {"mail", "invited", "warned"}

\* A Create that has an id for its team has it alone, until it commits.
TeamInv ==
  /\ \A r \in Requests : pc[r] \in {"insertTeam", "insertOwner", "commit"} =>
       req[r].kind = "create"
  /\ \A r \in Requests : pc[r] \in {"idle", "insertTeam"} => new[r] = NoTeam
  /\ \A r \in Requests : pc[r] \in {"insertOwner", "commit"} =>
       new[r] \in Teams /\ teams[new[r]] = Nobody
  /\ \A r, q \in Requests : new[r] = new[q] /\ new[r] # NoTeam => r = q
  /\ \A t \in Teams : teams[t] # Nobody => \E r \in Requests : new[r] = t

\* An Invite past its checks is still authorized, and one that has written its
\* membership still finds it there.
InviteInv ==
  /\ \A r \in Requests : pc[r] \in Inviting \cup Invited =>
       req[r].kind = "invite" /\ Grantable(RoleOf(req[r]))
  /\ \A r \in Requests : pc[r] \in {"getByEmail", "addMember"} =>
       CanManageMembers(members[req[r].team][req[r].actor])
  /\ \A r \in Requests : pc[r] \in Invited =>
       members[req[r].team][req[r].invitee] = RoleOf(req[r])

\* Only one request is ever about to send a user an invitation to a team.
MailInv ==
  /\ \A r \in Requests : pc[r] = "mail" => mails[req[r].team][req[r].invitee] = 0
  /\ \A r, q \in Requests :
       /\ pc[r] = "mail" /\ pc[q] = "mail"
       /\ req[r].team = req[q].team /\ req[r].invitee = req[q].invitee
       => r = q

Inv == TypeOK /\ OneOwner /\ TeamInv /\ InviteInv /\ MailInv /\ MailedOnce

\* What is in an input, by its kind.
LEMMA InputType ==
  ASSUME TypeOK, NEW r \in Requests
  PROVE  /\ req[r].kind \in {"create", "invite"}
         /\ req[r].actor \in Users
         /\ req[r].kind = "invite" =>
              req[r].team \in Teams /\ req[r].invitee \in Users /\ req[r].role \in SentRoles
BY ConstantsAssumption DEF TypeOK, Input

LEMMA InitInv == Init => Inv
<1> SUFFICES ASSUME Init PROVE Inv
  OBVIOUS
<1>1. TypeOK
  BY DEF Init, TypeOK
<1>2. OneOwner /\ TeamInv /\ InviteInv /\ MailInv /\ MailedOnce
  BY DEF Init, OneOwner, TeamInv, InviteInv, MailInv, MailedOnce, Inviting, Invited
<1> QED
  BY <1>1, <1>2 DEF Inv

\* A step that writes no table and sends no mail, and takes one request to
\* where what the invariant says of it is known already.
LEMMA MoveInv ==
  ASSUME Inv, NEW r \in Requests, NEW phase \in InFlight \cup Done,
         pc' = [pc EXCEPT ![r] = phase],
         UNCHANGED <<users, teams, members, granter, new, req, mails>>,
         phase \notin {"insertOwner", "mail"},
         phase = "insertTeam" => pc[r] = "idle" /\ req[r].kind = "create",
         phase = "commit" => pc[r] = "insertOwner",
         phase = "getMember" => req[r].kind = "invite" /\ Grantable(RoleOf(req[r])),
         phase = "getByEmail" =>
           pc[r] = "getMember" /\ CanManageMembers(members[req[r].team][req[r].actor]),
         phase = "addMember" => pc[r] = "getByEmail",
         phase \in {"invited", "warned"} => pc[r] = "mail"
  PROVE  Inv'
<1>1. pc'[r] = phase /\ \A q \in Requests \ {r} : pc'[q] = pc[q]
  BY DEF Inv, TypeOK
<1>2. TypeOK'
  BY DEF Inv, TypeOK
<1>3. OneOwner' /\ MailedOnce'
  BY DEF Inv, OneOwner, MailedOnce
<1>4. TeamInv'
  <2>1. phase # "idle"
    BY DEF InFlight, AtDatabase, Done
  <2> QED
    BY <1>1, <2>1 DEF Inv, TeamInv
<1>5. InviteInv'
  <2>1. \A q \in Requests : pc'[q] \in Inviting \cup Invited =>
          req[q].kind = "invite" /\ Grantable(RoleOf(req[q]))
    BY <1>1 DEF Inv, InviteInv, Inviting, Invited
  <2>2. \A q \in Requests : pc'[q] \in {"getByEmail", "addMember"} =>
          CanManageMembers(members[req[q].team][req[q].actor])
    BY <1>1 DEF Inv, InviteInv
  <2>3. \A q \in Requests : pc'[q] \in Invited =>
          members[req[q].team][req[q].invitee] = RoleOf(req[q])
    BY <1>1 DEF Inv, InviteInv, Invited
  <2> QED
    BY <2>1, <2>2, <2>3 DEF InviteInv
<1>6. MailInv'
  BY <1>1 DEF Inv, MailInv
<1> QED
  BY <1>2, <1>3, <1>4, <1>5, <1>6 DEF Inv

LEMMA StartInv ==
  ASSUME Inv, NEW r \in Requests, Start(r)
  PROVE  Inv'
<1>1. req[r].kind \in {"create", "invite"}
  BY InputType DEF Inv
<1>2. PICK phase \in {"invalid", "insertTeam", "getMember"} :
        /\ pc' = [pc EXCEPT ![r] = phase]
        /\ phase = "insertTeam" => req[r].kind = "create"
        /\ phase = "getMember" => req[r].kind = "invite" /\ Grantable(RoleOf(req[r]))
  <2>1. CASE req[r].kind = "create"
    BY <2>1 DEF Start, Goto
  <2>2. CASE req[r].kind = "invite"
    BY <2>2 DEF Start, Goto
  <2> QED
    BY <1>1, <2>1, <2>2
<1>3. pc[r] = "idle" /\ UNCHANGED <<users, teams, members, granter, new, req, mails>>
  BY DEF Start, tables
<1>4. phase \in InFlight \cup Done
  BY DEF InFlight, AtDatabase, Done
<1> QED
  BY <1>2, <1>3, <1>4, MoveInv

\* The id is nobody else's, so its team does not exist yet.
LEMMA InsertTeamInv ==
  ASSUME Inv, NEW r \in Requests, InsertTeam(r)
  PROVE  Inv'
<1>1. PICK t \in NextIds : new' = [new EXCEPT ![r] = t]
  BY DEF InsertTeam
<1>2. /\ pc[r] = "insertTeam" /\ pc' = [pc EXCEPT ![r] = "insertOwner"]
      /\ UNCHANGED <<users, teams, members, granter, req, mails>>
      /\ t \in Teams /\ \A q \in Requests : new[q] # t
  BY DEF InsertTeam, Goto, tables, NextIds
<1>3. pc'[r] = "insertOwner" /\ new'[r] = t
      /\ \A q \in Requests \ {r} : pc'[q] = pc[q] /\ new'[q] = new[q]
  BY <1>1, <1>2 DEF Inv, TypeOK
<1>4. TypeOK'
  BY <1>1, <1>2 DEF Inv, TypeOK, InFlight, AtDatabase
<1>5. OneOwner' /\ MailedOnce'
  BY <1>2 DEF Inv, OneOwner, MailedOnce
<1>6. TeamInv'
  <2>1. teams[t] = Nobody
    BY <1>2 DEF Inv, TeamInv
  <2>2. new[r] = NoTeam
    BY <1>2 DEF Inv, TeamInv
  <2>3. \A q \in Requests : pc'[q] \in {"insertTeam", "insertOwner", "commit"} =>
          req[q].kind = "create"
    BY <1>2, <1>3 DEF Inv, TeamInv
  <2>4. \A q \in Requests : pc'[q] \in {"idle", "insertTeam"} => new'[q] = NoTeam
    BY <1>3 DEF Inv, TeamInv
  <2>5. \A q \in Requests : pc'[q] \in {"insertOwner", "commit"} =>
          new'[q] \in Teams /\ teams[new'[q]] = Nobody
    BY <1>2, <1>3, <2>1 DEF Inv, TeamInv
  <2>6. \A p, q \in Requests : new'[p] = new'[q] /\ new'[p] # NoTeam => p = q
    BY <1>2, <1>3 DEF Inv, TeamInv
  <2>7. \A v \in Teams : teams[v] # Nobody => \E q \in Requests : new'[q] = v
    <3> SUFFICES ASSUME NEW v \in Teams, teams[v] # Nobody
                 PROVE  \E q \in Requests : new'[q] = v
      OBVIOUS
    <3>1. PICK q \in Requests : new[q] = v
      BY DEF Inv, TeamInv
    <3>2. q # r
      BY <2>2, <3>1, ConstantsAssumption
    <3> QED
      BY <1>3, <3>1, <3>2
  <2> QED
    BY <1>2, <2>3, <2>4, <2>5, <2>6, <2>7 DEF TeamInv
<1>7. InviteInv' /\ MailInv'
  BY <1>2, <1>3 DEF Inv, InviteInv, MailInv, Inviting, Invited
<1> QED
  BY <1>4, <1>5, <1>6, <1>7 DEF Inv

LEMMA InsertOwnerInv ==
  ASSUME Inv, NEW r \in Requests, InsertOwner(r)
  PROVE  Inv'
BY MoveInv DEF InsertOwner, Goto, tables, InFlight, AtDatabase, Done

\* The team appears with its owner, and nobody was a member of it before.
LEMMA CommitInv ==
  ASSUME Inv, NEW r \in Requests, Commit(r)
  PROVE  Inv'
<1>1. /\ pc[r] = "commit" /\ pc' = [pc EXCEPT ![r] = "acknowledge"]
      /\ teams' = [teams EXCEPT ![new[r]] = req[r].actor]
      /\ members' = [members EXCEPT ![new[r]][req[r].actor] = "owner"]
      /\ granter' = [granter EXCEPT ![new[r]][req[r].actor] = req[r].actor]
      /\ UNCHANGED <<users, new, req, mails>>
  BY DEF Commit, Goto, Grant
<1>2. PICK t \in Teams : t = new[r] /\ teams[t] = Nobody
  BY <1>1 DEF Inv, TeamInv
<1>3. PICK u \in Users : u = req[r].actor
  BY InputType DEF Inv
<1>4. /\ pc'[r] = "acknowledge" /\ \A q \in Requests \ {r} : pc'[q] = pc[q]
      /\ teams'[t] = u /\ \A v \in Teams \ {t} : teams'[v] = teams[v]
      /\ members'[t][u] = "owner"
      /\ \A w \in Users \ {u} : members'[t][w] = members[t][w]
      /\ \A v \in Teams \ {t} : members'[v] = members[v]
  BY <1>1, <1>2, <1>3 DEF Inv, TypeOK
<1>5. \A w \in Users : members[t][w] = NoRole
  BY <1>2 DEF Inv, OneOwner
<1>6. u # Nobody /\ NoRole \notin Roles
  BY <1>3, ConstantsAssumption
<1>7. TypeOK'
  <2>1. members' \in [Teams -> [Users -> Roles \cup {NoRole}]]
    BY <1>1, <1>2, <1>3 DEF Inv, TypeOK, Roles
  <2>2. granter' \in [Teams -> [Users -> Users \cup {Nobody}]]
    BY <1>1, <1>2, <1>3 DEF Inv, TypeOK
  <2>3. teams' \in [Teams -> Users \cup {Nobody}]
    BY <1>1, <1>2, <1>3 DEF Inv, TypeOK
  <2>4. pc' \in [Requests -> {"idle"} \cup InFlight \cup Done]
    BY <1>1 DEF Inv, TypeOK, InFlight, AtDatabase
  <2> QED
    BY <1>1, <2>1, <2>2, <2>3, <2>4 DEF Inv, TypeOK
<1>8. OneOwner'
  <2>1. \A w \in Users : members'[t][w] = "owner" <=> w = u
    BY <1>4, <1>5, <1>6 DEF Roles
  <2> QED
    BY <1>4, <1>6, <2>1 DEF Inv, OneOwner
<1>9. TeamInv'
  <2>1. \A q \in Requests : pc'[q] \in {"insertTeam", "insertOwner", "commit"} =>
          req[q].kind = "create"
    BY <1>4 DEF Inv, TeamInv
  <2>2. \A q \in Requests : pc'[q] \in {"idle", "insertTeam"} => new[q] = NoTeam
    BY <1>4 DEF Inv, TeamInv
  <2>3. \A q \in Requests : pc'[q] \in {"insertOwner", "commit"} =>
          new[q] \in Teams /\ teams'[new[q]] = Nobody
    <3> SUFFICES ASSUME NEW q \in Requests, pc'[q] \in {"insertOwner", "commit"}
                 PROVE  new[q] \in Teams /\ teams'[new[q]] = Nobody
      OBVIOUS
    <3>1. q # r /\ pc[q] \in {"insertOwner", "commit"}
      BY <1>4
    <3>2. new[q] \in Teams /\ teams[new[q]] = Nobody
      BY <3>1 DEF Inv, TeamInv
    <3>3. new[q] # NoTeam
      BY <3>2, ConstantsAssumption
    <3>4. new[q] # t
      BY <1>2, <3>1, <3>3 DEF Inv, TeamInv
    <3> QED
      BY <1>4, <3>2, <3>4
  <2>4. \A v \in Teams : teams'[v] # Nobody => \E q \in Requests : new[q] = v
    BY <1>2, <1>4 DEF Inv, TeamInv
  <2> QED
    BY <1>1, <2>1, <2>2, <2>3, <2>4 DEF Inv, TeamInv
\* A role, once given, stays: what the Invites rely on holds still.
<1>10. \A v \in Teams, w \in Users : members[v][w] # NoRole => members'[v][w] = members[v][w]
  BY <1>4, <1>5
<1>11. InviteInv'
  <2>1. \A q \in Requests : pc'[q] \in Inviting \cup Invited => pc'[q] = pc[q]
    BY <1>4 DEF Inviting, Invited
  <2>2. \A q \in Requests : pc'[q] \in Inviting \cup Invited =>
          req[q].kind = "invite" /\ Grantable(RoleOf(req[q]))
    BY <2>1 DEF Inv, InviteInv
  <2>3. \A q \in Requests : pc'[q] \in Inviting \cup Invited =>
          req[q].team \in Teams /\ req[q].invitee \in Users /\ req[q].actor \in Users
    BY <2>2, InputType DEF Inv
  <2>4. \A q \in Requests : pc'[q] \in {"getByEmail", "addMember"} =>
          CanManageMembers(members'[req[q].team][req[q].actor])
    BY <2>1, <2>3, <1>6, <1>10 DEF Inv, InviteInv, CanManageMembers, Inviting, Roles
  <2>5. \A q \in Requests : pc'[q] \in Invited =>
          members'[req[q].team][req[q].invitee] = RoleOf(req[q])
    BY <2>1, <2>2, <2>3, <1>6, <1>10 DEF Inv, InviteInv, Grantable
  <2> QED
    BY <1>1, <2>2, <2>4, <2>5 DEF InviteInv
<1>12. MailInv'
  <2>1. \A q \in Requests : pc'[q] = "mail" => pc[q] = "mail"
    BY <1>4
  <2> QED
    BY <1>1, <2>1 DEF Inv, MailInv
<1>13. MailedOnce'
  <2> SUFFICES ASSUME NEW v \in Teams, NEW w \in Users
               PROVE  mails[v][w] <= IF members'[v][w] \in {"admin", "member"} THEN 1 ELSE 0
    BY <1>1 DEF MailedOnce
  <2>1. mails[v][w] <= IF members[v][w] \in {"admin", "member"} THEN 1 ELSE 0
    BY DEF Inv, MailedOnce
  <2>2. CASE members'[v][w] = members[v][w]
    BY <2>1, <2>2
  <2>3. CASE members'[v][w] # members[v][w]
    <3>1. v = t /\ w = u /\ members[v][w] = NoRole /\ members'[v][w] = "owner"
      BY <1>4, <1>5, <2>3
    <3>2. ~(NoRole \in {"admin", "member"})
      BY <1>6 DEF Roles
    <3> QED
      BY <2>1, <3>1, <3>2
  <2> QED
    BY <2>2, <2>3
<1> QED
  BY <1>7, <1>8, <1>9, <1>11, <1>12, <1>13 DEF Inv

LEMMA AcknowledgeInv ==
  ASSUME Inv, NEW r \in Requests, Acknowledge(r)
  PROVE  Inv'
BY MoveInv DEF Acknowledge, Goto, tables, InFlight, AtDatabase, Done

LEMMA GetMemberInv ==
  ASSUME Inv, NEW r \in Requests, GetMember(r)
  PROVE  Inv'
<1>1. PICK phase \in {"getByEmail", "forbidden"} :
        /\ pc' = [pc EXCEPT ![r] = phase]
        /\ phase = "getByEmail" => CanManageMembers(members[req[r].team][req[r].actor])
  BY DEF GetMember, Goto
<1>2. pc[r] = "getMember" /\ UNCHANGED <<users, teams, members, granter, new, req, mails>>
  BY DEF GetMember, tables
<1>3. phase \in InFlight \cup Done
  BY DEF InFlight, AtDatabase, Done
<1> QED
  BY <1>1, <1>2, <1>3, MoveInv

LEMMA GetByEmailInv ==
  ASSUME Inv, NEW r \in Requests, GetByEmail(r)
  PROVE  Inv'
<1>1. PICK phase \in {"addMember", "invalid"} : pc' = [pc EXCEPT ![r] = phase]
  BY DEF GetByEmail, Goto
<1>2. pc[r] = "getByEmail" /\ UNCHANGED <<users, teams, members, granter, new, req, mails>>
  BY DEF GetByEmail, tables
<1>3. phase \in InFlight \cup Done
  BY DEF InFlight, AtDatabase, Done
<1> QED
  BY <1>1, <1>2, <1>3, MoveInv

\* The primary key lets one request through for each user of a team, and so
\* one invitation.
LEMMA AddMemberInv ==
  ASSUME Inv, NEW r \in Requests, AddMember(r)
  PROVE  Inv'
<1>1. CASE members[req[r].team][req[r].invitee] # NoRole
  BY <1>1, MoveInv DEF AddMember, Goto, tables, InFlight, AtDatabase, Done
<1>2. CASE members[req[r].team][req[r].invitee] = NoRole
  <2>1. /\ pc[r] = "addMember" /\ pc' = [pc EXCEPT ![r] = "mail"]
        /\ members' = [members EXCEPT ![req[r].team][req[r].invitee] = RoleOf(req[r])]
        /\ granter' = [granter EXCEPT ![req[r].team][req[r].invitee] = req[r].actor]
        /\ UNCHANGED <<users, teams, new, req, mails>>
    BY <1>2 DEF AddMember, Goto, Grant
  <2>2. req[r].kind = "invite" /\ Grantable(RoleOf(req[r]))
    BY <2>1 DEF Inv, InviteInv, Inviting
  <2>3. PICK t \in Teams, u \in Users, by \in Users :
          t = req[r].team /\ u = req[r].invitee /\ by = req[r].actor
    BY <2>2, InputType DEF Inv
  <2>4. PICK role \in Roles \ {"owner"} : role = RoleOf(req[r])
    BY <2>2 DEF Grantable
  <2>5. /\ pc'[r] = "mail" /\ \A q \in Requests \ {r} : pc'[q] = pc[q]
        /\ members'[t][u] = role /\ members[t][u] = NoRole
        /\ \A w \in Users \ {u} : members'[t][w] = members[t][w]
        /\ \A v \in Teams \ {t} : members'[v] = members[v]
    BY <1>2, <2>1, <2>3, <2>4 DEF Inv, TypeOK
  <2>6. NoRole \notin Roles
    BY ConstantsAssumption
  <2>7. TypeOK'
    <3>1. members' \in [Teams -> [Users -> Roles \cup {NoRole}]]
      BY <2>1, <2>3, <2>4 DEF Inv, TypeOK
    <3>2. granter' \in [Teams -> [Users -> Users \cup {Nobody}]]
      BY <2>1, <2>3 DEF Inv, TypeOK
    <3>3. pc' \in [Requests -> {"idle"} \cup InFlight \cup Done]
      BY <2>1 DEF Inv, TypeOK, InFlight
    <3> QED
      BY <2>1, <3>1, <3>2, <3>3 DEF Inv, TypeOK
  <2>8. OneOwner'
    <3>1. teams[t] # Nobody
      <4>1. CanManageMembers(members[t][by])
        BY <2>1, <2>3 DEF Inv, InviteInv
      <4>2. members[t][by] # NoRole
        BY <4>1, <2>6 DEF CanManageMembers, Roles
      <4> QED
        BY <4>2 DEF Inv, OneOwner
    <3>2. \A v \in Teams, w \in Users : members'[v][w] = "owner" <=> members[v][w] = "owner"
      BY <2>5, <2>6 DEF Roles
    <3>3. \A v \in Teams : teams[v] = Nobody => members'[v] = members[v]
      BY <2>5, <3>1
    <3> QED
      BY <2>1, <3>2, <3>3 DEF Inv, OneOwner
  <2>9. TeamInv'
    BY <2>1, <2>5 DEF Inv, TeamInv
  <2>10. \A v \in Teams, w \in Users : members[v][w] # NoRole => members'[v][w] = members[v][w]
    BY <2>5
  <2>11. \A q \in Requests \ {r} : pc'[q] \in Inviting \cup Invited =>
           req[q].team \in Teams /\ req[q].invitee \in Users /\ req[q].actor \in Users
    BY <2>5, InputType DEF Inv, InviteInv
  <2>12. InviteInv'
    <3>1. \A q \in Requests : pc'[q] \in Inviting \cup Invited =>
            req[q].kind = "invite" /\ Grantable(RoleOf(req[q]))
      BY <2>2, <2>5 DEF Inv, InviteInv
    <3>2. \A q \in Requests : pc'[q] \in {"getByEmail", "addMember"} =>
            CanManageMembers(members'[req[q].team][req[q].actor])
      <4> SUFFICES ASSUME NEW q \in Requests, pc'[q] \in {"getByEmail", "addMember"}
                   PROVE  CanManageMembers(members'[req[q].team][req[q].actor])
        OBVIOUS
      <4>1. q # r /\ pc[q] = pc'[q] /\ pc'[q] \in Inviting
        BY <2>5 DEF Inviting
      <4>2. CanManageMembers(members[req[q].team][req[q].actor])
        BY <4>1 DEF Inv, InviteInv
      <4> QED
        BY <4>1, <4>2, <2>6, <2>10, <2>11 DEF CanManageMembers, Roles
    <3>3. \A q \in Requests : pc'[q] \in Invited =>
            members'[req[q].team][req[q].invitee] = RoleOf(req[q])
      <4> SUFFICES ASSUME NEW q \in Requests, pc'[q] \in Invited
                   PROVE  members'[req[q].team][req[q].invitee] = RoleOf(req[q])
        OBVIOUS
      <4>1. CASE q = r
        BY <2>3, <2>4, <2>5, <4>1
      <4>2. CASE q # r
        <5>1. members[req[q].team][req[q].invitee] = RoleOf(req[q]) /\ RoleOf(req[q]) \in Roles
          BY <2>5, <3>1, <4>2 DEF Inv, InviteInv, Grantable
        <5> QED
          BY <4>2, <5>1, <2>6, <2>10, <2>11
      <4> QED
        BY <4>1, <4>2
    <3> QED
      BY <2>1, <3>1, <3>2, <3>3 DEF InviteInv
  <2>13. mails[t][u] = 0
    <3>1. mails[t][u] <= 0 /\ mails[t][u] \in Nat
      BY <2>5, <2>6 DEF Inv, TypeOK, MailedOnce, Roles
    <3> QED
      BY <3>1
  <2>14. MailInv'
    <3>1. \A q \in Requests \ {r} : pc[q] = "mail" => ~(req[q].team = t /\ req[q].invitee = u)
      <4> SUFFICES ASSUME NEW q \in Requests \ {r}, pc[q] = "mail"
                   PROVE  ~(req[q].team = t /\ req[q].invitee = u)
        OBVIOUS
      <4>1. members[req[q].team][req[q].invitee] \in Roles
        BY DEF Inv, InviteInv, Grantable, Invited
      <4> QED
        BY <4>1, <2>5, <2>6
    <3> QED
      BY <2>1, <2>3, <2>5, <2>13, <3>1 DEF Inv, MailInv
  <2>15. MailedOnce'
    <3> SUFFICES ASSUME NEW v \in Teams, NEW w \in Users
                 PROVE  mails[v][w] <= IF members'[v][w] \in {"admin", "member"} THEN 1 ELSE 0
      BY <2>1 DEF MailedOnce
    <3>1. CASE v = t /\ w = u
      BY <2>13, <3>1
    <3>2. CASE ~(v = t /\ w = u)
      BY <2>5, <3>2 DEF Inv, MailedOnce
    <3> QED
      BY <3>1, <3>2
  <2> QED
    BY <2>7, <2>8, <2>9, <2>12, <2>14, <2>15 DEF Inv
<1> QED
  BY <1>1, <1>2

\* The one request that is to send this invitation sends it.
LEMMA SendInv ==
  ASSUME Inv, NEW r \in Requests, Send(r)
  PROVE  Inv'
<1>1. /\ pc[r] = "mail" /\ pc' = [pc EXCEPT ![r] = "invited"]
      /\ mails' = [mails EXCEPT ![req[r].team][req[r].invitee] = @ + 1]
      /\ UNCHANGED <<users, teams, members, granter, new, req>>
  BY DEF Send, Goto, tables
<1>2. PICK t \in Teams, u \in Users : t = req[r].team /\ u = req[r].invitee
  BY <1>1, InputType DEF Inv, InviteInv, Invited
<1>3. mails[t][u] = 0 /\ members[t][u] \in {"admin", "member"}
  BY <1>1, <1>2 DEF Inv, MailInv, InviteInv, Invited, Grantable, Roles
<1>4. /\ pc'[r] = "invited" /\ \A q \in Requests \ {r} : pc'[q] = pc[q]
      /\ mails'[t][u] = 1
      /\ \A w \in Users \ {u} : mails'[t][w] = mails[t][w]
      /\ \A v \in Teams \ {t} : mails'[v] = mails[v]
  BY <1>1, <1>2, <1>3 DEF Inv, TypeOK
<1>5. TypeOK'
  <2>1. mails' \in [Teams -> [Users -> Nat]]
    BY <1>1, <1>2, <1>3 DEF Inv, TypeOK
  <2>2. pc' \in [Requests -> {"idle"} \cup InFlight \cup Done]
    BY <1>1 DEF Inv, TypeOK, Done
  <2> QED
    BY <1>1, <2>1, <2>2 DEF Inv, TypeOK
<1>6. OneOwner'
  BY <1>1 DEF Inv, OneOwner
<1>7. TeamInv'
  BY <1>1, <1>4 DEF Inv, TeamInv
<1>8. InviteInv'
  <2>1. \A q \in Requests : pc'[q] \in Inviting \cup Invited => pc[q] \in Inviting \cup Invited
    BY <1>1, <1>4 DEF Invited
  <2>2. \A q \in Requests : pc'[q] \in Invited => pc[q] \in Invited
    BY <1>1, <1>4 DEF Invited
  <2> QED
    BY <1>1, <1>4, <2>1, <2>2 DEF Inv, InviteInv
<1>9. MailInv'
  <2>1. \A q \in Requests : pc'[q] = "mail" =>
          q # r /\ pc[q] = "mail" /\ req[q].team \in Teams /\ req[q].invitee \in Users
    BY <1>4, InputType DEF Inv, InviteInv, Invited
  <2>2. \A q \in Requests : pc'[q] = "mail" => ~(req[q].team = t /\ req[q].invitee = u)
    BY <1>1, <1>2, <2>1 DEF Inv, MailInv
  <2>3. \A q \in Requests : pc'[q] = "mail" => mails'[req[q].team][req[q].invitee] = 0
    BY <1>4, <2>1, <2>2 DEF Inv, MailInv
  <2> QED
    BY <1>1, <2>1, <2>3 DEF Inv, MailInv
<1>10. MailedOnce'
  BY <1>1, <1>3, <1>4 DEF Inv, MailedOnce
<1> QED
  BY <1>5, <1>6, <1>7, <1>8, <1>9, <1>10 DEF Inv

LEMMA EndInv ==
  ASSUME Inv, NEW r \in Requests, SendFails(r) \/ Fail(r)
  PROVE  Inv'
BY MoveInv DEF SendFails, Fail, Goto, tables, InFlight, AtDatabase, Done

LEMMA RegisterInv ==
  ASSUME Inv, NEW user \in Users, Register(user)
  PROVE  Inv'
<1>1. TypeOK'
  BY DEF Inv, TypeOK, Register
<1>2. OneOwner' /\ MailedOnce' /\ TeamInv' /\ InviteInv' /\ MailInv'
  BY DEF Inv, OneOwner, MailedOnce, TeamInv, InviteInv, MailInv, Register
<1> QED
  BY <1>1, <1>2 DEF Inv

LEMMA CrashInv == Inv /\ Crash => Inv'
<1> SUFFICES ASSUME Inv, Crash PROVE Inv'
  OBVIOUS
<1>1. /\ pc' = [r \in Requests |-> IF pc[r] \in InFlight THEN "lost" ELSE pc[r]]
      /\ UNCHANGED <<users, teams, members, granter, new, req, mails>>
  BY DEF Crash, tables
<1>2. \A r \in Requests : pc'[r] = pc[r] \/ pc'[r] = "lost"
  BY <1>1
<1>3. TypeOK'
  BY <1>1 DEF Inv, TypeOK, Done
<1>4. OneOwner' /\ MailedOnce'
  BY <1>1 DEF Inv, OneOwner, MailedOnce
<1>5. TeamInv'
  BY <1>1, <1>2 DEF Inv, TeamInv
<1>6. InviteInv'
  BY <1>1, <1>2 DEF Inv, InviteInv, Inviting, Invited
<1>7. MailInv'
  BY <1>1, <1>2 DEF Inv, MailInv
<1> QED
  BY <1>3, <1>4, <1>5, <1>6, <1>7 DEF Inv

LEMMA NextInv ==
  ASSUME Inv, [Next]_vars
  PROVE  Inv'
<1>1. CASE UNCHANGED vars
  <2>1. TypeOK'
    BY <1>1 DEF vars, Inv, TypeOK
  <2>2. OneOwner' /\ MailedOnce' /\ TeamInv' /\ InviteInv' /\ MailInv'
    BY <1>1 DEF vars, Inv, OneOwner, MailedOnce, TeamInv, InviteInv, MailInv
  <2> QED
    BY <2>1, <2>2 DEF Inv
<1>2. CASE Next
  BY <1>2, RegisterInv, StartInv, InsertTeamInv, InsertOwnerInv, CommitInv, AcknowledgeInv,
     GetMemberInv, GetByEmailInv, AddMemberInv, SendInv, EndInv, CrashInv DEF Next
<1> QED
  BY <1>1, <1>2

LEMMA Invariance == Spec => []Inv
BY InitInv, NextInv, PTL DEF Spec

-----------------------------------------------------------------------------
\* Every variable keeps its type.
THEOREM TypeCorrect == Spec => []TypeOK
<1>1. Inv => TypeOK
  BY DEF Inv
<1> QED
  BY <1>1, Invariance, PTL

\* Every team has its creator as its one owner from its first moment on, and
\* no membership exists without its team, through failures and crashes.
THEOREM TeamsHaveOneOwner == Spec => []OneOwner
<1>1. Inv => OneOwner
  BY DEF Inv
<1> QED
  BY <1>1, Invariance, PTL

\* A 204 and a 202 hold: the invitee has, and keeps, the role that was asked for.
THEOREM InvitationsHold == Spec => []AnswersHold
<1>1. Inv => AnswersHold
  BY DEF Inv, InviteInv, Invited, AnswersHold
<1> QED
  BY <1>1, Invariance, PTL

\* However many requests invite a user to a team, at most one mail is sent.
THEOREM InvitationsAreMailedOnce == Spec => []MailedOnce
<1>1. Inv => MailedOnce
  BY DEF Inv
<1> QED
  BY <1>1, Invariance, PTL

-----------------------------------------------------------------------------
(* Members without a mail. *)

\* The request that SilentMembersAreReported asks for.
Reports(r, t, u) ==
  /\ req[r].kind = "invite" /\ req[r].team = t /\ req[r].invitee = u
  /\ req[r].actor = granter[t][u] /\ RoleOf(req[r]) = members[t][u]
  /\ Unmailed(r)

\* It goes on being one until it has sent the mail.
LEMMA ReportKept ==
  ASSUME Inv, [Next]_vars, NEW r \in Requests, NEW t \in Teams, NEW u \in Users,
         Reports(r, t, u), mails'[t][u] = 0,
         members'[t][u] = members[t][u], granter'[t][u] = granter[t][u]
  PROVE  Reports(r, t, u)'
<1> USE DEF Reports, Unmailed
<1>1. pc \in [Requests -> {"idle"} \cup InFlight \cup Done] /\ mails[t][u] \in Nat
  BY DEF Inv, TypeOK
<1>2. CASE UNCHANGED <<pc, req>>
  BY <1>2
<1>3. ASSUME NEW q \in Requests,
             \/ Start(q) \/ InsertTeam(q) \/ InsertOwner(q) \/ Commit(q) \/ Acknowledge(q)
             \/ GetMember(q) \/ GetByEmail(q) \/ AddMember(q)
      PROVE  Reports(r, t, u)'
  <2>1. UNCHANGED req /\ q # r /\ pc'[r] = pc[r]
    BY <1>1, <1>3 DEF Start, InsertTeam, InsertOwner, Commit, Acknowledge, GetMember,
       GetByEmail, AddMember, Goto
  <2> QED
    BY <2>1
<1>4. ASSUME NEW q \in Requests, SendFails(q) \/ Fail(q) PROVE Reports(r, t, u)'
  <2>1. UNCHANGED req /\ (pc'[r] = pc[r] \/ pc'[r] \in {"warned", "error"})
    BY <1>1, <1>4 DEF SendFails, Fail, Goto
  <2> QED
    BY <2>1
<1>5. ASSUME NEW q \in Requests, Send(q) PROVE Reports(r, t, u)'
  <2>1. UNCHANGED req /\ pc[q] = "mail"
        /\ mails' = [mails EXCEPT ![req[q].team][req[q].invitee] = @ + 1]
    BY <1>5 DEF Send
  <2>2. q # r
    <3>1. q = r => mails'[t][u] = mails[t][u] + 1
      BY <2>1 DEF Inv, TypeOK
    <3> QED
      BY <1>1, <3>1
  <2>3. pc'[r] = pc[r]
    BY <1>1, <1>5, <2>2 DEF Send, Goto
  <2> QED
    BY <2>1, <2>3
<1>6. CASE Crash
  <2>1. UNCHANGED req /\ pc'[r] \in {pc[r], "lost"}
    BY <1>1, <1>6 DEF Crash
  <2> QED
    BY <2>1
<1> QED
  BY <1>2, <1>3, <1>4, <1>5, <1>6 DEF Next, vars, Register

\* A membership that begins, and not as an owner's, begins with such a request.
LEMMA ReportBegins ==
  ASSUME Inv, [Next]_vars, NEW t \in Teams, NEW u \in Users,
         members'[t][u] \in {"admin", "member"}, members[t][u] # members'[t][u]
  PROVE  \E r \in Requests : Reports(r, t, u)'
<1>1. members \in [Teams -> [Users -> Roles \cup {NoRole}]]
  BY DEF Inv, TypeOK
<1>2. ASSUME NEW r \in Requests, Commit(r) PROVE FALSE
  <2>1. members' = [members EXCEPT ![new[r]][req[r].actor] = "owner"]
    BY <1>2 DEF Commit, Grant
  <2>2. members'[t][u] \in {members[t][u], "owner"}
    BY <1>1, <2>1
  <2> QED
    BY <2>2
<1>3. ASSUME NEW r \in Requests, AddMember(r) PROVE Reports(r, t, u)'
  <2>1. /\ pc[r] = "addMember" /\ UNCHANGED req
        /\ members' = [members EXCEPT ![req[r].team][req[r].invitee] = RoleOf(req[r])]
        /\ granter' = [granter EXCEPT ![req[r].team][req[r].invitee] = req[r].actor]
        /\ Goto(r, "mail")
    BY <1>3 DEF AddMember, Grant
  <2>2. t = req[r].team /\ u = req[r].invitee
    BY <1>1, <2>1
  <2>3. req[r].kind = "invite"
    BY <2>1 DEF Inv, InviteInv, Inviting
  <2>4. pc'[r] = "mail"
    BY <2>1 DEF Goto, Inv, TypeOK
  <2>5. members'[t][u] = RoleOf(req[r]) /\ granter'[t][u] = req[r].actor
    BY <1>1, <2>1, <2>2 DEF Inv, TypeOK
  <2> QED
    BY <2>1, <2>2, <2>3, <2>4, <2>5 DEF Reports, Unmailed, RoleOf
<1>4. \/ UNCHANGED members
      \/ \E r \in Requests : Commit(r) \/ AddMember(r)
  BY DEF Next, vars, tables, Register, Start, InsertTeam, InsertOwner, Acknowledge,
     GetMember, GetByEmail, Send, SendFails, Fail, Crash
<1> QED
  BY <1>2, <1>3, <1>4

\* Whoever has let a member in stays the one.
LEMMA GranterKept ==
  ASSUME Inv, [Next]_vars, NEW t \in Teams, NEW u \in Users,
         members[t][u] \in {"admin", "member"}, members'[t][u] = members[t][u]
  PROVE  granter'[t][u] = granter[t][u]
<1>1. /\ members \in [Teams -> [Users -> Roles \cup {NoRole}]]
      /\ granter \in [Teams -> [Users -> Users \cup {Nobody}]]
  BY DEF Inv, TypeOK
<1>2. ASSUME NEW r \in Requests, Commit(r) PROVE granter'[t][u] = granter[t][u]
  <2>1. /\ members' = [members EXCEPT ![new[r]][req[r].actor] = "owner"]
        /\ granter' = [granter EXCEPT ![new[r]][req[r].actor] = req[r].actor]
    BY <1>2 DEF Commit, Grant
  <2>2. ~(t = new[r] /\ u = req[r].actor)
    BY <1>1, <2>1
  <2> QED
    BY <1>1, <2>1, <2>2
<1>3. ASSUME NEW r \in Requests, AddMember(r) PROVE granter'[t][u] = granter[t][u]
  <2>1. CASE UNCHANGED granter
    BY <2>1
  <2>2. CASE ~UNCHANGED granter
    <3>1. /\ members[req[r].team][req[r].invitee] = NoRole
          /\ granter' = [granter EXCEPT ![req[r].team][req[r].invitee] = req[r].actor]
      BY <1>3, <2>2 DEF AddMember, Grant
    <3>2. NoRole \notin {"admin", "member"}
      BY ConstantsAssumption DEF Roles
    <3>3. ~(t = req[r].team /\ u = req[r].invitee)
      BY <3>1, <3>2
    <3> QED
      BY <1>1, <3>1, <3>3
  <2> QED
    BY <2>1, <2>2
<1>4. \/ UNCHANGED granter
      \/ \E r \in Requests : Commit(r) \/ AddMember(r)
  BY DEF Next, vars, tables, Register, Start, InsertTeam, InsertOwner, Acknowledge,
     GetMember, GetByEmail, Send, SendFails, Fail, Crash
<1> QED
  BY <1>2, <1>3, <1>4

LEMMA ReportStep ==
  Inv /\ SilentMembersAreReported /\ [Next]_vars => SilentMembersAreReported'
<1> SUFFICES ASSUME Inv, SilentMembersAreReported, [Next]_vars,
                    NEW t \in Teams, NEW u \in Users,
                    members'[t][u] \in {"admin", "member"}, mails'[t][u] = 0
             PROVE  \E r \in Requests : Reports(r, t, u)'
  BY DEF SilentMembersAreReported, Reports, Unmailed
<1>1. CASE members[t][u] # members'[t][u]
  BY <1>1, ReportBegins
<1>2. CASE members[t][u] = members'[t][u]
  <2>1. mails[t][u] = 0
    <3>1. mails \in [Teams -> [Users -> Nat]]
      BY DEF Inv, TypeOK
    <3>2. ASSUME NEW r \in Requests, Send(r) PROVE mails'[t][u] >= mails[t][u]
      <4>1. mails' = [mails EXCEPT ![req[r].team][req[r].invitee] = @ + 1]
        BY <3>2 DEF Send
      <4>2. mails[t][u] \in Nat /\ mails'[t][u] \in {mails[t][u], mails[t][u] + 1}
        BY <3>1, <4>1
      <4> QED
        BY <4>2
    <3>3. UNCHANGED mails \/ \E r \in Requests : Send(r)
      BY DEF Next, vars, tables, Register, Start, InsertTeam, InsertOwner, Commit, Acknowledge,
         GetMember, GetByEmail, AddMember, SendFails, Fail, Crash
    <3>4. mails[t][u] \in Nat
      BY <3>1
    <3> QED
      BY <3>2, <3>3, <3>4
  <2>2. PICK r \in Requests : Reports(r, t, u)
    BY <1>2, <2>1 DEF SilentMembersAreReported, Reports, Unmailed
  <2>3. granter'[t][u] = granter[t][u]
    BY <1>2, GranterKept
  <2> QED
    BY <1>2, <2>2, <2>3, ReportKept
<1> QED
  BY <1>1, <1>2

\* A member who was never sent an invitation is due to a request that is still to
\* send it, told its client that it could not, or never answered.
THEOREM SilenceIsReported == Spec => []SilentMembersAreReported
<1>1. Init => SilentMembersAreReported
  <2>1. Init => \A t \in Teams, u \in Users : members[t][u] = NoRole
    BY DEF Init
  <2>2. NoRole \notin {"admin", "member"}
    BY ConstantsAssumption DEF Roles
  <2> QED
    BY <2>1, <2>2 DEF SilentMembersAreReported
<1> QED
  BY <1>1, ReportStep, Invariance, PTL DEF Spec

-----------------------------------------------------------------------------
(* The refinement. *)

LEMMA StepRefinement ==
  ASSUME Inv, Next
  PROVE  Abstract!Next \/ UNCHANGED Abstract!vars
<1>1. ASSUME NEW r \in Requests, Commit(r)
      PROVE  Abstract!Next
  <2>1. new[r] \in Teams /\ teams[new[r]] = Nobody /\ req[r].actor \in Users
    BY <1>1, InputType DEF Inv, TeamInv, Commit
  <2>2. \A w \in Users : members[new[r]][w] = NoRole
    BY <2>1 DEF Inv, OneOwner
  <2>3. Abstract!Found(new[r], req[r].actor)
    BY <1>1, <2>1, <2>2 DEF Commit, Grant, Abstract!Found, Abstract!Grant
  <2> QED
    BY <2>1, <2>3 DEF Abstract!Next
<1>2. ASSUME NEW r \in Requests, AddMember(r), members[req[r].team][req[r].invitee] = NoRole
      PROVE  Abstract!Next
  <2>1. /\ pc[r] = "addMember" /\ UNCHANGED teams
        /\ Grant(req[r].team, req[r].actor, req[r].invitee, RoleOf(req[r]))
    BY <1>2 DEF AddMember
  <2>2. /\ req[r].kind = "invite" /\ Grantable(RoleOf(req[r]))
        /\ CanManageMembers(members[req[r].team][req[r].actor])
    BY <2>1 DEF Inv, InviteInv, Inviting
  <2>3. req[r].team \in Teams /\ req[r].invitee \in Users /\ req[r].actor \in Users
    BY <2>2, InputType DEF Inv
  <2>4. RoleOf(req[r]) \in {"admin", "member"}
    BY <2>2 DEF Grantable, Roles
  <2>5. Abstract!Invite(req[r].team, req[r].actor, req[r].invitee, RoleOf(req[r]))
    BY <1>2, <2>1, <2>2, <2>3 DEF Grant, CanManageMembers, Abstract!Invite,
       Abstract!Managers, Abstract!Grant
  <2> QED
    BY <2>3, <2>4, <2>5 DEF Abstract!Next
<1>3. ASSUME NEW r \in Requests, AddMember(r), members[req[r].team][req[r].invitee] # NoRole
      PROVE  UNCHANGED <<teams, members, granter>>
  BY <1>3 DEF AddMember
<1>4. ASSUME NEW r \in Requests,
             \/ Start(r) \/ InsertTeam(r) \/ InsertOwner(r) \/ Acknowledge(r)
             \/ GetMember(r) \/ GetByEmail(r) \/ Send(r) \/ SendFails(r) \/ Fail(r)
      PROVE  UNCHANGED <<teams, members, granter>>
  BY <1>4 DEF Start, InsertTeam, InsertOwner, Acknowledge, GetMember, GetByEmail, Send,
     SendFails, Fail, tables
<1>5. ASSUME (\E user \in Users : Register(user)) \/ Crash
      PROVE  UNCHANGED <<teams, members, granter>>
  BY <1>5 DEF Register, Crash, tables
<1> QED
  BY <1>1, <1>2, <1>3, <1>4, <1>5 DEF Next, Abstract!vars

\* The requests implement the abstract service: memberships only ever begin,
\* with their team or by a manager's invitation.
THEOREM Refinement == Spec => ImplementsTeamMembership
<1>1. Init => Abstract!Init
  BY DEF Init, Abstract!Init
<1>2. Inv /\ [Next]_vars => [Abstract!Next]_(Abstract!vars)
  BY StepRefinement DEF vars, Abstract!vars
<1> QED
  BY <1>1, <1>2, Invariance, PTL DEF Spec, ImplementsTeamMembership, Abstract!Spec
=============================================================================
