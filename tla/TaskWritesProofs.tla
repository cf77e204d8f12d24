-------------------------- MODULE TaskWritesProofs --------------------------
(***************************************************************************)
(* Theorems about TaskWrites, for any number of requests, users, teams,    *)
(* tasks and connections.                                                  *)
(***************************************************************************)
EXTENDS TaskWrites, SequenceTheorems, TLAPS

-----------------------------------------------------------------------------
(* What the operators of the service return. *)

LEMMA InputTypes ==
  ASSUME NEW in \in Inputs
  PROVE  in \in Input /\ in.patch \in Patch /\ in.actor \in Users
         /\ in.team \in Teams /\ in.task \in Tasks
BY ConstantsAssumption DEF Input

LEMMA SomeInputType == SomeInput \in Inputs
BY ConstantsAssumption DEF SomeInput

LEMMA SomeContentType == SomeContent \in Content
BY ConstantsAssumption DEF SomeContent, NewContent, Content

\* A created task's columns are valid once the body is and the foreign key holds.
LEMMA NewContentType ==
  ASSUME NEW patch \in Patch, Wellformed(patch), patch.title # Keep,
         AssigneeExists(NewContent(patch))
  PROVE  NewContent(patch) \in Content
BY ConstantsAssumption DEF Patch, NewContent, Content, Wellformed, AssigneeExists

\* So are an updated task's.
LEMMA UpdatedType ==
  ASSUME NEW r \in Requests, snap[r] \in Content, req[r].patch \in Patch,
         Wellformed(req[r].patch), AssigneeExists(Updated(r))
  PROVE  Updated(r) \in Content
<1>1. Changed(r) \subseteq Fields
  BY DEF Changed
<1>2. Updated(r).title \in Titles
  BY DEF Updated, Changed, Fields, Patch, Content, Wellformed
<1>3. Updated(r).description \in Descriptions
  BY DEF Updated, Changed, Fields, Patch, Content
<1>4. Updated(r).status \in Statuses
  BY DEF Updated, Changed, Fields, Patch, Content, Wellformed
<1>5. Updated(r).assignee_id \in Users \cup {Nobody}
  BY DEF AssigneeExists
<1>6. Updated(r) = [f \in Fields |-> Updated(r)[f]]
  BY DEF Updated
<1> QED
  BY <1>2, <1>3, <1>4, <1>5, <1>6 DEF Fields, Content

-----------------------------------------------------------------------------
(* The inductive invariant: what a request knows at each point of its way. *)

Updating == {"begin", "write", "audit", "commit"}
Cleared  == {"select", "insert"} \cup Updating

\* The audit rows of an open transaction: one for each changed column that is
\* not to do.
AuditInv(r) ==
  /\ pc[r] \notin {"audit", "commit"} => audit[r] = <<>> /\ todo[r] = {}
  /\ pc[r] = "commit" => todo[r] = {}
  /\ todo[r] \subseteq Changed(r)
  /\ \A i \in DOMAIN audit[r] :
       /\ audit[r][i].field \in Changed(r) \ todo[r]
       /\ audit[r][i] = AuditRow(r, audit[r][i].field)
       /\ \A j \in DOMAIN audit[r] : audit[r][i].field = audit[r][j].field => i = j
  /\ pc[r] \in {"audit", "commit"} =>
       \A f \in Changed(r) \ todo[r] : \E i \in DOMAIN audit[r] : audit[r][i].field = f

\* A request that works on a task has read it, and what it read is audited.
SnapInv(r) ==
  pc[r] \in {"authorize"} \cup Cleared /\ req[r].kind # "create" =>
    /\ rows[req[r].task] # NoRow
    /\ \A f \in Fields : Audited(req[r].task, f, snap[r][f])

\* A request has passed the checks that come before where it is.
CheckInv(r) ==
  /\ pc[r] \in {"load", "select"} => req[r].kind # "create"
  /\ pc[r] = "insert" =>
       req[r].kind = "create" /\ Wellformed(req[r].patch) /\ req[r].patch.title # Keep
  /\ pc[r] \in Updating =>
       req[r].kind = "update" /\ Wellformed(req[r].patch) /\ Changed(r) # {}
  /\ pc[r] \in {"audit", "commit"} => AssigneeExists(Updated(r))
  /\ pc[r] \in Cleared => IsMember(TeamOf(r), req[r].actor)

RequestInv(r) == AuditInv(r) /\ SnapInv(r) /\ CheckInv(r)

\* A task that does not exist has no audit rows.
Unborn == \A t \in Tasks : rows[t] = NoRow => history[t] = <<>>

TablesInv == AuthorsAreMembers /\ EveryValueAudited /\ Unborn

Inv ==
  /\ TypeOK
  /\ TablesInv
  /\ \A r \in Requests : RequestInv(r)

\* How the tables may change under a request: members stay, rows stay in their
\* team, and what has been audited stays audited.
Evolves ==
  /\ members \subseteq members'
  /\ \A t \in Tasks : rows[t] # NoRow =>
       /\ rows'[t] # NoRow
       /\ rows'[t].team = rows[t].team
       /\ \A f \in Fields, v \in Values : Audited(t, f, v) => Audited(t, f, v)'

\* A request that does not move keeps what it knows while the tables evolve.
LEMMA Frame ==
  ASSUME TypeOK, NEW q \in Requests, RequestInv(q), Evolves,
         pc'[q] = pc[q], req'[q] = req[q], snap'[q] = snap[q],
         todo'[q] = todo[q], audit'[q] = audit[q]
  PROVE  RequestInv(q)'
<1>1. req[q] \in Input /\ req[q].patch \in Patch /\ req[q].task \in Tasks
  BY InputTypes DEF TypeOK
<1>2. Changed(q)' = Changed(q)
  BY DEF Changed
<1>3. Updated(q)' = Updated(q)
  BY <1>2 DEF Updated
<1>4. \A f : AuditRow(q, f)' = AuditRow(q, f)
  BY <1>3 DEF AuditRow
<1>5. AuditInv(q)'
  BY <1>2, <1>4 DEF RequestInv, AuditInv
<1>6. \A f \in Fields : snap[q][f] \in Values
  BY DEF TypeOK, Content, Fields, Values
<1>7. SnapInv(q)'
  BY <1>1, <1>6 DEF RequestInv, SnapInv, Evolves, Cleared, Updating
<1>8. CheckInv(q)'
  <2>1. pc[q] \in Cleared => IsMember(TeamOf(q), req[q].actor)'
    BY <1>1 DEF RequestInv, CheckInv, SnapInv, IsMember, TeamOf, Evolves, Cleared, Updating
  <2> QED
    BY <2>1, <1>2, <1>3 DEF RequestInv, CheckInv, AssigneeExists, Wellformed
<1> QED
  BY <1>5, <1>7, <1>8 DEF RequestInv

\* The same, for a step of one request r that leaves the tables alone.
LEMMA OthersKeep ==
  ASSUME Inv, NEW r \in Requests, Evolves, RequestInv(r)',
         \A q \in Requests \ {r} :
           /\ pc'[q] = pc[q] /\ req'[q] = req[q] /\ snap'[q] = snap[q]
           /\ todo'[q] = todo[q] /\ audit'[q] = audit[q]
  PROVE  \A q \in Requests : RequestInv(q)'
BY Frame DEF Inv

\* Outside a transaction there are no audit rows.
LEMMA NoAudit ==
  ASSUME NEW r \in Requests, pc'[r] \notin {"audit", "commit"},
         audit'[r] = <<>>, todo'[r] = {}
  PROVE  AuditInv(r)'
BY DEF AuditInv

LEMMA NoAuditNow ==
  ASSUME Inv, NEW r \in Requests, pc[r] \notin {"audit", "commit"}
  PROVE  audit[r] = <<>> /\ todo[r] = {}
BY DEF Inv, RequestInv, AuditInv

LEMMA NoAuditStays ==
  ASSUME Inv, NEW r \in Requests, pc[r] \notin {"audit", "commit"},
         pc'[r] \notin {"audit", "commit"}, UNCHANGED <<audit, todo>>
  PROVE  AuditInv(r)'
BY NoAudit, NoAuditNow

LEMMA UnchangedTables ==
  ASSUME Inv, UNCHANGED <<tables, original>>
  PROVE  Evolves /\ TablesInv'
BY DEF Inv, tables, Evolves, TablesInv, AuthorsAreMembers, EveryValueAudited, Audited,
       Unborn, IsMember

-----------------------------------------------------------------------------
(* The initial states and every step keep the invariant. *)

LEMMA InitInv == Init => Inv
<1> SUFFICES ASSUME Init PROVE Inv
  OBVIOUS
<1>1. TypeOK
  BY SomeInputType, SomeContentType, ConstantsAssumption DEF Init, TypeOK
<1>2. TablesInv
  BY DEF Init, TablesInv, AuthorsAreMembers, EveryValueAudited, Unborn
<1>3. ASSUME NEW r \in Requests PROVE RequestInv(r)
  BY DEF Init, RequestInv, AuditInv, SnapInv, CheckInv, Cleared, Updating
<1> QED
  BY <1>1, <1>2, <1>3 DEF Inv

LEMMA JoinInv ==
  ASSUME Inv, NEW team \in Teams, NEW user \in Users, Join(team, user)
  PROVE  Inv'
<1>1. TypeOK'
  BY DEF Inv, TypeOK, Join
<1>2. Evolves
  BY DEF Join, Evolves, Audited
<1>3. TablesInv'
  BY DEF Inv, Join, TablesInv, AuthorsAreMembers, IsMember, EveryValueAudited, Audited,
         Unborn
<1>4. \A q \in Requests : RequestInv(q)'
  BY <1>2, Frame DEF Inv, Join
<1> QED
  BY <1>1, <1>3, <1>4 DEF Inv

LEMMA StartInv ==
  ASSUME Inv, NEW r \in Requests, NEW in \in Inputs, Start(r, in)
  PROVE  Inv'
<1> USE DEF Start, Goto
<1>1. TypeOK'
  BY DEF Inv, TypeOK, tables, InFlight
<1>2. Evolves /\ TablesInv'
  BY UnchangedTables
<1>3. RequestInv(r)'
  <2>1. in.kind \in {"create", "update", "history"}
    BY InputTypes DEF Input
  <2>2. pc'[r] \in {"load", "authorize"} /\ req'[r] = in
    BY DEF Inv, TypeOK
  <2>3. pc'[r] = "authorize" => in.kind = "create"
    BY DEF Inv, TypeOK
  <2>4. AuditInv(r)'
    BY <2>2, NoAuditStays
  <2> QED
    BY <2>1, <2>2, <2>3, <2>4 DEF RequestInv, SnapInv, CheckInv, Cleared, Updating
<1> QED
  BY <1>1, <1>2, <1>3, OthersKeep DEF Inv, TypeOK

LEMMA LoadInv ==
  ASSUME Inv, NEW r \in Requests, Load(r)
  PROVE  Inv'
<1> USE DEF Load, Goto
<1>1. req[r].task \in Tasks
  BY InputTypes DEF Inv, TypeOK
<1>2. TypeOK'
  BY <1>1 DEF Inv, TypeOK, tables, InFlight, Done, Rejected, Row
<1>3. Evolves /\ TablesInv'
  BY UnchangedTables
<1>4. RequestInv(r)'
  <2>2. req[r].kind # "create"
    BY DEF Inv, RequestInv, CheckInv
  <2>3. pc'[r] \in {"notfound", "authorize"}
    BY DEF Inv, TypeOK
  <2>1. AuditInv(r)'
    BY <2>3, NoAuditStays
  <2>4. pc'[r] = "authorize" =>
          rows[req[r].task] # NoRow /\ snap'[r] = rows[req[r].task].fields
    BY DEF Inv, TypeOK
  <2>5. rows[req[r].task] # NoRow =>
          \A f \in Fields : Audited(req[r].task, f, rows[req[r].task].fields[f])
    BY <1>1 DEF Inv, TablesInv, EveryValueAudited
  <2>6. UNCHANGED <<rows, history, original, req>>
    BY DEF tables
  <2>7. SnapInv(r)'
    BY <2>3, <2>4, <2>5, <2>6 DEF SnapInv, Audited, Cleared, Updating
  <2>8. CheckInv(r)'
    BY <2>2, <2>3, <2>6 DEF CheckInv, Cleared, Updating
  <2> QED
    BY <2>1, <2>7, <2>8 DEF RequestInv
<1> QED
  BY <1>2, <1>3, <1>4, OthersKeep DEF Inv, TypeOK

LEMMA AuthorizeInv ==
  ASSUME Inv, NEW r \in Requests, Authorize(r)
  PROVE  Inv'
<1> USE DEF Authorize, Goto
<1>1. req[r].kind \in {"create", "update", "history"}
  BY InputTypes DEF Inv, TypeOK, Input
<1>2. AfterValidation(r) \in {"select", "insert", "invalid", "ok", "begin"}
  BY <1>1 DEF AfterValidation
<1>3. TypeOK'
  BY <1>2 DEF Inv, TypeOK, tables, InFlight, Done, Rejected
<1>4. Evolves /\ TablesInv'
  BY UnchangedTables
<1>5. RequestInv(r)'
  <2>1. UNCHANGED <<Changed(r), TeamOf(r)>>
    BY DEF Changed, TeamOf, tables
  <2>2. pc'[r] \in {"select", "insert", "invalid", "ok", "begin", "forbidden"}
    BY <1>2 DEF Inv, TypeOK
  <2>3. AuditInv(r)'
    BY <2>2, NoAuditStays
  <2>4. SnapInv(r)'
    BY <2>2 DEF Inv, TypeOK, tables, RequestInv, SnapInv, Audited, Cleared, Updating
  <2>5. CheckInv(r)'
    <3>1. pc'[r] = IF IsMember(TeamOf(r), req[r].actor)
                   THEN AfterValidation(r) ELSE "forbidden"
      BY DEF Inv, TypeOK
    <3>2. IsMember(TeamOf(r), req[r].actor)' <=> IsMember(TeamOf(r), req[r].actor)
      BY <2>1 DEF IsMember, tables
    <3> QED
      BY <1>1, <2>1, <2>2, <3>1, <3>2 DEF CheckInv, AfterValidation, Cleared, Updating
  <2> QED
    BY <2>3, <2>4, <2>5 DEF RequestInv
<1> QED
  BY <1>3, <1>4, <1>5, OthersKeep DEF Inv, TypeOK

\* A request whose next point asks for nothing: it is done, waits for an
\* acknowledgement, or has not been authorized yet to work on a task.
LEMMA Released ==
  ASSUME NEW r \in Requests, pc'[r] \in Done \cup {"acknowledge"},
         audit'[r] = <<>>, todo'[r] = {}
  PROVE  RequestInv(r)'
<1>1. AuditInv(r)'
  BY NoAudit DEF Done, Rejected
<1> QED
  BY <1>1 DEF RequestInv, SnapInv, CheckInv, Done, Rejected, Cleared, Updating

\* The row that an INSERT adds is a valid one.
LEMMA NewRow ==
  ASSUME Inv, NEW r \in Requests, Insert(r), AssigneeExists(NewContent(req[r].patch))
  PROVE  LET row == [team |-> req[r].team, created_by |-> req[r].actor,
                     fields |-> NewContent(req[r].patch)]
         IN  NewContent(req[r].patch) \in Content /\ row \in Row /\ row # NoRow
<1>1. req[r] \in Inputs /\ CheckInv(r) /\ pc[r] = "insert"
  BY DEF Inv, TypeOK, RequestInv, Insert
<1>2. /\ req[r].patch \in Patch /\ req[r].team \in Teams /\ req[r].actor \in Users
      /\ Wellformed(req[r].patch) /\ req[r].patch.title # Keep
  BY <1>1, InputTypes DEF CheckInv
<1>3. NewContent(req[r].patch) \in Content
  BY <1>2, NewContentType
<1> QED
  BY <1>2, <1>3, NoRowAssumption DEF Row

LEMMA InsertInv ==
  ASSUME Inv, NEW r \in Requests, Insert(r)
  PROVE  Inv'
<1> USE DEF Insert, Goto
<1>1. IsMember(req[r].team, req[r].actor)
  <2>1. req[r] \in Inputs /\ CheckInv(r) /\ pc[r] = "insert"
    BY DEF Inv, TypeOK, RequestInv
  <2> QED
    BY <2>1 DEF CheckInv, TeamOf, Cleared
<1>2. pc'[r] \in {"error", "acknowledge"} /\ audit'[r] = <<>> /\ todo'[r] = {}
  BY NoAuditNow DEF Inv, TypeOK
<1>3. RequestInv(r)'
  BY <1>2, Released DEF Done
<1>4. CASE UNCHANGED <<rows, original>>
  <2>1. Evolves /\ TablesInv'
    BY <1>4, UnchangedTables DEF tables
  <2>2. TypeOK'
    BY <1>2, <1>4 DEF Inv, TypeOK, InFlight, Connected, Done
  <2> QED
    BY <1>3, <2>1, <2>2, OthersKeep DEF Inv, TypeOK
<1>5. CASE AssigneeExists(NewContent(req[r].patch)) /\ InsertRow(r)
  <2>1. NewContent(req[r].patch) \in Content
    BY <1>5, NewRow
  <2>2. PICK t \in Tasks :
          /\ rows[t] = NoRow
          /\ rows' = [rows EXCEPT ![t] = [team       |-> req[r].team,
                                          created_by |-> req[r].actor,
                                          fields     |-> NewContent(req[r].patch)]]
          /\ original' = [original EXCEPT ![t] = NewContent(req[r].patch)]
    BY <1>5 DEF InsertRow
  <2>3. rows'[t] \in Row /\ rows'[t] # NoRow
    BY <1>5, <2>2, NewRow DEF Inv, TypeOK
  <2>4. TypeOK'
    BY <1>2, <2>1, <2>2, <2>3 DEF Inv, TypeOK, InFlight, Connected, Done
  <2>5. \A u \in Tasks \ {t} : rows'[u] = rows[u] /\ original'[u] = original[u]
    BY <2>2 DEF Inv, TypeOK
  <2>6. Evolves
    BY <2>2, <2>5 DEF Evolves, Audited
  <2>7. history[t] = <<>>
    BY <2>2 DEF Inv, TablesInv, Unborn
  <2>8. AuthorsAreMembers'
    <3>1. rows'[t].team = req[r].team /\ rows'[t].created_by = req[r].actor
      BY <2>2 DEF Inv, TypeOK
    <3>2. ASSUME NEW u \in Tasks \ {t}, rows'[u] # NoRow
          PROVE  /\ IsMember(rows[u].team, rows[u].created_by)
                 /\ \A i \in DOMAIN history[u] :
                      IsMember(rows[u].team, history[u][i].changed_by)
      BY <2>5, <3>2 DEF Inv, TablesInv, AuthorsAreMembers
    <3>3. UNCHANGED <<members, history>>
      OBVIOUS
    <3> QED
      BY <1>1, <2>5, <2>7, <3>1, <3>2, <3>3 DEF AuthorsAreMembers, IsMember
  <2>9. EveryValueAudited'
    <3>1. rows'[t].fields = original'[t]
      BY <2>2 DEF Inv, TypeOK
    <3>2. \A u \in Tasks \ {t} : rows'[u] # NoRow =>
            \A f \in Fields : Audited(u, f, rows[u].fields[f])
      BY <2>5 DEF Inv, TablesInv, EveryValueAudited
    <3> QED
      BY <2>5, <3>1, <3>2 DEF EveryValueAudited, Audited
  <2>10. Unborn'
    BY <2>3, <2>5 DEF Inv, TablesInv, Unborn
  <2>11. TablesInv'
    BY <2>8, <2>9, <2>10 DEF TablesInv
  <2> QED
    BY <1>3, <2>4, <2>6, <2>11, OthersKeep DEF Inv, TypeOK
<1> QED
  BY <1>4, <1>5

LEMMA SelectInv ==
  ASSUME Inv, NEW r \in Requests, Select(r)
  PROVE  Inv'
<1> USE DEF Select, Goto
<1>1. TypeOK' /\ pc'[r] = "ok"
  BY DEF Inv, TypeOK, tables, Done
<1>2. Evolves /\ TablesInv'
  BY UnchangedTables
<1>3. RequestInv(r)'
  <2>1. audit'[r] = <<>> /\ todo'[r] = {}
    BY NoAuditNow
  <2> QED
    BY <1>1, <2>1, Released DEF Done
<1> QED
  BY <1>1, <1>2, <1>3, OthersKeep DEF Inv, TypeOK

LEMMA AcknowledgeInv ==
  ASSUME Inv, NEW r \in Requests, Acknowledge(r)
  PROVE  Inv'
<1> USE DEF Acknowledge, Goto
<1>1. TypeOK' /\ pc'[r] = "ok"
  BY DEF Inv, TypeOK, tables, Done
<1>2. Evolves /\ TablesInv'
  BY UnchangedTables
<1>3. RequestInv(r)'
  <2>1. audit'[r] = <<>> /\ todo'[r] = {}
    BY NoAuditNow
  <2> QED
    BY <1>1, <2>1, Released DEF Done
<1> QED
  BY <1>1, <1>2, <1>3, OthersKeep DEF Inv, TypeOK

LEMMA FailInv ==
  ASSUME Inv, NEW r \in Requests, Fail(r)
  PROVE  Inv'
<1> USE DEF Fail, Goto, Rollback
<1>1. TypeOK' /\ pc'[r] = "error"
  BY EmptySeq DEF Inv, TypeOK, tables, Done
<1>2. Evolves /\ TablesInv'
  BY UnchangedTables
<1>3. RequestInv(r)'
  <2>1. audit'[r] = <<>> /\ todo'[r] = {}
    BY DEF Inv, TypeOK
  <2> QED
    BY <1>1, <2>1, Released DEF Done
<1> QED
  BY <1>1, <1>2, <1>3, OthersKeep DEF Inv, TypeOK

LEMMA BeginInv ==
  ASSUME Inv, NEW r \in Requests, Begin(r)
  PROVE  Inv'
<1> USE DEF Begin, Goto
<1>1. TypeOK' /\ pc'[r] = "write"
  BY DEF Inv, TypeOK, tables, InFlight, Connected, InTx
<1>2. Evolves /\ TablesInv'
  BY UnchangedTables
<1>3. RequestInv(r)'
  <2>1. AuditInv(r)'
    BY <1>1, NoAuditStays
  <2>2. SnapInv(r)'
    BY <1>1 DEF Inv, tables, RequestInv, SnapInv, Audited, Cleared, Updating
  <2>3. CheckInv(r)'
    BY <1>1 DEF Inv, tables, RequestInv, CheckInv, Changed, IsMember, TeamOf,
                Cleared, Updating
  <2> QED
    BY <2>1, <2>2, <2>3 DEF RequestInv
<1> QED
  BY <1>1, <1>2, <1>3, OthersKeep DEF Inv, TypeOK

LEMMA RollbackTypes ==
  ASSUME TypeOK, NEW r \in Requests, Rollback(r)
  PROVE  /\ lock' \in [Tasks -> Requests \cup {Free}]
         /\ todo' \in [Requests -> SUBSET Fields] /\ todo'[r] = {}
         /\ audit' \in [Requests -> Seq(HistoryRow)] /\ audit'[r] = <<>>
         /\ \A q \in Requests \ {r} : todo'[q] = todo[q] /\ audit'[q] = audit[q]
<1>1. lock' \in [Tasks -> Requests \cup {Free}]
  BY DEF TypeOK, Rollback
<1>2. todo' \in [Requests -> SUBSET Fields] /\ todo'[r] = {}
  BY DEF TypeOK, Rollback
<1>3. audit' \in [Requests -> Seq(HistoryRow)] /\ audit'[r] = <<>>
  BY EmptySeq DEF TypeOK, Rollback
<1> QED
  BY <1>1, <1>2, <1>3 DEF TypeOK, Rollback

LEMMA WriteInv ==
  ASSUME Inv, NEW r \in Requests, Write(r)
  PROVE  Inv'
<1> USE DEF Write, Goto
<1>1. req[r].task \in Tasks /\ Changed(r) \subseteq Fields
  BY InputTypes DEF Inv, TypeOK, Changed
<1>2. audit[r] = <<>>
  BY NoAuditNow
<1>3. TypeOK'
  <2>1. pc' \in [Requests -> {"idle"} \cup InFlight \cup Done]
    BY DEF Inv, TypeOK, InFlight, Connected, InTx, Done
  <2>2. CASE AssigneeExists(Updated(r))
    BY <1>1, <2>1, <2>2 DEF Inv, TypeOK, tables
  <2>3. CASE ~AssigneeExists(Updated(r))
    BY <2>1, <2>3, RollbackTypes DEF Inv, TypeOK, tables
  <2> QED
    BY <2>2, <2>3
<1>4. Evolves /\ TablesInv'
  BY UnchangedTables
<1>5. RequestInv(r)'
  <2>1. CASE AssigneeExists(Updated(r))
    <3>1. pc'[r] = "audit" /\ audit'[r] = <<>> /\ todo'[r] = Changed(r)
      BY <1>2, <2>1 DEF Inv, TypeOK
    <3>2. UNCHANGED <<Changed(r), Updated(r), TeamOf(r)>>
      BY DEF Changed, Updated, TeamOf, tables
    <3>3. AuditInv(r)'
      BY <3>1, <3>2 DEF AuditInv
    <3>4. SnapInv(r)'
      BY <3>1 DEF Inv, tables, RequestInv, SnapInv, Audited, Cleared, Updating
    <3>5. CheckInv(r)'
      BY <2>1, <3>1, <3>2 DEF Inv, tables, RequestInv, CheckInv, IsMember,
                  AssigneeExists, Cleared, Updating
    <3> QED
      BY <3>3, <3>4, <3>5 DEF RequestInv
  <2>2. CASE ~AssigneeExists(Updated(r))
    <3>1. pc'[r] = "error" /\ audit'[r] = <<>> /\ todo'[r] = {}
      BY <2>2, RollbackTypes DEF Inv, TypeOK
    <3> QED
      BY <3>1, Released DEF Done
  <2> QED
    BY <2>1, <2>2
<1> QED
  <2>1. \A q \in Requests \ {r} :
          /\ pc'[q] = pc[q] /\ req'[q] = req[q] /\ snap'[q] = snap[q]
          /\ todo'[q] = todo[q] /\ audit'[q] = audit[q]
    BY RollbackTypes DEF Inv, TypeOK
  <2> QED
    BY <1>3, <1>4, <1>5, <2>1, OthersKeep DEF Inv

LEMMA AuditStepInv ==
  ASSUME Inv, NEW r \in Requests, Audit(r)
  PROVE  Inv'
<1> USE DEF Audit, Goto
<1>1. PICK f \in todo[r] :
        /\ audit' = [audit EXCEPT ![r] = Append(@, AuditRow(r, f))]
        /\ todo' = [todo EXCEPT ![r] = @ \ {f}]
        /\ Goto(r, IF todo[r] = {f} THEN "commit" ELSE "audit")
  OBVIOUS
<1>2. /\ pc'[r] = IF todo[r] = {f} THEN "commit" ELSE "audit"
      /\ todo'[r] = todo[r] \ {f}
      /\ audit'[r] = Append(audit[r], AuditRow(r, f))
  BY <1>1 DEF Inv, TypeOK
<1>3. UNCHANGED <<Changed(r), Updated(r), TeamOf(r)>>
  BY DEF Changed, Updated, TeamOf, tables
<1>4. AuditInv(r) /\ SnapInv(r) /\ CheckInv(r)
  BY DEF Inv, RequestInv
<1>5. f \in Changed(r) /\ f \in Fields
  BY <1>4 DEF AuditInv, Changed
<1>6. AuditRow(r, f) \in HistoryRow
  <2>1. req[r].patch \in Patch /\ req[r].actor \in Users /\ snap[r] \in Content
    BY InputTypes DEF Inv, TypeOK
  <2>2. Updated(r) \in Content
    BY <1>4, <2>1, UpdatedType DEF CheckInv, Updating
  <2>3. \A c \in Content : c[f] \in Values
    BY <1>5 DEF Content, Fields, Values
  <2> QED
    BY <1>5, <2>1, <2>2, <2>3 DEF AuditRow, HistoryRow
<1>7. TypeOK'
  <2>1. audit' \in [Requests -> Seq(HistoryRow)]
    BY <1>1, <1>6, AppendProperties DEF Inv, TypeOK
  <2>2. todo' \in [Requests -> SUBSET Fields]
    BY <1>1 DEF Inv, TypeOK
  <2>3. pc' \in [Requests -> {"idle"} \cup InFlight \cup Done]
    BY <1>1 DEF Inv, TypeOK, InFlight, Connected, InTx
  <2> QED
    BY <2>1, <2>2, <2>3 DEF Inv, TypeOK, tables
<1>8. Evolves /\ TablesInv'
  BY UnchangedTables
<1>9. AuditInv(r)'
  <2>1. audit[r] \in Seq(HistoryRow)
    BY DEF Inv, TypeOK
  <2>2. /\ DOMAIN audit'[r] = DOMAIN audit[r] \cup {Len(audit[r]) + 1}
        /\ Len(audit[r]) + 1 \notin DOMAIN audit[r]
        /\ \A i \in DOMAIN audit[r] : audit'[r][i] = audit[r][i]
        /\ audit'[r][Len(audit[r]) + 1] = AuditRow(r, f)
    BY <1>2, <1>6, <2>1, AppendProperties
  <2>3. \A g : AuditRow(r, g)' = AuditRow(r, g)
    BY <1>3 DEF AuditRow
  <2>4. AuditRow(r, f).field = f
    BY DEF AuditRow
  <2>5. \A i \in DOMAIN audit[r] : audit[r][i].field \in Changed(r) \ todo[r]
    BY <1>4 DEF AuditInv
  <2>6. \A i \in DOMAIN audit'[r] :
          /\ audit'[r][i].field \in Changed(r) \ todo'[r]
          /\ audit'[r][i] = AuditRow(r, audit'[r][i].field)
    BY <1>2, <1>4, <1>5, <2>2, <2>4 DEF AuditInv
  <2>7. \A i, j \in DOMAIN audit'[r] : audit'[r][i].field = audit'[r][j].field => i = j
    BY <1>4, <2>2, <2>4, <2>5 DEF AuditInv
  <2>8. \A g \in Changed(r) \ todo'[r] : \E i \in DOMAIN audit'[r] : audit'[r][i].field = g
    BY <1>2, <1>4, <2>2, <2>4 DEF AuditInv
  <2>9. /\ pc'[r] \in {"audit", "commit"}
        /\ pc'[r] = "commit" => todo'[r] = {}
        /\ todo'[r] \subseteq Changed(r)
    BY <1>2, <1>4 DEF AuditInv
  <2> QED
    BY <1>3, <2>3, <2>6, <2>7, <2>8, <2>9 DEF AuditInv
<1>10. SnapInv(r)'
  BY <1>2, <1>4 DEF tables, SnapInv, Audited, Cleared, Updating
<1>11. CheckInv(r)'
  BY <1>2, <1>3, <1>4 DEF tables, CheckInv, IsMember, AssigneeExists, Cleared, Updating
<1> QED
  BY <1>7, <1>8, <1>9, <1>10, <1>11, OthersKeep DEF Inv, TypeOK, RequestInv

\* Where the elements of a concatenation come from and go to.
Concatenates(a, b, c) ==
  /\ \A i \in DOMAIN a : i \in DOMAIN c /\ c[i] = a[i]
  /\ \A i \in DOMAIN b : Len(a) + i \in DOMAIN c /\ c[Len(a) + i] = b[i]
  /\ \A i \in DOMAIN c : i \in DOMAIN a \/ \E j \in DOMAIN b : i = Len(a) + j

LEMMA ConcatIndices ==
  ASSUME NEW S, NEW a \in Seq(S), NEW b \in Seq(S)
  PROVE  Concatenates(a, b, a \o b)
<1> DEFINE c == a \o b
<1> HIDE DEF c
<1>1. /\ c \in Seq(S)
      /\ Len(c) = Len(a) + Len(b)
      /\ \A i \in 1..(Len(a) + Len(b)) :
           c[i] = IF i <= Len(a) THEN a[i] ELSE b[i - Len(a)]
  BY ConcatProperties DEF c
<1>2. /\ Len(a) \in Nat /\ Len(b) \in Nat
      /\ DOMAIN a = 1..Len(a) /\ DOMAIN b = 1..Len(b) /\ DOMAIN c = 1..(Len(a) + Len(b))
  BY <1>1, LenProperties
<1>3. \A i \in 1..Len(a) : i \in 1..(Len(a) + Len(b)) /\ c[i] = a[i]
  BY <1>1, <1>2
<1>4. \A i \in 1..Len(b) :
        Len(a) + i \in 1..(Len(a) + Len(b)) /\ c[Len(a) + i] = b[i]
  <2> SUFFICES ASSUME NEW i \in 1..Len(b)
               PROVE  Len(a) + i \in 1..(Len(a) + Len(b)) /\ c[Len(a) + i] = b[i]
    OBVIOUS
  <2>1. /\ Len(a) + i \in 1..(Len(a) + Len(b))
        /\ ~(Len(a) + i <= Len(a))
        /\ (Len(a) + i) - Len(a) = i
    BY <1>2
  <2> QED
    BY <1>1, <2>1
<1>5. \A i \in 1..(Len(a) + Len(b)) :
        i \in 1..Len(a) \/ (i - Len(a) \in 1..Len(b) /\ i = Len(a) + (i - Len(a)))
  BY <1>2
<1>6. Concatenates(a, b, c)
  BY <1>2, <1>3, <1>4, <1>5 DEF Concatenates
<1> QED
  BY <1>6 DEF c

\* What COMMIT does to the tables, in terms of the task t of the request.
LEMMA CommitEffect ==
  ASSUME Inv, NEW r \in Requests, Commit(r), NEW t, t = req[r].task
  PROVE  /\ t \in Tasks
         /\ rows[t] # NoRow
         /\ rows[t] \in Row
         /\ rows'[t] = [rows[t] EXCEPT !.fields = Updated(r)]
         /\ Updated(r) \in Content
         /\ history[t] \in Seq(HistoryRow)
         /\ audit[r] \in Seq(HistoryRow)
         /\ history'[t] = history[t] \o audit[r]
         /\ \A u \in Tasks \ {t} : rows'[u] = rows[u] /\ history'[u] = history[u]
<1>1. t \in Tasks /\ req[r].patch \in Patch /\ snap[r] \in Content
  BY InputTypes DEF Inv, TypeOK
<1>2. SnapInv(r) /\ CheckInv(r) /\ pc[r] = "commit"
  BY DEF Inv, RequestInv, Commit
<1>3. rows[t] # NoRow
  BY <1>2 DEF SnapInv, CheckInv, Cleared, Updating
<1>4. Updated(r) \in Content
  BY <1>1, <1>2, UpdatedType DEF CheckInv, Updating
<1>5. /\ rows' = [rows EXCEPT ![t].fields = Updated(r)]
      /\ history' = [history EXCEPT ![t] = @ \o audit[r]]
  BY DEF Commit
<1>6. rows[t] \in Row /\ rows'[t] = [rows[t] EXCEPT !.fields = Updated(r)]
  BY <1>1, <1>3, <1>5 DEF Inv, TypeOK
<1>7. /\ history[t] \in Seq(HistoryRow)
      /\ audit[r] \in Seq(HistoryRow)
      /\ history'[t] = history[t] \o audit[r]
  BY <1>1, <1>5 DEF Inv, TypeOK
<1>8. \A u \in Tasks \ {t} : rows'[u] = rows[u] /\ history'[u] = history[u]
  BY <1>5 DEF Inv, TypeOK
<1> QED
  BY <1>1, <1>3, <1>4, <1>6, <1>7, <1>8

LEMMA CommitInv ==
  ASSUME Inv, NEW r \in Requests, Commit(r)
  PROVE  Inv'
<1> SUFFICES ASSUME NEW t, t = req[r].task PROVE Inv'
  OBVIOUS
<1>1. /\ t \in Tasks /\ rows[t] # NoRow /\ rows[t] \in Row
      /\ rows'[t] = [rows[t] EXCEPT !.fields = Updated(r)]
      /\ Updated(r) \in Content
      /\ history[t] \in Seq(HistoryRow) /\ audit[r] \in Seq(HistoryRow)
      /\ history'[t] = history[t] \o audit[r]
  BY CommitEffect
<1>2. \A u \in Tasks \ {t} : rows'[u] = rows[u] /\ history'[u] = history[u]
  BY CommitEffect
<1>3. Concatenates(history[t], audit[r], history'[t])
  BY <1>1, ConcatIndices
<1>4. rows'[t] \in Row /\ rows'[t] # NoRow
      /\ rows'[t].team = rows[t].team /\ rows'[t].created_by = rows[t].created_by
      /\ rows'[t].fields = Updated(r)
  BY <1>1, NoRowAssumption DEF Row
<1>5. AuditInv(r) /\ SnapInv(r) /\ CheckInv(r) /\ pc[r] = "commit" /\ req[r].kind = "update"
  BY DEF Inv, RequestInv, Commit, CheckInv, Updating
<1>6. pc'[r] = "acknowledge" /\ UNCHANGED <<members, req, snap, original>>
  BY DEF Commit, Goto, Inv, TypeOK
<1>7. TypeOK'
  <2>1. rows' \in [Tasks -> Row \cup {NoRow}]
    BY <1>1, <1>2, <1>4 DEF Inv, TypeOK, Commit
  <2>2. history' \in [Tasks -> Seq(HistoryRow)]
    <3>1. history'[t] \in Seq(HistoryRow)
      BY <1>1, ConcatProperties
    <3>2. \A u \in Tasks : history'[u] \in Seq(HistoryRow)
      BY <1>2, <3>1 DEF Inv, TypeOK
    <3>3. history' = [u \in Tasks |-> history'[u]]
      BY DEF Inv, TypeOK, Commit
    <3> QED
      BY <3>2, <3>3
  <2>3. pc' \in [Requests -> {"idle"} \cup InFlight \cup Done]
    BY DEF Inv, TypeOK, Commit, Goto, InFlight, Connected
  <2>4. raced' \subseteq Tasks
    BY <1>1 DEF Inv, TypeOK, Commit
  <2>5. Rollback(r)
    BY DEF Commit
  <2> QED
    BY <1>6, <2>1, <2>2, <2>3, <2>4, <2>5, RollbackTypes DEF Inv, TypeOK
<1>8. Evolves
  <2>1. ASSUME NEW f \in Fields, NEW v \in Values, Audited(t, f, v)
        PROVE  Audited(t, f, v)'
    BY <1>3, <1>6, <2>1 DEF Audited, Concatenates
  <2>2. ASSUME NEW u \in Tasks \ {t}, NEW f \in Fields, NEW v \in Values, Audited(u, f, v)
        PROVE  Audited(u, f, v)'
    BY <1>2, <1>6, <2>2 DEF Audited
  <2> QED
    BY <1>2, <1>4, <1>6, <2>1, <2>2 DEF Evolves
<1>9. RequestInv(r)'
  BY <1>6, Released, RollbackTypes DEF Commit, Inv
<1>10. TablesInv'
  <2>1. AuthorsAreMembers'
    <3>1. \A i \in DOMAIN audit[r] : audit[r][i].changed_by = req[r].actor
      <4>1. \A i \in DOMAIN audit[r] : audit[r][i] = AuditRow(r, audit[r][i].field)
        BY <1>5 DEF AuditInv
      <4>2. \A f : AuditRow(r, f).changed_by = req[r].actor
        BY DEF AuditRow
      <4> QED
        BY <4>1, <4>2
    <3>2. IsMember(rows[t].team, req[r].actor)
      BY <1>5 DEF CheckInv, Cleared, Updating, TeamOf
    <3>3. \A i \in DOMAIN history[t] : IsMember(rows[t].team, history[t][i].changed_by)
      BY <1>1 DEF Inv, TablesInv, AuthorsAreMembers
    <3>4. IsMember(rows[t].team, rows[t].created_by)
      BY <1>1 DEF Inv, TablesInv, AuthorsAreMembers
    <3>5. \A i \in DOMAIN history'[t] : IsMember(rows[t].team, history'[t][i].changed_by)
      BY <1>3, <3>1, <3>2, <3>3 DEF Concatenates
    <3>6. \A u \in Tasks \ {t} : rows[u] # NoRow =>
            /\ IsMember(rows[u].team, rows[u].created_by)
            /\ \A i \in DOMAIN history[u] : IsMember(rows[u].team, history[u][i].changed_by)
      BY DEF Inv, TablesInv, AuthorsAreMembers
    <3> QED
      BY <1>2, <1>4, <1>6, <3>4, <3>5, <3>6 DEF AuthorsAreMembers, IsMember
  <2>2. EveryValueAudited'
    <3>1. ASSUME NEW f \in Changed(r) PROVE Audited(t, f, Updated(r)[f])'
      <4>1. PICK i \in DOMAIN audit[r] : audit[r][i].field = f
        BY <1>5 DEF AuditInv
      <4>2. audit[r][i].new_value = Updated(r)[f]
        <5>1. audit[r][i] = AuditRow(r, f)
          BY <1>5, <4>1 DEF AuditInv
        <5> QED
          BY <5>1 DEF AuditRow
      <4>3. Updated(r)' = Updated(r)
        BY <1>6 DEF Updated, Changed
      <4> QED
        BY <1>3, <4>1, <4>2, <4>3 DEF Audited, Concatenates
    <3>2. ASSUME NEW f \in Fields \ Changed(r) PROVE Audited(t, f, Updated(r)[f])'
      <4>1. Updated(r)[f] = snap[r][f] /\ snap[r][f] \in Values
        BY DEF Updated, Inv, TypeOK, Content, Fields, Values
      <4>2. Audited(t, f, snap[r][f])
        BY <1>5 DEF SnapInv, Cleared, Updating
      <4>3. Updated(r)' = Updated(r)
        BY <1>6 DEF Updated, Changed
      <4> QED
        BY <1>1, <1>8, <4>1, <4>2, <4>3 DEF Evolves
    <3>3. \A f \in Fields : Audited(t, f, rows[t].fields[f])'
      <4>1. Updated(r)' = Updated(r)
        BY <1>6 DEF Updated, Changed
      <4> QED
        BY <1>4, <3>1, <3>2, <4>1 DEF Audited
    <3>4. \A u \in Tasks \ {t}, f \in Fields : rows[u] # NoRow =>
            Audited(u, f, rows[u].fields[f])
      BY DEF Inv, TablesInv, EveryValueAudited
    <3> QED
      BY <1>2, <1>6, <3>3, <3>4 DEF EveryValueAudited, Audited
  <2>3. Unborn'
    BY <1>2, <1>4 DEF Inv, TablesInv, Unborn
  <2> QED
    BY <2>1, <2>2, <2>3 DEF TablesInv
<1>11. \A q \in Requests \ {r} :
         /\ pc'[q] = pc[q] /\ req'[q] = req[q] /\ snap'[q] = snap[q]
         /\ todo'[q] = todo[q] /\ audit'[q] = audit[q]
  BY <1>6, RollbackTypes DEF Commit, Goto, Inv, TypeOK
<1> QED
  BY <1>7, <1>8, <1>9, <1>10, <1>11, OthersKeep DEF Inv

LEMMA CrashInv ==
  ASSUME Inv, Crash
  PROVE  Inv'
<1>1. pc' = [q \in Requests |-> IF pc[q] \in InFlight THEN "lost" ELSE pc[q]]
      /\ audit' = [q \in Requests |-> <<>>] /\ todo' = [q \in Requests |-> {}]
  BY DEF Crash
<1>2. TypeOK'
  BY <1>1, EmptySeq DEF Inv, TypeOK, Crash, tables, Done
<1>3. Evolves /\ TablesInv'
  BY UnchangedTables DEF Crash
<1>4. ASSUME NEW q \in Requests PROVE RequestInv(q)'
  <2>1. CASE pc[q] = "idle"
    <3>1. pc'[q] = "idle" /\ audit'[q] = <<>> /\ todo'[q] = {}
      BY <1>1, <2>1 DEF InFlight, Connected, InTx
    <3> QED
      BY <3>1, NoAudit DEF RequestInv, SnapInv, CheckInv, Cleared, Updating
  <2>2. CASE pc[q] # "idle"
    <3>1. pc'[q] \in Done /\ audit'[q] = <<>> /\ todo'[q] = {}
      BY <1>1, <2>2 DEF Inv, TypeOK, Done
    <3> QED
      BY <3>1, Released
  <2> QED
    BY <2>1, <2>2
<1> QED
  BY <1>2, <1>3, <1>4 DEF Inv

LEMMA NextInv == Inv /\ [Next]_vars => Inv'
<1> SUFFICES ASSUME Inv, [Next]_vars PROVE Inv'
  OBVIOUS
<1>1. ASSUME NEW team \in Teams, NEW user \in Users, Join(team, user) PROVE Inv'
  BY <1>1, JoinInv
<1>2. ASSUME NEW r \in Requests, NEW in \in Inputs, Start(r, in) PROVE Inv'
  BY <1>2, StartInv
<1>3. ASSUME NEW r \in Requests, Progress(r) PROVE Inv'
  BY <1>3, LoadInv, AuthorizeInv, InsertInv, SelectInv, BeginInv, WriteInv,
     AuditStepInv, CommitInv, AcknowledgeInv DEF Progress
<1>4. ASSUME NEW r \in Requests, Fail(r) PROVE Inv'
  BY <1>4, FailInv
<1>5. CASE Crash
  BY <1>5, CrashInv
<1>6. CASE UNCHANGED vars
  <2>1. Evolves /\ TablesInv'
    BY <1>6, UnchangedTables DEF vars, tables
  <2>2. TypeOK'
    BY <1>6 DEF Inv, TypeOK, vars, tables
  <2>3. \A q \in Requests : RequestInv(q)'
    BY <1>6, <2>1, Frame DEF Inv, vars
  <2> QED
    BY <2>1, <2>2, <2>3 DEF Inv
<1> QED
  BY <1>1, <1>2, <1>3, <1>4, <1>5, <1>6 DEF Next

-----------------------------------------------------------------------------
(* The theorems. *)

LEMMA SpecInv == Spec => []Inv
BY InitInv, NextInv, PTL DEF Spec

\* Every variable of the write side keeps its type.
THEOREM TypeCorrect == Spec => []TypeOK
<1>1. Inv => TypeOK
  BY DEF Inv
<1> QED
  BY <1>1, SpecInv, PTL

\* Membership is read once, several database calls before the write, and still
\* every creator and every author of an audit row is a member.
THEOREM AuthorsMembership == Spec => []AuthorsAreMembers
<1>1. Inv => AuthorsAreMembers
  BY DEF Inv, TablesInv
<1> QED
  BY <1>1, SpecInv, PTL

\* However Updates race, fail or crash, a column only ever holds what the task
\* was created with or what a committed audit row says.
THEOREM ValuesAudited == Spec => []EveryValueAudited
<1>1. Inv => EveryValueAudited
  BY DEF Inv, TablesInv
<1> QED
  BY <1>1, SpecInv, PTL

-----------------------------------------------------------------------------
(* The requests implement AuditedTasks. *)

LEMMA AppendedPart ==
  ASSUME NEW S, NEW a \in Seq(S), NEW b \in Seq(S)
  PROVE  SubSeq(a \o b, Len(a) + 1, Len(a \o b)) = b
<1> DEFINE c == a \o b
           d == SubSeq(c, Len(a) + 1, Len(c))
<1>1. /\ c \in Seq(S) /\ Len(c) = Len(a) + Len(b)
      /\ \A i \in 1..(Len(a) + Len(b)) :
           c[i] = IF i <= Len(a) THEN a[i] ELSE b[i - Len(a)]
  BY ConcatProperties
<1>2. Len(a) \in Nat /\ Len(b) \in Nat
  BY LenProperties
<1> HIDE DEF c
<1>3. \A i \in (Len(a) + 1)..Len(c) : c[i] \in S
  BY <1>1, <1>2, ElementOfSeq
<1>4. /\ d \in Seq(S)
      /\ Len(d) = IF Len(a) + 1 <= Len(c) THEN Len(c) - (Len(a) + 1) + 1 ELSE 0
      /\ \A i \in 1..(Len(c) - (Len(a) + 1) + 1) : d[i] = c[(Len(a) + 1) + i - 1]
  BY <1>1, <1>2, <1>3, SubSeqProperties
<1> HIDE DEF d
<1>5. Len(d) = Len(b)
  BY <1>1, <1>2, <1>4
<1>6. ASSUME NEW i \in 1..Len(d) PROVE d[i] = b[i]
  <2>1. /\ i \in 1..(Len(c) - (Len(a) + 1) + 1)
        /\ (Len(a) + 1) + i - 1 = Len(a) + i
        /\ Len(a) + i \in 1..(Len(a) + Len(b))
        /\ ~(Len(a) + i <= Len(a))
        /\ (Len(a) + i) - Len(a) = i
    BY <1>1, <1>2, <1>5
  <2> QED
    BY <1>1, <1>4, <2>1
<1>7. d = b
  BY <1>4, <1>5, <1>6, SeqEqual
<1> QED
  BY <1>7 DEF d, c

LEMMA AbstractInit == Init => Abstract!Init
BY DEF Init, Abstract!Init

LEMMA AbstractJoin ==
  ASSUME NEW team \in Teams, NEW user \in Users, Join(team, user)
  PROVE  Abstract!Next
BY DEF Join, Abstract!Join, Abstract!Next

\* An INSERT is a Create of the abstract service, and its refusal no step.
LEMMA AbstractCreate ==
  ASSUME Inv, NEW r \in Requests, Insert(r)
  PROVE  Abstract!Next \/ UNCHANGED Abstract!vars
<1>1. CASE UNCHANGED <<rows, original>>
  BY <1>1 DEF Insert, Abstract!vars
<1>2. CASE AssigneeExists(NewContent(req[r].patch)) /\ InsertRow(r)
  <2>1. PICK t \in Tasks :
          /\ rows[t] = NoRow
          /\ rows' = [rows EXCEPT ![t] = [team       |-> req[r].team,
                                          created_by |-> req[r].actor,
                                          fields     |-> NewContent(req[r].patch)]]
          /\ original' = [original EXCEPT ![t] = NewContent(req[r].patch)]
    BY <1>2 DEF InsertRow
  <2>2. /\ rows'[t] = [team |-> req[r].team, created_by |-> req[r].actor,
                       fields |-> NewContent(req[r].patch)]
        /\ original'[t] = NewContent(req[r].patch)
        /\ \A u \in Tasks \ {t} : rows'[u] = rows[u] /\ original'[u] = original[u]
    BY <2>1 DEF Inv, TypeOK
  <2>3. IsMember(req[r].team, req[r].actor)
    BY DEF Inv, RequestInv, CheckInv, Insert, TeamOf, Cleared
  <2>4. rows'[t] # NoRow
    BY <1>2, <2>2, NewRow
  <2>5. Abstract!Create(t)
    BY <2>1, <2>2, <2>3, <2>4 DEF Abstract!Create, Abstract!IsMember, IsMember, Insert
  <2> QED
    BY <2>5 DEF Abstract!Next
<1> QED
  BY <1>1, <1>2 DEF Insert

\* A COMMIT is an Amend.
LEMMA AbstractAmend ==
  ASSUME Inv, NEW r \in Requests, Commit(r)
  PROVE  Abstract!Next
<1> SUFFICES ASSUME NEW t, t = req[r].task PROVE Abstract!Next
  OBVIOUS
<1>1. /\ t \in Tasks /\ rows[t] # NoRow /\ rows[t] \in Row
      /\ rows'[t] = [rows[t] EXCEPT !.fields = Updated(r)]
      /\ Updated(r) \in Content
      /\ history[t] \in Seq(HistoryRow) /\ audit[r] \in Seq(HistoryRow)
      /\ history'[t] = history[t] \o audit[r]
      /\ \A u \in Tasks \ {t} : rows'[u] = rows[u]
  BY CommitEffect
<1>2. Abstract!Appended(t) = audit[r]
  <2>1. history[t] \in Seq(HistoryRow) /\ audit[r] \in Seq(HistoryRow)
    BY <1>1
  <2>2. SubSeq(history[t] \o audit[r], Len(history[t]) + 1, Len(history[t] \o audit[r]))
          = audit[r]
    BY <2>1, AppendedPart
  <2>3. history'[t] = history[t] \o audit[r]
    BY <1>1
  <2> QED
    BY <2>2, <2>3 DEF Abstract!Appended
<1>3. AuditInv(r) /\ SnapInv(r) /\ CheckInv(r) /\ pc[r] = "commit"
  BY DEF Inv, RequestInv, Commit
<1>4. /\ rows'[t].team = rows[t].team /\ rows'[t].created_by = rows[t].created_by
      /\ rows'[t].fields = Updated(r)
  BY <1>1 DEF Row
<1>5. /\ req[r].actor \in Users
      /\ IsMember(rows[t].team, req[r].actor)
  BY <1>3, InputTypes DEF Inv, TypeOK, CheckInv, TeamOf, Cleared, Updating
<1>6. \A i \in DOMAIN audit[r] :
        /\ audit[r][i].changed_by = req[r].actor
        /\ rows'[t].fields[audit[r][i].field] = audit[r][i].new_value
        /\ \A j \in DOMAIN audit[r] : audit[r][i].field = audit[r][j].field => i = j
  <2>1. \A i \in DOMAIN audit[r] : audit[r][i] = AuditRow(r, audit[r][i].field)
    BY <1>3 DEF AuditInv
  <2>2. \A f : AuditRow(r, f).changed_by = req[r].actor
               /\ AuditRow(r, f).new_value = Updated(r)[f]
    BY DEF AuditRow
  <2>3. \A i, j \in DOMAIN audit[r] : audit[r][i].field = audit[r][j].field => i = j
    BY <1>3 DEF AuditInv
  <2> QED
    BY <1>4, <2>1, <2>2, <2>3
<1>7. audit[r] # <<>>
  <2>1. PICK f \in Changed(r) : TRUE
    BY <1>3 DEF CheckInv, Updating
  <2>2. \E i \in DOMAIN audit[r] : audit[r][i].field = f
    BY <1>3 DEF AuditInv
  <2> QED
    BY <2>2
<1>8. \A f \in Fields \ Abstract!AuditedFields(audit[r]) :
        rows'[t].fields[f] \in Abstract!Held(t, f)
  <2> SUFFICES ASSUME NEW f \in Fields,
                      \A i \in DOMAIN audit[r] : audit[r][i].field # f
               PROVE  Updated(r)[f] \in Abstract!Held(t, f)
    BY <1>4 DEF Abstract!AuditedFields
  <2>1. f \notin Changed(r)
    BY <1>3 DEF AuditInv
  <2>2. Updated(r)[f] = snap[r][f]
    BY <2>1 DEF Updated
  <2>3. Audited(t, f, snap[r][f])
    BY <1>3 DEF SnapInv, CheckInv, Cleared, Updating
  <2> QED
    BY <2>2, <2>3 DEF Audited, Abstract!Held
<1>9. Abstract!Amend(t, req[r].actor, audit[r])
  <2>1. history' = [history EXCEPT ![t] = @ \o audit[r]] /\ UNCHANGED <<members, original>>
    BY DEF Commit
  <2> QED
    BY <1>1, <1>4, <1>5, <1>6, <1>7, <1>8, <2>1
       DEF Abstract!Amend, Abstract!IsMember, IsMember
<1> QED
  BY <1>1, <1>2, <1>5, <1>9 DEF Abstract!Next

LEMMA AbstractNext == Inv /\ [Next]_vars => [Abstract!Next]_Abstract!vars
<1> SUFFICES ASSUME Inv, [Next]_vars PROVE Abstract!Next \/ UNCHANGED Abstract!vars
  OBVIOUS
<1> USE DEF tables, Abstract!vars
<1>1. ASSUME NEW team \in Teams, NEW user \in Users, Join(team, user) PROVE Abstract!Next
  BY <1>1, AbstractJoin
<1>2. ASSUME NEW r \in Requests, NEW in \in Inputs, Start(r, in)
      PROVE  UNCHANGED Abstract!vars
  BY <1>2 DEF Start
<1>3. ASSUME NEW r \in Requests, Progress(r) PROVE Abstract!Next \/ UNCHANGED Abstract!vars
  <2>1. CASE Insert(r)
    BY <2>1, AbstractCreate
  <2>2. CASE Commit(r)
    BY <2>2, AbstractAmend
  <2>3. CASE Load(r) \/ Authorize(r) \/ Select(r) \/ Begin(r) \/ Write(r) \/ Audit(r)
             \/ Acknowledge(r)
    BY <2>3 DEF Load, Authorize, Select, Begin, Write, Audit, Acknowledge
  <2> QED
    BY <1>3, <2>1, <2>2, <2>3 DEF Progress
<1>4. ASSUME NEW r \in Requests, Fail(r) PROVE UNCHANGED Abstract!vars
  BY <1>4 DEF Fail
<1>5. CASE Crash
  BY <1>5 DEF Crash
<1>6. CASE UNCHANGED vars
  BY <1>6 DEF vars
<1> QED
  BY <1>1, <1>2, <1>3, <1>4, <1>5, <1>6 DEF Next

\* The concurrent, failing requests implement the abstract service, whose tasks
\* are created whole and amended by one member in one step with their audit.
THEOREM Refinement == Spec => ImplementsAuditedTasks
BY AbstractInit, AbstractNext, SpecInv, PTL
   DEF Spec, ImplementsAuditedTasks, Abstract!Spec

-----------------------------------------------------------------------------
(* Updates are atomic. *)

\* The points after the statement that commits.
Ended == {"acknowledge", "ok", "error", "lost"}

\* What request r has committed: only a request past its COMMIT has any audit
\* rows, and one that knows its COMMIT has succeeded has them all.
AtomInv(r) ==
  /\ AuditedBy(r) \in {{}, Changed(r)}
  /\ pc[r] \notin Ended => AuditedBy(r) = {}
  /\ pc[r] \in {"acknowledge", "ok"} /\ req[r].kind = "update" => AuditedBy(r) = Changed(r)
  /\ pc[r] = "select" => req[r].kind = "history"

\* The rest of the invariant, for a request that stays where it is.
LEMMA AtomFrame ==
  ASSUME NEW r \in Requests, AtomInv(r), AuditedBy(r)' = AuditedBy(r),
         pc'[r] = pc[r], req'[r] = req[r], snap'[r] = snap[r]
  PROVE  AtomInv(r)'
<1>1. Changed(r)' = Changed(r)
  BY DEF Changed
<1> QED
  BY <1>1 DEF AtomInv

LEMMA AuditedByKept ==
  ASSUME NEW r \in Requests, UNCHANGED history
  PROVE  AuditedBy(r)' = AuditedBy(r)
BY DEF AuditedBy

\* A request's own steps before its COMMIT, after it, and beside it.
LEMMA AtomOwn ==
  ASSUME Inv, NEW r \in Requests, AtomInv(r), UNCHANGED history,
         \/ \E in \in Inputs : Start(r, in)
         \/ Load(r) \/ Authorize(r) \/ Insert(r) \/ Select(r) \/ Begin(r)
         \/ Write(r) \/ Audit(r) \/ Acknowledge(r) \/ Fail(r)
  PROVE  AtomInv(r)'
<1>0. AuditedBy(r)' = AuditedBy(r)
  BY AuditedByKept
<1>t. pc \in [Requests -> {"idle"} \cup InFlight \cup Done] /\ req[r] \in Inputs
  BY DEF Inv, TypeOK
<1>k. req[r].kind \in {"create", "update", "history"}
  BY <1>t, InputTypes DEF Input
<1>c. CheckInv(r)
  BY DEF Inv, RequestInv
<1>1. ASSUME NEW in \in Inputs, Start(r, in) PROVE AtomInv(r)'
  <2>1. pc[r] = "idle" /\ pc'[r] \in {"authorize", "load"}
    BY <1>1, <1>t DEF Start, Goto
  <2> QED
    BY <1>0, <2>1 DEF AtomInv, Ended
<1>2. CASE Load(r)
  <2>1. pc[r] = "load" /\ pc'[r] \in {"authorize", "notfound"}
    BY <1>2, <1>t DEF Load, Goto
  <2> QED
    BY <1>0, <2>1 DEF AtomInv, Ended
<1>3. ASSUME UNCHANGED <<req, snap>>, pc'[r] \notin {"acknowledge", "ok", "select"},
             pc[r] \notin Ended \/ pc'[r] \in Ended
      PROVE  AtomInv(r)'
  <2>1. Changed(r)' = Changed(r)
    BY <1>3 DEF Changed
  <2> QED
    BY <1>0, <1>3, <2>1 DEF AtomInv
<1>4. CASE Authorize(r)
  <2>1. /\ pc[r] = "authorize" /\ UNCHANGED <<req, snap>>
        /\ pc'[r] = IF IsMember(TeamOf(r), req[r].actor) THEN AfterValidation(r) ELSE "forbidden"
    BY <1>4, <1>t DEF Authorize, Goto
  <2>2. Changed(r)' = Changed(r)
    BY <2>1 DEF Changed
  <2>3. AuditedBy(r) = {}
    BY <2>1 DEF AtomInv, Ended
  <2>4. /\ AfterValidation(r) \in {"select", "insert", "invalid", "ok", "begin"}
        /\ AfterValidation(r) = "select" => req[r].kind = "history"
        /\ AfterValidation(r) = "ok" => Changed(r) = {}
    BY <1>k DEF AfterValidation
  <2> QED
    BY <1>0, <2>1, <2>2, <2>3, <2>4 DEF AtomInv, Ended
<1>5. CASE Insert(r)
  <2>1. /\ pc[r] = "insert" /\ UNCHANGED <<req, snap>> /\ pc'[r] \in {"acknowledge", "error"}
        /\ req[r].kind = "create"
    BY <1>5, <1>t, <1>c DEF Insert, Goto, CheckInv
  <2>2. Changed(r)' = Changed(r)
    BY <2>1 DEF Changed
  <2> QED
    BY <1>0, <2>1, <2>2 DEF AtomInv, Ended
<1>6. CASE Select(r)
  <2>1. pc[r] = "select" /\ UNCHANGED <<req, snap>> /\ pc'[r] = "ok"
    BY <1>6, <1>t DEF Select, Goto
  <2>2. Changed(r)' = Changed(r)
    BY <2>1 DEF Changed
  <2> QED
    BY <1>0, <2>1, <2>2 DEF AtomInv, Ended
<1>7. CASE Begin(r)
  <2>1. pc[r] = "begin" /\ UNCHANGED <<req, snap>> /\ pc'[r] = "write"
    BY <1>7, <1>t DEF Begin, Goto
  <2> QED
    BY <1>3, <2>1 DEF Ended
<1>8. CASE Write(r)
  <2>1. pc[r] = "write" /\ UNCHANGED <<req, snap>> /\ pc'[r] \in {"audit", "error"}
    BY <1>8, <1>t DEF Write, Goto
  <2> QED
    BY <1>3, <2>1 DEF Ended
<1>9. CASE Audit(r)
  <2>1. pc[r] = "audit" /\ UNCHANGED <<req, snap>> /\ pc'[r] \in {"audit", "commit"}
    BY <1>9, <1>t DEF Audit, Goto
  <2> QED
    BY <1>3, <2>1 DEF Ended
<1>10. CASE Acknowledge(r)
  <2>1. pc[r] = "acknowledge" /\ UNCHANGED <<req, snap>> /\ pc'[r] = "ok"
    BY <1>10, <1>t DEF Acknowledge, Goto
  <2>2. Changed(r)' = Changed(r)
    BY <2>1 DEF Changed
  <2> QED
    BY <1>0, <2>1, <2>2 DEF AtomInv, Ended
<1>11. CASE Fail(r)
  <2>1. UNCHANGED <<req, snap>> /\ pc'[r] = "error"
    BY <1>11, <1>t DEF Fail, Goto
  <2> QED
    BY <1>3, <2>1 DEF Ended
<1> QED
  BY <1>1, <1>2, <1>4, <1>5, <1>6, <1>7, <1>8, <1>9, <1>10, <1>11

\* A COMMIT gives a request all its audit rows, and no other request any.
LEMMA AtomCommit ==
  ASSUME Inv, NEW r \in Requests, Commit(r)
  PROVE  /\ AtomInv(r) => AtomInv(r)'
         /\ \A q \in Requests \ {r} : AuditedBy(q)' = AuditedBy(q)
<1> SUFFICES ASSUME NEW t, t = req[r].task
             PROVE  /\ AtomInv(r) => AtomInv(r)'
                    /\ \A q \in Requests \ {r} : AuditedBy(q)' = AuditedBy(q)
  OBVIOUS
<1>1. /\ t \in Tasks
      /\ history[t] \in Seq(HistoryRow) /\ audit[r] \in Seq(HistoryRow)
      /\ history'[t] = history[t] \o audit[r]
      /\ \A u \in Tasks \ {t} : history'[u] = history[u]
  BY CommitEffect
<1>2. Concatenates(history[t], audit[r], history'[t])
  BY <1>1, ConcatIndices
<1>3. AuditInv(r) /\ pc[r] = "commit"
  BY DEF Inv, RequestInv, Commit
<1>4. \A i \in DOMAIN audit[r] : audit[r][i].cause = r /\ audit[r][i].field \in Changed(r)
  <2>1. \A f : AuditRow(r, f).cause = r
    BY DEF AuditRow
  <2> QED
    BY <1>3, <2>1 DEF AuditInv
<1>5. ASSUME NEW q \in Requests, NEW f
      PROVE  (\E i \in DOMAIN history'[t] : history'[t][i].cause = q /\ history'[t][i].field = f)
             <=> \/ \E i \in DOMAIN history[t] : history[t][i].cause = q /\ history[t][i].field = f
                 \/ \E i \in DOMAIN audit[r] : audit[r][i].cause = q /\ audit[r][i].field = f
  BY <1>2 DEF Concatenates
<1>6. ASSUME NEW q \in Requests
      PROVE  AuditedBy(q)' = AuditedBy(q) \cup
               {f \in Fields : \E i \in DOMAIN audit[r] :
                                 audit[r][i].cause = q /\ audit[r][i].field = f}
  <2> DEFINE In(h, f) == \E i \in DOMAIN h : h[i].cause = q /\ h[i].field = f
  <2>1. AuditedBy(q) = {f \in Fields : \E u \in Tasks : In(history[u], f)}
    BY DEF AuditedBy
  <2>2. AuditedBy(q)' = {f \in Fields : \E u \in Tasks : In(history'[u], f)}
    BY DEF AuditedBy
  <2>3. \A f : In(history'[t], f) <=> In(history[t], f) \/ In(audit[r], f)
    BY <1>5, <1>6
  <2>4. \A u \in Tasks \ {t} : history'[u] = history[u]
    BY <1>1
  <2> HIDE DEF In
  <2>5. \A f : (\E u \in Tasks : In(history'[u], f))
               <=> (\E u \in Tasks : In(history[u], f)) \/ In(audit[r], f)
    BY <1>1, <2>3, <2>4
  <2>6. AuditedBy(q)' = AuditedBy(q) \cup {f \in Fields : In(audit[r], f)}
    BY <2>1, <2>2, <2>5
  <2> QED
    BY <2>6 DEF In
<1>7. \A q \in Requests \ {r} : AuditedBy(q)' = AuditedBy(q)
  BY <1>4, <1>6
<1>8. ASSUME AtomInv(r) PROVE AtomInv(r)'
  <2>1. AuditedBy(r) = {}
    BY <1>3, <1>8 DEF AtomInv, Ended
  <2>2. {f \in Fields : \E i \in DOMAIN audit[r] :
                          audit[r][i].cause = r /\ audit[r][i].field = f} = Changed(r)
    <3>1. \A f \in Changed(r) : \E i \in DOMAIN audit[r] : audit[r][i].field = f
      BY <1>3 DEF AuditInv
    <3> QED
      BY <1>4, <3>1 DEF Changed
  <2>3. AuditedBy(r)' = Changed(r)
    BY <1>6, <2>1, <2>2
  <2>4. Changed(r)' = Changed(r)
    BY DEF Commit, Changed
  <2>5. pc'[r] = "acknowledge"
    BY DEF Commit, Goto, Inv, TypeOK
  <2> QED
    BY <2>3, <2>4, <2>5 DEF AtomInv, Ended
<1> QED
  BY <1>7, <1>8

\* A step of one request, seen from another.
LEMMA OthersStay ==
  ASSUME Inv, NEW r \in Requests, NEW q \in Requests \ {r},
         (\E in \in Inputs : Start(r, in)) \/ Progress(r) \/ Fail(r)
  PROVE  pc'[q] = pc[q] /\ req'[q] = req[q] /\ snap'[q] = snap[q]
<1> USE DEF Inv, TypeOK, Goto
<1>1. ASSUME NEW in \in Inputs, Start(r, in)
      PROVE  pc'[q] = pc[q] /\ req'[q] = req[q] /\ snap'[q] = snap[q]
  BY <1>1 DEF Start
<1>2. CASE Load(r)
  BY <1>2 DEF Load
<1>3. CASE Authorize(r) \/ Insert(r) \/ Select(r) \/ Begin(r)
  BY <1>3 DEF Authorize, Insert, Select, Begin
<1>4. CASE Write(r) \/ Audit(r) \/ Commit(r) \/ Acknowledge(r) \/ Fail(r)
  BY <1>4 DEF Write, Audit, Commit, Acknowledge, Fail
<1> QED
  BY <1>1, <1>2, <1>3, <1>4 DEF Progress

\* Nothing but a COMMIT adds audit rows.
LEMMA HistoryKept ==
  ASSUME NEW r \in Requests, (\E in \in Inputs : Start(r, in)) \/ Progress(r) \/ Fail(r)
  PROVE  UNCHANGED history \/ Commit(r)
BY DEF Start, Progress, Fail, Load, Authorize, Insert, Select, Begin, Write, Audit,
       Acknowledge, tables

LEMMA AtomStep ==
  ASSUME Inv, [Next]_vars, NEW q \in Requests, AtomInv(q)
  PROVE  AtomInv(q)'
<1>1. ASSUME NEW team \in Teams, NEW user \in Users, Join(team, user) PROVE AtomInv(q)'
  BY <1>1, AuditedByKept, AtomFrame DEF Join
<1>2. ASSUME NEW r \in Requests, (\E in \in Inputs : Start(r, in)) \/ Progress(r) \/ Fail(r)
      PROVE  AtomInv(q)'
  <2>1. CASE q = r /\ Commit(r)
    BY <2>1, AtomCommit
  <2>2. CASE q = r /\ ~Commit(r)
    <3>1. UNCHANGED history
      BY <1>2, <2>2, HistoryKept
    <3> QED
      BY <1>2, <2>2, <3>1, AtomOwn DEF Progress
  <2>3. CASE q # r
    <3>1. pc'[q] = pc[q] /\ req'[q] = req[q] /\ snap'[q] = snap[q]
      BY <1>2, <2>3, OthersStay
    <3>2. AuditedBy(q)' = AuditedBy(q)
      BY <1>2, <2>3, HistoryKept, AuditedByKept, AtomCommit
    <3> QED
      BY <3>1, <3>2, AtomFrame
  <2> QED
    BY <2>1, <2>2, <2>3
<1>3. CASE Crash
  <2>1. /\ pc'[q] = IF pc[q] \in InFlight THEN "lost" ELSE pc[q]
        /\ UNCHANGED <<history, req, snap>>
    BY <1>3 DEF Crash, tables, Inv, TypeOK
  <2>2. AuditedBy(q)' = AuditedBy(q) /\ Changed(q)' = Changed(q)
    BY <2>1, AuditedByKept DEF Changed
  <2>3. CASE pc[q] \in InFlight
    BY <2>1, <2>2, <2>3 DEF AtomInv, Ended
  <2>4. CASE pc[q] \notin InFlight
    BY <2>1, <2>2, <2>4 DEF AtomInv
  <2> QED
    BY <2>3, <2>4
<1>4. CASE UNCHANGED vars
  BY <1>4, AuditedByKept, AtomFrame DEF vars, tables
<1> QED
  BY <1>1, <1>2, <1>3, <1>4 DEF Next

LEMMA AtomInit == Init => \A r \in Requests : AtomInv(r)
BY DEF Init, AtomInv, AuditedBy, Ended

\* However it ends, an Update has committed the audit rows of all its changes or
\* of none, and of all if it was answered 200.
THEOREM UpdatesAtomic == Spec => []UpdatesAreAtomic
<1>1. Inv /\ (\A r \in Requests : AtomInv(r)) /\ [Next]_vars => (\A r \in Requests : AtomInv(r))'
  BY AtomStep
<1>2. (\A r \in Requests : AtomInv(r)) => UpdatesAreAtomic
  BY DEF AtomInv, UpdatesAreAtomic, Ended
<1> QED
  BY AtomInit, SpecInv, <1>1, <1>2, PTL DEF Spec

-----------------------------------------------------------------------------
(* The trail explains the tasks that no Update overwrote unread. *)

\* ReplaysTo of a trail h, over the columns o.
Replay(h, o, f, n, v) ==
  \/ /\ \A i \in 1..n : h[i].field # f
     /\ v = o[f]
  \/ \E i \in 1..n :
       /\ h[i].field = f
       /\ h[i].new_value = v
       /\ \A j \in (i + 1)..n : h[j].field # f

\* What of a trail and the audit rows after it a replay sees.
Joins(a, b, h) ==
  /\ Len(a) \in Nat /\ Len(b) \in Nat /\ Len(h) = Len(a) + Len(b)
  /\ \A i \in 1..Len(a) : h[i] = a[i]
  /\ \A i \in 1..Len(b) : h[Len(a) + i] = b[i]

LEMMA ConcatJoins ==
  ASSUME NEW S, NEW a \in Seq(S), NEW b \in Seq(S)
  PROVE  Joins(a, b, a \o b)
<1>1. /\ DOMAIN a = 1..Len(a) /\ DOMAIN b = 1..Len(b)
      /\ Len(a) \in Nat /\ Len(b) \in Nat /\ Len(a \o b) = Len(a) + Len(b)
  BY LenProperties, ConcatProperties
<1>2. Concatenates(a, b, a \o b)
  BY ConcatIndices
<1> QED
  BY <1>1, <1>2 DEF Joins, Concatenates

\* A replay of the old part is not changed by what comes after it.
LEMMA ReplayOfOld ==
  ASSUME NEW a, NEW b, NEW h, Joins(a, b, h), NEW o, NEW f, NEW v,
         NEW n \in 0..Len(a), Replay(a, o, f, n, v)
  PROVE  Replay(h, o, f, n, v)
<1>1. \A i \in 1..n : h[i] = a[i] /\ \A j \in (i + 1)..n : h[j] = a[j]
  BY DEF Joins
<1> QED
  BY <1>1 DEF Replay

\* Audit rows of other columns do not change what a replay leaves in one.
LEMMA ReplayPast ==
  ASSUME NEW a, NEW b, NEW h, Joins(a, b, h), NEW o, NEW f, NEW v,
         NEW k \in 0..Len(b), \A i \in 1..k : b[i].field # f,
         Replay(a, o, f, Len(a), v)
  PROVE  Replay(h, o, f, Len(a) + k, v)
<1>1. Len(a) \in Nat /\ Len(b) \in Nat
  BY DEF Joins
<1>2. \A i \in 1..Len(a) : h[i] = a[i]
  BY DEF Joins
<1>3. \A j \in (Len(a) + 1)..(Len(a) + k) : h[j].field # f
  <2> TAKE j \in (Len(a) + 1)..(Len(a) + k)
  <2>1. j - Len(a) \in 1..k /\ j - Len(a) \in 1..Len(b) /\ Len(a) + (j - Len(a)) = j
    BY <1>1
  <2>2. h[j] = b[j - Len(a)]
    BY <2>1 DEF Joins
  <2> QED
    BY <2>1, <2>2
<1>4. CASE (\A i \in 1..Len(a) : a[i].field # f) /\ v = o[f]
  <2>1. \A i \in 1..(Len(a) + k) : h[i].field # f
    BY <1>1, <1>2, <1>3, <1>4
  <2> QED
    BY <1>4, <2>1 DEF Replay
<1>5. CASE \E i \in 1..Len(a) : /\ a[i].field = f /\ a[i].new_value = v
                                /\ \A j \in (i + 1)..Len(a) : a[j].field # f
  <2>1. PICK i \in 1..Len(a) : /\ a[i].field = f /\ a[i].new_value = v
                               /\ \A j \in (i + 1)..Len(a) : a[j].field # f
    BY <1>5
  <2>2. i \in 1..(Len(a) + k) /\ h[i].field = f /\ h[i].new_value = v
    BY <1>1, <1>2, <2>1
  <2>3. \A j \in (i + 1)..(Len(a) + k) : h[j].field # f
    BY <1>1, <1>2, <1>3, <2>1
  <2> QED
    BY <2>2, <2>3 DEF Replay
<1> QED
  BY <1>4, <1>5 DEF Replay

\* A column's one audit row among the new ones is what a replay leaves in it.
LEMMA ReplayOfNew ==
  ASSUME NEW a, NEW b, NEW h, Joins(a, b, h), NEW o, NEW f,
         NEW i \in 1..Len(b), b[i].field = f,
         \A j \in 1..Len(b) : b[j].field = f => j = i
  PROVE  Replay(h, o, f, Len(h), b[i].new_value)
<1>1. Len(a) \in Nat /\ Len(b) \in Nat /\ Len(h) = Len(a) + Len(b)
  BY DEF Joins
<1>2. Len(a) + i \in 1..Len(h) /\ h[Len(a) + i] = b[i]
  BY <1>1 DEF Joins
<1>3. \A j \in (Len(a) + i + 1)..Len(h) : h[j].field # f
  <2> TAKE j \in (Len(a) + i + 1)..Len(h)
  <2>1. j - Len(a) \in 1..Len(b) /\ Len(a) + (j - Len(a)) = j /\ j - Len(a) # i
    BY <1>1
  <2>2. h[j] = b[j - Len(a)]
    BY <2>1 DEF Joins
  <2> QED
    BY <2>1, <2>2
<1> QED
  BY <1>2, <1>3 DEF Replay

\* What TrailExplainsUnracedTasks says of one task, in the terms of Replay.
ExplainedBy(h, o, fields) ==
  /\ \A f \in Fields : Replay(h, o, f, Len(h), fields[f])
  /\ \A i \in DOMAIN h : Replay(h, o, h[i].field, i - 1, h[i].old_value)

LEMMA ExplainedMeans ==
  ASSUME NEW t \in Tasks
  PROVE  ExplainedBy(history[t], original[t], rows[t].fields) <=> Explained(t) /\ Chained(t)
BY DEF ExplainedBy, Explained, Chained, Replay, ReplaysTo

\* A transaction that writes what it read, but for what it audits, keeps a trail
\* that explains the task.
LEMMA TrailAmended ==
  ASSUME Inv, NEW r \in Requests, Commit(r), NEW t, t = req[r].task,
         rows[t].fields = snap[r],
         ExplainedBy(history[t], original[t], rows[t].fields)
  PROVE  ExplainedBy(history'[t], original[t], Updated(r))
<1> DEFINE a == history[t]
           b == audit[r]
           h == history'[t]
           o == original[t]
<1>1. a \in Seq(HistoryRow) /\ b \in Seq(HistoryRow) /\ h = a \o b
  BY CommitEffect
<1>2. Joins(a, b, h) /\ DOMAIN a = 1..Len(a) /\ DOMAIN b = 1..Len(b) /\ DOMAIN h = 1..Len(h)
  <2>1. h \in Seq(HistoryRow)
    BY <1>1, ConcatProperties
  <2> QED
    BY <1>1, <2>1, ConcatJoins, LenProperties
<1>3. /\ \A i \in DOMAIN b : /\ b[i].field \in Changed(r)
                             /\ b[i].old_value = snap[r][b[i].field]
                             /\ b[i].new_value = Updated(r)[b[i].field]
                             /\ \A j \in DOMAIN b : b[i].field = b[j].field => i = j
      /\ \A f \in Changed(r) : \E i \in DOMAIN b : b[i].field = f
  <2>1. AuditInv(r) /\ pc[r] = "commit"
    BY DEF Inv, RequestInv, Commit
  <2>2. \A f : AuditRow(r, f).old_value = snap[r][f] /\ AuditRow(r, f).new_value = Updated(r)[f]
    BY DEF AuditRow
  <2> QED
    BY <2>1, <2>2 DEF AuditInv
<1>4. \A f \in Fields : Replay(a, o, f, Len(a), snap[r][f])
  BY DEF ExplainedBy
<1>5. \A i \in DOMAIN a : Replay(a, o, a[i].field, i - 1, a[i].old_value)
  BY DEF ExplainedBy
<1>6. Changed(r) \subseteq Fields
  BY DEF Changed
<1>7. Len(a) \in Nat /\ Len(b) \in Nat /\ Len(h) = Len(a) + Len(b)
  BY <1>2 DEF Joins
<1> HIDE DEF a, b, h, o
<1>8. ASSUME NEW f \in Fields PROVE Replay(h, o, f, Len(h), Updated(r)[f])
  <2>1. CASE f \in Changed(r)
    <3>1. PICK i \in 1..Len(b) : b[i].field = f
      BY <1>2, <1>3, <2>1
    <3>2. \A j \in 1..Len(b) : b[j].field = f => j = i
      BY <1>2, <1>3, <3>1
    <3>3. b[i].new_value = Updated(r)[f]
      BY <1>2, <1>3, <3>1
    <3> QED
      BY <1>2, <3>1, <3>2, <3>3, ReplayOfNew
  <2>2. CASE f \notin Changed(r)
    <3>1. Updated(r)[f] = snap[r][f]
      BY <2>2 DEF Updated
    <3>2. \A i \in 1..Len(b) : b[i].field # f
      BY <1>2, <1>3, <2>2
    <3>3. Replay(h, o, f, Len(a) + Len(b), snap[r][f])
      BY <1>2, <1>4, <1>7, <3>2, ReplayPast
    <3> QED
      BY <1>7, <3>1, <3>3
  <2> QED
    BY <2>1, <2>2
<1>9. ASSUME NEW i \in 1..Len(h) PROVE Replay(h, o, h[i].field, i - 1, h[i].old_value)
  <2>1. CASE i <= Len(a)
    <3>1. i \in 1..Len(a) /\ i - 1 \in 0..Len(a) /\ h[i] = a[i]
      BY <1>2, <1>7, <2>1 DEF Joins
    <3>2. Replay(a, o, a[i].field, i - 1, a[i].old_value)
      BY <1>2, <1>5, <3>1
    <3> QED
      BY <1>2, <3>1, <3>2, ReplayOfOld
  <2>2. CASE i > Len(a)
    <3> DEFINE k == i - Len(a)
    <3>1. k \in 1..Len(b) /\ k - 1 \in 0..Len(b) /\ Len(a) + k = i /\ Len(a) + (k - 1) = i - 1
      BY <1>7, <2>2
    <3>2. h[Len(a) + k] = b[k]
      BY <1>2, <3>1 DEF Joins
    <3> HIDE DEF k
    <3>3. h[i] = b[k]
      BY <3>1, <3>2
    <3>4. /\ b[k].field \in Fields /\ b[k].old_value = snap[r][b[k].field]
          /\ \A j \in 1..Len(b) : b[k].field = b[j].field => k = j
      BY <1>2, <1>3, <1>6, <3>1
    <3>5. \A j \in 1..(k - 1) : b[j].field # b[k].field
      <4> TAKE j \in 1..(k - 1)
      <4>1. j \in 1..Len(b) /\ j # k
        BY <1>7, <3>1
      <4> QED
        BY <3>4, <4>1
    <3>6. Replay(a, o, b[k].field, Len(a), snap[r][b[k].field])
      BY <1>4, <3>4
    <3>7. Replay(h, o, b[k].field, Len(a) + (k - 1), snap[r][b[k].field])
      BY <1>2, <3>1, <3>5, <3>6, ReplayPast
    <3> QED
      BY <3>1, <3>3, <3>4, <3>7
  <2> QED
    BY <1>7, <2>1, <2>2
<1> QED
  BY <1>2, <1>8, <1>9 DEF ExplainedBy, h, o

\* A created task has no audit rows and the columns it was created with.
LEMMA TrailOfNew ==
  ASSUME NEW o, NEW h, h = <<>>
  PROVE  ExplainedBy(h, o, o)
<1>1. Len(h) = 0 /\ DOMAIN h = {}
  BY EmptySeq
<1> QED
  BY <1>1 DEF ExplainedBy, Replay

LEMMA TrailStep == Inv /\ TrailExplainsUnracedTasks /\ [Next]_vars => TrailExplainsUnracedTasks'
<1> SUFFICES ASSUME Inv, TrailExplainsUnracedTasks, [Next]_vars,
                    NEW t \in Tasks, rows'[t] # NoRow, t \notin raced'
             PROVE  ExplainedBy(history'[t], original'[t], rows'[t].fields)
  <2>1. \A t \in Tasks : ExplainedBy(history[t], original[t], rows[t].fields)'
                         <=> (Explained(t) /\ Chained(t))'
    BY DEF ExplainedBy, Explained, Chained, Replay, ReplaysTo
  <2> QED
    BY <2>1 DEF TrailExplainsUnracedTasks
<1>0. rows[t] # NoRow /\ t \notin raced => ExplainedBy(history[t], original[t], rows[t].fields)
  BY ExplainedMeans DEF TrailExplainsUnracedTasks
<1>1. CASE UNCHANGED <<rows, history, original, raced>>
  BY <1>0, <1>1
<1>2. ASSUME NEW r \in Requests, Insert(r)
      PROVE  ExplainedBy(history'[t], original'[t], rows'[t].fields)
  <2>1. CASE UNCHANGED <<rows, original>>
    BY <1>0, <1>2, <2>1 DEF Insert
  <2>2. CASE InsertRow(r)
    <3>1. PICK u \in Tasks :
            /\ rows[u] = NoRow
            /\ rows' = [rows EXCEPT ![u] = [team       |-> req[r].team,
                                            created_by |-> req[r].actor,
                                            fields     |-> NewContent(req[r].patch)]]
            /\ original' = [original EXCEPT ![u] = NewContent(req[r].patch)]
      BY <2>2 DEF InsertRow
    <3>2. UNCHANGED <<history, raced>>
      BY <1>2 DEF Insert
    <3>3. CASE t = u
      <4>1. rows'[t].fields = original'[t] /\ history'[t] = <<>>
        BY <3>1, <3>2, <3>3 DEF Inv, TypeOK, TablesInv, Unborn
      <4> QED
        BY <4>1, TrailOfNew
    <3>4. CASE t # u
      <4>1. rows'[t] = rows[t] /\ original'[t] = original[t]
        BY <3>1, <3>4 DEF Inv, TypeOK
      <4> QED
        BY <1>0, <3>2, <4>1
    <3> QED
      BY <3>3, <3>4
  <2> QED
    BY <1>2, <2>1, <2>2 DEF Insert
<1>3. ASSUME NEW r \in Requests, Commit(r)
      PROVE  ExplainedBy(history'[t], original'[t], rows'[t].fields)
  <2>1. original' = original
    BY <1>3 DEF Commit
  <2>2. CASE t = req[r].task
    <3>1. /\ rows[t] # NoRow /\ rows[t] \in Row
          /\ rows'[t] = [rows[t] EXCEPT !.fields = Updated(r)]
      BY <1>3, <2>2, CommitEffect
    <3>2. rows'[t].fields = Updated(r)
      BY <3>1 DEF Row
    <3>3. rows[t].fields = snap[r] /\ t \notin raced
      BY <1>3, <2>2 DEF Commit
    <3> QED
      BY <1>0, <1>3, <2>1, <2>2, <3>1, <3>2, <3>3, TrailAmended
  <2>3. CASE t # req[r].task
    <3>0. \A u \in Tasks \ {req[r].task} : rows'[u] = rows[u] /\ history'[u] = history[u]
      BY <1>3, CommitEffect
    <3>1. rows'[t] = rows[t] /\ history'[t] = history[t]
      BY <2>3, <3>0
    <3>2. t \notin raced
      BY <1>3 DEF Commit
    <3> QED
      BY <1>0, <2>1, <3>1, <3>2
  <2> QED
    BY <2>2, <2>3
<1>4. \/ UNCHANGED <<rows, history, original, raced>>
      \/ \E r \in Requests : Insert(r) \/ Commit(r)
  <2> USE DEF tables
  <2>1. ASSUME NEW team \in Teams, NEW user \in Users, Join(team, user)
        PROVE  UNCHANGED <<rows, history, original, raced>>
    BY <2>1 DEF Join
  <2>2. ASSUME NEW r \in Requests, NEW in \in Inputs, Start(r, in)
        PROVE  UNCHANGED <<rows, history, original, raced>>
    BY <2>2 DEF Start
  <2>3. ASSUME NEW r \in Requests,
               Load(r) \/ Authorize(r) \/ Select(r) \/ Begin(r) \/ Write(r) \/ Audit(r)
               \/ Acknowledge(r) \/ Fail(r)
        PROVE  UNCHANGED <<rows, history, original, raced>>
    BY <2>3 DEF Load, Authorize, Select, Begin, Write, Audit, Acknowledge, Fail
  <2>4. CASE Crash \/ UNCHANGED vars
    BY <2>4 DEF Crash, vars
  <2> QED
    BY <2>1, <2>2, <2>3, <2>4 DEF Next, Progress
<1> QED
  BY <1>1, <1>2, <1>3, <1>4

\* The audit trail alone explains every task, and each of its rows starts from
\* what the rows before it left, unless an Update overwrote the task unread.
THEOREM UnracedTrailsExplain == Spec => []TrailExplainsUnracedTasks
<1>1. Init => TrailExplainsUnracedTasks
  BY DEF Init, TrailExplainsUnracedTasks
<1> QED
  BY <1>1, TrailStep, SpecInv, PTL DEF Spec
=============================================================================
