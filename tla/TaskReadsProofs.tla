--------------------------- MODULE TaskReadsProofs ---------------------------
(***************************************************************************)
(* What is read from table tasks is true: the reports of Analytics, for    *)
(* any users, teams, tasks, requests and windows, and then the lists and   *)
(* pages of TaskPages, for any queries, slices and writes.  Between them   *)
(* stands what both rest on, the order in which rows are numbered.         *)
(***************************************************************************)
EXTENDS Analytics, TaskPages, FiniteSetTheorems, TLAPS

\* The trail has a row of the day i was moved to done.
Trailed(i, d) ==
  \E h \in 1..Len(history) : /\ history[h].task_id = i
                             /\ history[h].field = "status"
                             /\ history[h].new_value = DoneStatus
                             /\ history[h].changed_at = d

\* Where no Update wrote over what it had not read, the trail tells the moves.
TrailInv == \A i \in Ids \ raced : \A d \in Days : <<i, d>> \in moved <=> Trailed(i, d)

IInv == TypeOK /\ TrailInv

-----------------------------------------------------------------------------
(* The audit rows of one Update. *)

\* The elements of r are those of s and t.
Joins(r, s, t) ==
  /\ \A k \in 1..Len(r) : \/ \E m \in 1..Len(s) : r[k] = s[m]
                          \/ \E m \in 1..Len(t) : r[k] = t[m]
  /\ \A m \in 1..Len(s) : \E k \in 1..Len(r) : r[k] = s[m]
  /\ \A m \in 1..Len(t) : \E k \in 1..Len(r) : r[k] = t[m]

\* A concatenation has the elements of both, and no others.
LEMMA ConcatElements ==
  ASSUME NEW S, NEW s \in Seq(S), NEW t \in Seq(S)
  PROVE  s \o t \in Seq(S) /\ Joins(s \o t, s, t)
  <1>1. s \o t \in Seq(S) /\ Len(s \o t) = Len(s) + Len(t) /\ Len(s) \in Nat /\ Len(t) \in Nat
        OBVIOUS
  <1>2. ASSUME NEW k \in 1..Len(s \o t), k <= Len(s)
        PROVE  k \in 1..Len(s) /\ (s \o t)[k] = s[k]
        BY <1>1, <1>2
  <1>3. ASSUME NEW k \in 1..Len(s \o t), ~(k <= Len(s))
        PROVE  k - Len(s) \in 1..Len(t) /\ (s \o t)[k] = t[k - Len(s)]
        BY <1>1, <1>3
  <1>4. ASSUME NEW m \in 1..Len(s)
        PROVE  m \in 1..Len(s \o t) /\ (s \o t)[m] = s[m]
        BY <1>1
  <1>5. ASSUME NEW m \in 1..Len(t)
        PROVE  Len(s) + m \in 1..Len(s \o t) /\ (s \o t)[Len(s) + m] = t[m]
        BY <1>1
  <1>6. \A k \in 1..Len(s \o t) : \/ \E m \in 1..Len(s) : (s \o t)[k] = s[m]
                                  \/ \E m \in 1..Len(t) : (s \o t)[k] = t[m]
        BY <1>2, <1>3, Zenon
  <1>7. \A m \in 1..Len(s) : \E k \in 1..Len(s \o t) : (s \o t)[k] = s[m]
        BY <1>4, Zenon
  <1>8. \A m \in 1..Len(t) : \E k \in 1..Len(s \o t) : (s \o t)[k] = t[m]
        BY <1>5, Zenon
  <1> QED
      BY <1>1, <1>6, <1>7, <1>8, Zenon DEF Joins

LEMMA JobShape ==
  ASSUME TypeOK, NEW w \in Workers, work[w] # Idle
  PROVE  /\ work[w] \in Job
         /\ work[w].task \in Ids
         /\ work[w].task \in 1..MaxTasks
         /\ work[w].current \in Task
         /\ work[w].patch \in Patch
  BY ConstantsAssumption DEF TypeOK, Job

LEMMA AuditRowShape ==
  ASSUME TypeOK, NEW w \in Workers, work[w] # Idle, NEW f \in Fields
  PROVE  LET row == AuditRow(work[w], f) IN
         /\ row \in Seq(HistoryRow)
         /\ \A k \in 1..Len(row) : /\ row[k].task_id = work[w].task
                                   /\ row[k].changed_at = today
                                   /\ row[k].field = f
                                   /\ row[k].new_value = work[w].patch[f]
                                   /\ f \in Changes(work[w])
         /\ f \in Changes(work[w]) => Len(row) = 1
  <1> DEFINE job == work[w]
             r   == [task_id |-> job.task, field |-> f, new_value |-> job.patch[f],
                     changed_at |-> today]
  <1>1. CASE f \notin Changes(job)
        BY <1>1 DEF AuditRow
  <1>2. CASE f \in Changes(job)
    <2>1. job.patch[f] # Keep
          BY <1>2 DEF Changes
    <2>2. job.patch[f] \in Titles \cup Statuses \cup Assignees
          BY <2>1, JobShape DEF Patch, Fields
    <2>3. r \in HistoryRow
          BY <2>2, JobShape DEF HistoryRow, TypeOK
    <2>4. AuditRow(job, f) = <<r>>
          BY <1>2 DEF AuditRow
    <2> HIDE DEF r
    <2>5. <<r>> \in Seq(HistoryRow) /\ Len(<<r>>) = 1 /\ <<r>>[1] = r
          BY <2>3
    <2>6. r.task_id = job.task /\ r.changed_at = today /\ r.field = f /\ r.new_value = job.patch[f]
          BY DEF r
    <2> QED
        BY <1>2, <2>4, <2>5, <2>6
  <1> QED
      BY <1>1, <1>2

LEMMA AuditRowsShape ==
  ASSUME TypeOK, NEW w \in Workers, work[w] # Idle
  PROVE  LET rows == AuditRows(work[w]) IN
         /\ rows \in Seq(HistoryRow)
         /\ \A k \in 1..Len(rows) : rows[k].task_id = work[w].task /\ rows[k].changed_at = today
         /\ \A k \in 1..Len(rows) :
              rows[k].field = "status" => /\ rows[k].new_value = work[w].patch.status
                                          /\ "status" \in Changes(work[w])
         /\ "status" \in Changes(work[w]) =>
              \E k \in 1..Len(rows) : /\ rows[k].field = "status"
                                      /\ rows[k].new_value = work[w].patch.status
  <1> DEFINE job == work[w]
             a == AuditRow(job, "title")
             b == AuditRow(job, "status")
             c == AuditRow(job, "assignee_id")
             rows == a \o b \o c
  <1>1. /\ a \in Seq(HistoryRow)
        /\ \A k \in 1..Len(a) : /\ a[k].task_id = job.task /\ a[k].changed_at = today
                                /\ a[k].field = "title"
        BY AuditRowShape DEF Fields
  <1>2. /\ b \in Seq(HistoryRow)
        /\ \A k \in 1..Len(b) : /\ b[k].task_id = job.task /\ b[k].changed_at = today
                                /\ b[k].field = "status" /\ b[k].new_value = job.patch.status
                                /\ "status" \in Changes(job)
        /\ "status" \in Changes(job) => Len(b) = 1
        BY AuditRowShape DEF Fields
  <1>3. /\ c \in Seq(HistoryRow)
        /\ \A k \in 1..Len(c) : /\ c[k].task_id = job.task /\ c[k].changed_at = today
                                /\ c[k].field = "assignee_id"
        BY AuditRowShape DEF Fields
  <1>4. AuditRows(job) = rows
        BY DEF AuditRows
  <1> HIDE DEF a, b, c
  <1>5. /\ rows \in Seq(HistoryRow)
        /\ \A k \in 1..Len(rows) : \/ \E m \in 1..Len(a) : rows[k] = a[m]
                                   \/ \E m \in 1..Len(b) : rows[k] = b[m]
                                   \/ \E m \in 1..Len(c) : rows[k] = c[m]
        /\ \A m \in 1..Len(b) : \E k \in 1..Len(rows) : rows[k] = b[m]
    <2> DEFINE ab == a \o b
    <2>1. ab \in Seq(HistoryRow) /\ Joins(ab, a, b)
      <3>1. a \in Seq(HistoryRow) /\ b \in Seq(HistoryRow)
            BY <1>1, <1>2
      <3> QED
          BY <3>1, ConcatElements
    <2> HIDE DEF ab
    <2>2. ab \o c \in Seq(HistoryRow) /\ Joins(ab \o c, ab, c)
          BY <2>1, <1>3, ConcatElements
    <2>3. rows = ab \o c
          BY DEF ab
    <2> HIDE DEF rows
    <2>4. ASSUME NEW k \in 1..Len(rows)
          PROVE  \/ \E m \in 1..Len(a) : rows[k] = a[m]
                 \/ \E m \in 1..Len(b) : rows[k] = b[m]
                 \/ \E m \in 1..Len(c) : rows[k] = c[m]
      <3>1. CASE \E m \in 1..Len(c) : rows[k] = c[m]
            BY <3>1
      <3>2. CASE \E n \in 1..Len(ab) : rows[k] = ab[n]
        <4>1. PICK n \in 1..Len(ab) : rows[k] = ab[n]
              BY <3>2
        <4>2. \/ \E m \in 1..Len(a) : ab[n] = a[m]
              \/ \E m \in 1..Len(b) : ab[n] = b[m]
              BY <2>1 DEF Joins
        <4> QED
            BY <4>1, <4>2
      <3> QED
          BY <2>2, <2>3, <3>1, <3>2 DEF Joins
    <2>5. ASSUME NEW m \in 1..Len(b) PROVE \E k \in 1..Len(rows) : rows[k] = b[m]
      <3>1. PICK n \in 1..Len(ab) : ab[n] = b[m]
            BY <2>1 DEF Joins
      <3>2. PICK k \in 1..Len(rows) : rows[k] = ab[n]
            BY <2>2, <2>3 DEF Joins
      <3> QED
          BY <3>1, <3>2
    <2>6. rows \in Seq(HistoryRow)
          BY <2>2, <2>3, Zenon
    <2> QED
        BY <2>4, <2>5, <2>6
  <1> HIDE DEF rows
  <1>7. ASSUME NEW k \in 1..Len(rows)
        PROVE  /\ rows[k].task_id = job.task /\ rows[k].changed_at = today
               /\ rows[k].field = "status" => /\ rows[k].new_value = job.patch.status
                                              /\ "status" \in Changes(job)
    <2>1. CASE \E m \in 1..Len(a) : rows[k] = a[m]
          BY <1>1, <2>1
    <2>2. CASE \E m \in 1..Len(b) : rows[k] = b[m]
          BY <1>2, <2>2
    <2>3. CASE \E m \in 1..Len(c) : rows[k] = c[m]
          BY <1>3, <2>3
    <2> QED
        BY <1>5, <2>1, <2>2, <2>3
  <1>8. ASSUME "status" \in Changes(job)
        PROVE  \E k \in 1..Len(rows) : rows[k].field = "status" /\ rows[k].new_value = job.patch.status
    <2>1. 1 \in 1..Len(b)
          BY <1>2, <1>8
    <2>2. PICK k \in 1..Len(rows) : rows[k] = b[1]
          BY <1>5, <2>1
    <2> QED
        BY <1>2, <2>1, <2>2
  <1> QED
      BY <1>4, <1>5, <1>7, <1>8

\* The row that an Update leaves.
LEMMA OverwrittenShape ==
  ASSUME TypeOK, NEW w \in Workers, work[w] # Idle
  PROVE  LET job == work[w]
             row == tasks[job.task]
             new == Overwritten(job, row)
         IN  /\ row \in Task /\ new \in Task
             /\ new.team = row.team /\ new.created_by = row.created_by
             /\ new.created_at = row.created_at
             /\ new.status = Patched(job, "status")
             /\ new.assignee_id = Patched(job, "assignee_id")
  <1> DEFINE job == work[w]
             row == tasks[job.task]
             over == [row EXCEPT !.title       = Patched(job, "title"),
                                 !.status      = Patched(job, "status"),
                                 !.assignee_id = Patched(job, "assignee_id")]
  <1>1. row \in Task
        BY JobShape DEF TypeOK, Ids
  <1>2. /\ Patched(job, "title") \in Titles
        /\ Patched(job, "status") \in Statuses
        /\ Patched(job, "assignee_id") \in Assignees
        BY JobShape DEF Patched, Patch, Task
  <1>3. over \in Task
        BY <1>1, <1>2 DEF Task
  <1>4. today \in Days
        BY DEF TypeOK
  <1> QED
      BY <1>1, <1>2, <1>3, <1>4 DEF Overwritten, Task

-----------------------------------------------------------------------------
LEMMA InitHolds == Init => IInv
  BY ConstantsAssumption DEF Init, IInv, TypeOK, TrailInv, Days, Ids

LEMMA TypeStep == TypeOK /\ [Next]_vars => TypeOK'
  <1> SUFFICES ASSUME TypeOK, [Next]_vars PROVE TypeOK'
      OBVIOUS
  <1> USE ConstantsAssumption
  <1>1. CASE UNCHANGED vars
        BY <1>1 DEF TypeOK, vars, Ids
  <1>2. ASSUME NEW tm \in Teams, NEW u \in Users, Join(tm, u) PROVE TypeOK'
    <2>1. members' \subseteq Teams \X Users
          BY <1>2 DEF TypeOK, Join
    <2>2. UNCHANGED <<today, tasks, history, work, moved, raced>>
          BY <1>2 DEF Join
    <2> QED
        BY <2>1, <2>2 DEF TypeOK, Ids
  <1>3. ASSUME NEW tm \in Teams, NEW u \in Users, NEW b \in Births, Create(tm, u, b)
        PROVE  TypeOK'
    <2> DEFINE row == [team |-> tm, created_by |-> u, title |-> b.title,
                       status |-> b.status, assignee_id |-> b.assignee_id,
                       created_at |-> today, updated_at |-> today]
    <2>1. row \in Task
          BY DEF TypeOK, Task, Birth
    <2>2. tasks' = Append(tasks, row)
          BY <1>3 DEF Create
    <2> HIDE DEF row
    <2>3. tasks' \in Seq(Task) /\ Len(tasks') = Len(tasks) + 1 /\ Len(tasks') <= MaxTasks
          BY <1>3, <2>1, <2>2 DEF TypeOK, Create
    <2>4. Ids \subseteq Ids'
          BY <2>3 DEF Ids, TypeOK
    <2> QED
        BY <1>3, <2>3, <2>4 DEF TypeOK, Create
  <1>4. ASSUME NEW w \in Workers, NEW i \in 1..MaxTasks, NEW p \in Patches, Read(w, i, p)
        PROVE  TypeOK'
    <2> DEFINE job == [task |-> i, current |-> tasks[i], patch |-> p]
    <2>1. i \in Ids /\ tasks[i] \in Task
          BY <1>4 DEF Read, TypeOK, Ids
    <2>2. job \in Job /\ job.task = i
          BY <2>1 DEF Job
    <2>3. work' = [work EXCEPT ![w] = job]
          BY <1>4 DEF Read
    <2> HIDE DEF job
    <2>4. /\ work' \in [Workers -> Job \cup {Idle}]
          /\ \A v \in Workers : work'[v] = Idle \/ work'[v].task \in Ids
          BY <2>1, <2>2, <2>3 DEF TypeOK
    <2> QED
        BY <1>4, <2>4 DEF TypeOK, Read, Ids
  <1>5. ASSUME NEW w \in Workers, Write(w) PROVE TypeOK'
    <2> DEFINE job == work[w]
               i   == job.task
               new == Overwritten(job, tasks[i])
    <2>1. job # Idle
          BY <1>5 DEF Write
    <2>2. new \in Task /\ i \in Ids
          BY <2>1, OverwrittenShape, JobShape
    <2>3. tasks' = [tasks EXCEPT ![i] = new]
          BY <1>5 DEF Write
    <2>4. tasks' \in Seq(Task) /\ Len(tasks') = Len(tasks)
          BY <2>2, <2>3 DEF TypeOK, Ids
    <2>5. /\ AuditRows(job) \in Seq(HistoryRow)
          /\ \A k \in 1..Len(AuditRows(job)) : AuditRows(job)[k].task_id = i
          BY <2>1, AuditRowsShape
    <2>6. history' = history \o AuditRows(job) /\ Len(history) + Len(AuditRows(job)) <= MaxHistory
          BY <1>5 DEF Write
    <2>7. /\ history' \in Seq(HistoryRow) /\ Len(history') <= MaxHistory
          /\ \A h \in 1..Len(history') : history'[h].task_id \in Ids
      <3>1. history \in Seq(HistoryRow) /\ \A h \in 1..Len(history) : history[h].task_id \in Ids
            BY DEF TypeOK
      <3>2. Len(history') = Len(history) + Len(AuditRows(job)) /\ history' \in Seq(HistoryRow)
            BY <2>5, <2>6, <3>1
      <3>3. Joins(history', history, AuditRows(job))
            BY <2>5, <2>6, <3>1, ConcatElements
      <3>4. ASSUME NEW h \in 1..Len(history') PROVE history'[h].task_id \in Ids
        <4>1. CASE \E m \in 1..Len(history) : history'[h] = history[m]
              BY <3>1, <4>1
        <4>2. CASE \E m \in 1..Len(AuditRows(job)) : history'[h] = AuditRows(job)[m]
              BY <2>2, <2>5, <4>2
        <4> QED
            BY <3>3, <4>1, <4>2 DEF Joins
      <3> QED
          BY <2>6, <3>2, <3>4
    <2>8. moved' \subseteq Ids \X Days /\ raced' \subseteq Ids
          BY <1>5, <2>2 DEF TypeOK, Write
    <2>9. /\ work' \in [Workers -> Job \cup {Idle}]
          /\ \A v \in Workers : work'[v] = Idle \/ work'[v].task \in Ids
          BY <1>5 DEF TypeOK, Write
    <2>10. Ids' = Ids
           BY <2>4 DEF Ids
    <2> QED
        BY <1>5, <2>4, <2>7, <2>8, <2>9, <2>10 DEF TypeOK, Write
  <1>6. ASSUME NEW w \in Workers, Leave(w) PROVE TypeOK'
        BY <1>6 DEF TypeOK, Leave, Ids
  <1>7. CASE Midnight
        BY <1>7 DEF TypeOK, Midnight, Ids, Days
  <1> QED
      BY <1>1, <1>2, <1>3, <1>4, <1>5, <1>6, <1>7 DEF Next

LEMMA TrailKept ==
  ASSUME TypeOK, TrailInv, UNCHANGED <<history, moved, raced>>, Ids' = Ids
  PROVE  TrailInv'
  <1>1. \A i, d : Trailed(i, d)' <=> Trailed(i, d)
        BY Zenon DEF Trailed
  <1> QED
      BY <1>1, Zenon DEF TrailInv, Days

LEMMA TrailStep == IInv /\ [Next]_vars => TrailInv'
  <1> SUFFICES ASSUME TypeOK, TrailInv, [Next]_vars PROVE TrailInv'
      BY DEF IInv
  <1>1. CASE UNCHANGED vars
        BY <1>1, TrailKept DEF vars, Ids
  <1>2. ASSUME NEW tm \in Teams, NEW u \in Users, Join(tm, u) PROVE TrailInv'
        BY <1>2, TrailKept DEF Join, Ids
  <1>3. ASSUME NEW tm \in Teams, NEW u \in Users, NEW b \in Births, Create(tm, u, b)
        PROVE  TrailInv'
    <2>1. UNCHANGED <<history, moved, raced>>
          BY <1>3 DEF Create
    <2>2. Ids' \subseteq Ids \cup {Len(tasks) + 1}
          BY <1>3 DEF Create, Ids, TypeOK
    <2>3. \A d \in Days : ~Trailed(Len(tasks) + 1, d) /\ <<Len(tasks) + 1, d>> \notin moved
          BY DEF TypeOK, Ids, Trailed
    <2>4. \A j, d : Trailed(j, d)' <=> Trailed(j, d)
          BY <2>1, Zenon DEF Trailed
    <2>5. \A j \in Ids' \ raced' : j \in Ids \ raced \/ j = Len(tasks) + 1
          BY <2>1, <2>2
    <2>6. ASSUME NEW j \in Ids' \ raced', NEW d \in Days
          PROVE  <<j, d>> \in moved' <=> Trailed(j, d)'
      <3>1. CASE j \in Ids \ raced
            BY <2>1, <2>4, <3>1, Zenon DEF TrailInv
      <3>2. CASE j = Len(tasks) + 1
            BY <2>1, <2>3, <2>4, <3>2, Zenon
      <3> QED
          BY <2>5, <3>1, <3>2
    <2> QED
        BY <2>6, Zenon DEF TrailInv, Days
  <1>4. ASSUME NEW w \in Workers, NEW i \in 1..MaxTasks, NEW p \in Patches, Read(w, i, p)
        PROVE  TrailInv'
        BY <1>4, TrailKept DEF Read, Ids
  <1>5. ASSUME NEW w \in Workers, Write(w) PROVE TrailInv'
    <2> DEFINE job == work[w]
               i   == job.task
               row == tasks[i]
               new == Overwritten(job, row)
               rows == AuditRows(job)
    <2>1. job # Idle /\ history' = history \o rows
          BY <1>5 DEF Write
    <2>2. /\ rows \in Seq(HistoryRow)
          /\ \A k \in 1..Len(rows) : rows[k].task_id = i /\ rows[k].changed_at = today
          /\ \A k \in 1..Len(rows) :
               rows[k].field = "status" => /\ rows[k].new_value = job.patch.status
                                           /\ "status" \in Changes(job)
          /\ "status" \in Changes(job) =>
               \E k \in 1..Len(rows) : /\ rows[k].field = "status"
                                       /\ rows[k].new_value = job.patch.status
          BY <2>1, AuditRowsShape
    <2>3. row \in Task /\ new.status = Patched(job, "status") /\ job.current \in Task
          BY <2>1, OverwrittenShape, JobShape
    <2>4. moved' = IF new.status = DoneStatus /\ row.status # DoneStatus
                   THEN moved \cup {<<i, today>>} ELSE moved
          BY <1>5 DEF Write
    <2>5. raced \subseteq raced' /\ (i \notin raced' => Content(row) = Content(job.current))
          BY <1>5 DEF Write
    <2>6. Ids' = Ids
          BY <1>5 DEF Write, Ids, TypeOK
    <2> HIDE DEF new, rows, row
    <2> SUFFICES ASSUME NEW j \in Ids, j \notin raced', NEW d \in Days
                 PROVE  <<j, d>> \in moved' <=> Trailed(j, d)'
        BY <2>6 DEF TrailInv, Days
    <2>7. <<j, d>> \in moved <=> Trailed(j, d)
          BY <2>5 DEF TrailInv
    <2>8. Trailed(j, d)' <=>
            \/ Trailed(j, d)
            \/ \E k \in 1..Len(rows) : /\ rows[k].task_id = j /\ rows[k].field = "status"
                                       /\ rows[k].new_value = DoneStatus
                                       /\ rows[k].changed_at = d
      <3>1. Joins(history', history, rows)
        <4>1. history \in Seq(HistoryRow) /\ rows \in Seq(HistoryRow)
              BY <2>2 DEF TypeOK
        <4> QED
            BY <2>1, <4>1, ConcatElements
      <3>2. Trailed(j, d)' =
              \E h \in 1..Len(history') : /\ history'[h].task_id = j
                                          /\ history'[h].field = "status"
                                          /\ history'[h].new_value = DoneStatus
                                          /\ history'[h].changed_at = d
            BY DEF Trailed
      <3>3. ASSUME Trailed(j, d)'
            PROVE  \/ Trailed(j, d)
                   \/ \E k \in 1..Len(rows) : /\ rows[k].task_id = j /\ rows[k].field = "status"
                                              /\ rows[k].new_value = DoneStatus
                                              /\ rows[k].changed_at = d
        <4>1. PICK h \in 1..Len(history') : /\ history'[h].task_id = j
                                            /\ history'[h].field = "status"
                                            /\ history'[h].new_value = DoneStatus
                                            /\ history'[h].changed_at = d
              BY <3>2, <3>3
        <4>2. CASE \E m \in 1..Len(history) : history'[h] = history[m]
              BY <4>1, <4>2 DEF Trailed
        <4>3. CASE \E m \in 1..Len(rows) : history'[h] = rows[m]
              BY <4>1, <4>3
        <4> QED
            BY <3>1, <4>2, <4>3 DEF Joins
      <3>4. ASSUME Trailed(j, d) PROVE Trailed(j, d)'
        <4>1. PICK m \in 1..Len(history) : /\ history[m].task_id = j
                                           /\ history[m].field = "status"
                                           /\ history[m].new_value = DoneStatus
                                           /\ history[m].changed_at = d
              BY <3>4 DEF Trailed
        <4>2. PICK k \in 1..Len(history') : history'[k] = history[m]
              BY <3>1 DEF Joins
        <4> QED
            BY <3>2, <4>1, <4>2
      <3>5. ASSUME NEW m \in 1..Len(rows),
                   rows[m].task_id = j, rows[m].field = "status",
                   rows[m].new_value = DoneStatus, rows[m].changed_at = d
            PROVE  Trailed(j, d)'
        <4>1. PICK k \in 1..Len(history') : history'[k] = rows[m]
              BY <3>1 DEF Joins
        <4> QED
            BY <3>2, <3>5, <4>1
      <3> QED
          BY <3>3, <3>4, <3>5
    <2>9. CASE j # i
          BY <2>2, <2>4, <2>7, <2>8, <2>9
    <2>10. CASE j = i
      <3>1. row.status = job.current.status
            BY <2>5, <2>10 DEF Content
      <3>2. (new.status = DoneStatus /\ row.status # DoneStatus) <=>
              ("status" \in Changes(job) /\ job.patch.status = DoneStatus)
            BY <2>3, <3>1, SentinelsAssumption, ConstantsAssumption
            DEF Patched, Changes, Fields
      <3>3. (\E k \in 1..Len(rows) : /\ rows[k].task_id = j /\ rows[k].field = "status"
                                     /\ rows[k].new_value = DoneStatus
                                     /\ rows[k].changed_at = d)
            <=> ("status" \in Changes(job) /\ job.patch.status = DoneStatus /\ d = today)
            BY <2>2, <2>10
      <3> QED
          BY <2>4, <2>7, <2>8, <2>10, <3>2, <3>3
    <2> QED
        BY <2>9, <2>10
  <1>6. ASSUME NEW w \in Workers, Leave(w) PROVE TrailInv'
        BY <1>6, TrailKept DEF Leave, Ids
  <1>7. CASE Midnight
        BY <1>7, TrailKept DEF Midnight, Ids
  <1> QED
      BY <1>1, <1>2, <1>3, <1>4, <1>5, <1>6, <1>7 DEF Next

\* The tables keep their types.
THEOREM TypeCorrect == Spec => []TypeOK
  <1> QED
      BY InitHolds, TypeStep, PTL DEF IInv, Spec

LEMMA Inductive == Spec => []IInv
  <1>1. IInv /\ [Next]_vars => IInv'
        BY TypeStep, TrailStep DEF IInv
  <1> QED
      BY InitHolds, <1>1, PTL DEF Spec

-----------------------------------------------------------------------------
(* TeamStats *)

\* The tasks that the report counts.
Counted(tm) == {i \in TasksOf(tm) : DoneRows(i) # {}}

\* However many rows the joins make of a team, they hold each of its members
\* and each of its tasks done lately, and nothing else but NULL.
LEMMA JoinsLoseNothing ==
  ASSUME TypeOK, NEW tm \in Teams
  PROVE  /\ {r.tm : r \in Joined(tm)} \ {Null} = Membership(tm)
         /\ {r.tk : r \in {j \in Joined(tm) : j.th # Null}} = Counted(tm)
  <1> DEFINE Rows(k) == IF k = Null THEN {Null} ELSE OrNull(DoneRows(k))
             Line(m, k, h) == [tm |-> m, tk |-> k, th |-> h]
  <1>1. \A S : OrNull(S) # {} /\ S \subseteq OrNull(S) /\ OrNull(S) \subseteq S \cup {Null}
        BY DEF OrNull
  <1>2. \A k : Rows(k) # {}
        BY <1>1
  <1>3. \A r : r \in Joined(tm) <=>
          \E m \in OrNull(Membership(tm)), k \in OrNull(TasksOf(tm)) :
            \E h \in Rows(k) : r = Line(m, k, h)
        BY DEF Joined
  <1>4. Null \notin Membership(tm) /\ Null \notin TasksOf(tm) /\ \A k : Null \notin DoneRows(k)
    <2>1. Null \notin Membership(tm)
          BY SentinelsAssumption DEF Membership
    <2>2. Ids \subseteq 1..MaxTasks /\ 1..Len(history) \subseteq 1..MaxHistory
          BY ConstantsAssumption DEF TypeOK, Ids
    <2>3. Null \notin Ids /\ Null \notin 1..Len(history)
          BY <2>2, SentinelsAssumption
    <2>4. Null \notin TasksOf(tm)
          BY <2>3 DEF TasksOf
    <2>5. \A k : Null \notin DoneRows(k)
          BY <2>3 DEF DoneRows
    <2> QED
        BY <2>1, <2>4, <2>5
  <1>5. PICK k0 \in OrNull(TasksOf(tm)) : TRUE
        BY <1>1
  <1>6. PICK h0 \in Rows(k0) : TRUE
        BY <1>2
  <1>7. PICK m0 \in OrNull(Membership(tm)) : TRUE
        BY <1>1
  <1>8. ASSUME NEW m \in Membership(tm)
        PROVE  m \in {r.tm : r \in Joined(tm)} \ {Null}
    <2>1. Line(m, k0, h0) \in Joined(tm)
          BY <1>1, <1>3, <1>5, <1>6
    <2> QED
        BY <1>4, <2>1
  <1>9. ASSUME NEW r \in Joined(tm), r.tm # Null
        PROVE  r.tm \in Membership(tm)
        BY <1>1, <1>3, <1>9
  <1>10. ASSUME NEW k \in Counted(tm)
         PROVE  k \in {r.tk : r \in {j \in Joined(tm) : j.th # Null}}
    <2>1. k \in TasksOf(tm) /\ k # Null
          BY <1>4 DEF Counted
    <2>2. PICK h \in DoneRows(k) : TRUE
          BY DEF Counted
    <2>3. h \in Rows(k) /\ h # Null
          BY <1>1, <1>4, <2>1, <2>2
    <2>4. Line(m0, k, h) \in Joined(tm)
          BY <1>1, <1>3, <1>7, <2>1, <2>3
    <2> QED
        BY <2>3, <2>4
  <1>11. ASSUME NEW r \in Joined(tm), r.th # Null
         PROVE  r.tk \in Counted(tm)
    <2>0. PICK m \in OrNull(Membership(tm)), k \in OrNull(TasksOf(tm)) :
            \E h \in Rows(k) : r = Line(m, k, h)
          BY <1>3
    <2>1. PICK h \in Rows(k) : r = Line(m, k, h)
          BY <2>0
    <2>2. r.tk = k /\ h # Null
          BY <1>11, <2>1
    <2>3. k # Null
          BY <2>2
    <2>4. k \in TasksOf(tm) /\ h \in DoneRows(k)
          BY <1>1, <2>2, <2>3
    <2> QED
        BY <2>2, <2>4 DEF Counted
  <1>12. {r.tm : r \in Joined(tm)} \ {Null} = Membership(tm)
         BY <1>8, <1>9
  <1>13. {r.tk : r \in {j \in Joined(tm) : j.th # Null}} = Counted(tm)
         BY <1>10, <1>11
  <1> QED
      BY <1>12, <1>13

\* Outside of the races, the tasks counted are those that were moved.
LEMMA CountedMoves ==
  ASSUME IInv, NEW tm \in Teams
  PROVE  \A i \in TasksOf(tm) \ raced : i \in Counted(tm) <=> i \in MovedLately(tm)
  <1> SUFFICES ASSUME NEW i \in TasksOf(tm) \ raced
               PROVE  i \in Counted(tm) <=> i \in MovedLately(tm)
      OBVIOUS
  <1>1. \A d \in Days : <<i, d>> \in moved <=> Trailed(i, d)
        BY DEF IInv, TrailInv, TasksOf
  <1>2. i \in Counted(tm) <=> \E d \in Days : d >= today - DoneDays /\ Trailed(i, d)
    <2>1. \A h \in 1..Len(history) : history[h].changed_at \in Days
      <3>1. \A h \in 1..Len(history) : history[h] \in HistoryRow
            BY DEF IInv, TypeOK
      <3> QED
          BY <3>1 DEF HistoryRow
    <2> QED
        BY <2>1 DEF Counted, DoneRows, Trailed
  <1> QED
      BY <1>1, <1>2 DEF MovedLately

\* Where nobody wrote over what he had not read, the number of tasks done
\* lately is the number of tasks moved to done in the window, and the number of
\* members that of the rows of team_members; elsewhere the former is off by the
\* raced tasks at most.
THEOREM StatsAreTrue == Spec => []StatsCountMoves
  <1>1. IInv => StatsCountMoves
    <2> SUFFICES ASSUME IInv, NEW tm \in Teams
                 PROVE  LET stats == TeamStats[tm]
                            doubt == TasksOf(tm) \cap raced
                        IN  /\ stats.member_count = Cardinality(Membership(tm))
                            /\ stats.done_last_7_days >= Cardinality(MovedLately(tm) \ doubt)
                            /\ stats.done_last_7_days <= Cardinality(MovedLately(tm) \cup doubt)
        BY DEF StatsCountMoves
    <2> DEFINE doubt == TasksOf(tm) \cap raced
               less  == MovedLately(tm) \ doubt
               more  == MovedLately(tm) \cup doubt
    <2>1. /\ TeamStats[tm].member_count = Cardinality(Membership(tm))
          /\ TeamStats[tm].done_last_7_days = Cardinality(Counted(tm))
          BY JoinsLoseNothing DEF TeamStats, IInv
    <2>2. less \subseteq Counted(tm) /\ Counted(tm) \subseteq more
          BY CountedMoves DEF Counted, MovedLately
    <2>3. IsFiniteSet(more)
      <3>1. more \in SUBSET (1..Len(tasks)) /\ Len(tasks) \in Nat
            BY DEF MovedLately, TasksOf, Ids, IInv, TypeOK
      <3>2. IsFiniteSet(1..Len(tasks))
            BY <3>1, FS_Interval
      <3> QED
          BY <3>1, <3>2, FS_Subset
    <2> HIDE DEF less, more
    <2>4. Cardinality(Counted(tm)) <= Cardinality(more) /\ IsFiniteSet(Counted(tm))
          BY <2>2, <2>3, FS_Subset
    <2>5. Cardinality(less) <= Cardinality(Counted(tm)) /\ IsFiniteSet(less)
          BY <2>2, <2>4, FS_Subset
    <2>6. Cardinality(less) \in Nat /\ Cardinality(Counted(tm)) \in Nat
          BY <2>4, <2>5, FS_CardinalityType
    <2>7. Cardinality(Counted(tm)) >= Cardinality(less)
          BY <2>5, <2>6
    <2> QED
        BY <2>1, <2>4, <2>7 DEF less, more
  <1> QED
      BY Inductive, <1>1, PTL

-----------------------------------------------------------------------------
(* TopCreators *)

LEMMA RanksKept ==
  ASSUME UNCHANGED today, Ids' = Ids,
         \A i \in Ids : /\ tasks'[i].team = tasks[i].team
                        /\ tasks'[i].created_by = tasks[i].created_by
                        /\ tasks'[i].created_at = tasks[i].created_at
  PROVE  TopCreators' = TopCreators
  <1>1. \A tm \in Teams, u \in Users : CreatedLately(tm, u)' = CreatedLately(tm, u)
        BY DEF CreatedLately, TasksOf
  <1>2. TaskCount' = TaskCount
        BY <1>1, Zenon DEF TaskCount
  <1> QED
      BY <1>2, Zenon DEF TopCreators

\* Nothing but a new task or a new day changes who is listed, and in which
\* order.
THEOREM RanksAreOfCreation == Spec => RanksIgnoreEdits
  <1>1. TypeOK /\ [Next]_vars =>
          (TopCreators' # TopCreators => Len(tasks') > Len(tasks) \/ today' > today)
    <2> SUFFICES ASSUME TypeOK, [Next]_vars
                 PROVE  \/ TopCreators' = TopCreators
                        \/ Len(tasks') > Len(tasks)
                        \/ today' > today
        OBVIOUS
    <2>1. CASE UNCHANGED <<today, tasks>>
          BY <2>1, RanksKept DEF Ids
    <2>2. ASSUME NEW tm \in Teams, NEW u \in Users, NEW b \in Births, Create(tm, u, b)
          PROVE  Len(tasks') > Len(tasks)
          BY <2>2 DEF Create, TypeOK
    <2>3. ASSUME NEW w \in Workers, Write(w) PROVE TopCreators' = TopCreators
      <3> DEFINE new == Overwritten(work[w], tasks[work[w].task])
      <3>1. /\ tasks' = [tasks EXCEPT ![work[w].task] = new]
            /\ UNCHANGED today /\ work[w] # Idle
            BY <2>3 DEF Write
      <3>2. /\ new.team = tasks[work[w].task].team
            /\ new.created_by = tasks[work[w].task].created_by
            /\ new.created_at = tasks[work[w].task].created_at
            BY <3>1, OverwrittenShape
      <3> HIDE DEF new
      <3>3. Ids' = Ids
            BY <3>1 DEF Ids, TypeOK
      <3>4. \A i \in Ids : /\ tasks'[i].team = tasks[i].team
                           /\ tasks'[i].created_by = tasks[i].created_by
                           /\ tasks'[i].created_at = tasks[i].created_at
            BY <3>1, <3>2 DEF Ids, TypeOK
      <3> QED
          BY <3>1, <3>3, <3>4, RanksKept
    <2>4. CASE Midnight
          BY <2>4 DEF Midnight, TypeOK, Days
    <2> QED
        BY <2>1, <2>2, <2>3, <2>4 DEF Next, vars, Join, Read, Leave
  <1> QED
      BY TypeCorrect, <1>1, PTL DEF Spec, RanksIgnoreEdits

-----------------------------------------------------------------------------
(* IntegrityIssues *)

\* What one step may do to the list of tasks that an outsider is assigned to.
Appears(i) ==
  \/ i \notin Ids
  \/ \E w \in Workers :
       /\ work[w] # Idle /\ work'[w] = Idle /\ work[w].task = i
       /\ \/ work[w].patch.assignee_id = tasks'[i].assignee_id
          \/ i \in raced'

Vanishes(i) ==
  \/ tasks'[i].assignee_id # tasks[i].assignee_id
  \/ /\ <<tasks[i].team, tasks[i].assignee_id>> \in members'
     /\ <<tasks[i].team, tasks[i].assignee_id>> \notin members

\* A task whose row a step leaves alone is listed as before, unless someone
\* joins.
LEMMA IssueKept ==
  ASSUME NEW i \in Ids, i \in Ids', tasks'[i] = tasks[i], members \subseteq members'
  PROVE  /\ i \in IntegrityIssues' => i \in IntegrityIssues
         /\ i \in IntegrityIssues /\ i \notin IntegrityIssues' => Vanishes(i)
  BY DEF IntegrityIssues, Vanishes

\* An outsider is listed from the write that assigned the task, by a request
\* that named him or that wrote over what it had not read, until the task is
\* given to another or he joins its team.
THEOREM IssuesAreExplained == Spec => IssuesHaveCauses
  <1>1. TypeOK /\ [Next]_vars =>
          /\ \A i \in IntegrityIssues' \ IntegrityIssues : Appears(i)
          /\ \A i \in IntegrityIssues \ IntegrityIssues' : Vanishes(i)
    <2> SUFFICES ASSUME TypeOK, [Next]_vars
                 PROVE  /\ \A i \in IntegrityIssues' \ IntegrityIssues : Appears(i)
                        /\ \A i \in IntegrityIssues \ IntegrityIssues' : Vanishes(i)
        OBVIOUS
    <2>1. IntegrityIssues \subseteq Ids /\ IntegrityIssues' \subseteq Ids'
          BY DEF IntegrityIssues
    <2>2. CASE UNCHANGED tasks /\ members \subseteq members'
      <3>1. Ids' = Ids
            BY <2>2 DEF Ids
      <3> QED
          BY <2>1, <2>2, <3>1, IssueKept
    <2>3. ASSUME NEW tm \in Teams, NEW u \in Users, NEW b \in Births, Create(tm, u, b)
          PROVE  /\ \A i \in IntegrityIssues' \ IntegrityIssues : Appears(i)
                 /\ \A i \in IntegrityIssues \ IntegrityIssues' : Vanishes(i)
      <3>1. members' = members
            BY <2>3 DEF Create
      <3>2. \A i \in Ids : i \in Ids' /\ tasks'[i] = tasks[i]
            BY <2>3 DEF Create, TypeOK, Ids
      <3>3. \A i : i \notin Ids => Appears(i)
            BY DEF Appears
      <3> QED
          BY <2>1, <3>1, <3>2, <3>3, IssueKept
    <2>4. ASSUME NEW w \in Workers, Write(w)
          PROVE  /\ \A i \in IntegrityIssues' \ IntegrityIssues : Appears(i)
                 /\ \A i \in IntegrityIssues \ IntegrityIssues' : Vanishes(i)
      <3> DEFINE job == work[w]
                 t   == job.task
                 new == Overwritten(job, tasks[t])
      <3>1. /\ tasks' = [tasks EXCEPT ![t] = new] /\ members' = members
            /\ job # Idle /\ work' = [work EXCEPT ![w] = Idle]
            /\ t \in raced' \/ Content(tasks[t]) = Content(job.current)
            BY <2>4 DEF Write
      <3>2. /\ t \in Ids /\ new.team = tasks[t].team
            /\ new.assignee_id = Patched(job, "assignee_id")
            BY <3>1, OverwrittenShape, JobShape
      <3> HIDE DEF new
      <3>3. Ids' = Ids /\ tasks'[t] = new /\ \A i \in Ids : i # t => tasks'[i] = tasks[i]
            BY <3>1, <3>2 DEF Ids, TypeOK
      <3>4. work'[w] = Idle
            BY <3>1 DEF TypeOK
      <3>5. ASSUME NEW i \in Ids, i # t
            PROVE  /\ i \in IntegrityIssues' => i \in IntegrityIssues
                   /\ i \in IntegrityIssues /\ i \notin IntegrityIssues' => Vanishes(i)
            BY <3>1, <3>3, <3>5, IssueKept
      <3>6. ASSUME t \in IntegrityIssues', t \notin IntegrityIssues PROVE Appears(t)
        <4>1. new.assignee_id # tasks[t].assignee_id
              BY <3>1, <3>2, <3>3, <3>6 DEF IntegrityIssues
        <4>2. CASE t \in raced'
              BY <3>1, <3>4, <4>2 DEF Appears
        <4>3. CASE Content(tasks[t]) = Content(job.current)
          <5>1. job.patch.assignee_id = new.assignee_id
                BY <3>2, <4>1, <4>3 DEF Content, Patched
          <5> QED
              BY <3>1, <3>3, <3>4, <5>1 DEF Appears
        <4> QED
            BY <3>1, <4>2, <4>3
      <3>7. ASSUME t \in IntegrityIssues, t \notin IntegrityIssues' PROVE Vanishes(t)
            BY <3>1, <3>2, <3>3, <3>7 DEF IntegrityIssues, Vanishes
      <3> QED
          BY <2>1, <3>3, <3>5, <3>6, <3>7
    <2> QED
        BY <2>2, <2>3, <2>4 DEF Next, vars, Join, Read, Leave, Midnight
  <1> QED
      BY TypeCorrect, <1>1, PTL DEF Spec, IssuesHaveCauses, Appears, Vanishes
-----------------------------------------------------------------------------
(* ORDER BY, for the two that read table tasks in an order.                *)

\* order is a strict total order of S.
Orders(order, S) ==
  /\ \A x \in S : <<x, x>> \notin order
  /\ \A x, y \in S : x # y => <<x, y>> \in order \/ <<y, x>> \in order
  /\ \A x, y, z \in S : <<x, y>> \in order /\ <<y, z>> \in order => <<x, z>> \in order

\* Row numbers are those of the rows, and increase in the order.
LEMMA RowNumbers ==
  ASSUME NEW S, IsFiniteSet(S), NEW order, Orders(order, S)
  PROVE  /\ Cardinality(S) \in Nat
         /\ \A x \in S : RowNumber(S, order, x) \in 1..Cardinality(S)
         /\ \A x, y \in S : <<x, y>> \in order <=> RowNumber(S, order, x) < RowNumber(S, order, y)
  <1> DEFINE Before(x) == {y \in S : <<y, x>> \in order}
             Upto(x)   == Before(x) \cup {x}
  <1>1. Cardinality(S) \in Nat
        BY FS_CardinalityType
  <1>2. ASSUME NEW x \in S
        PROVE  /\ RowNumber(S, order, x) \in Nat \ {0}
               /\ RowNumber(S, order, x) = Cardinality(Upto(x))
    <2> DEFINE B == Before(x)
    <2>1. B \in SUBSET S /\ x \notin B
          BY DEF Orders
    <2>2. RowNumber(S, order, x) = Cardinality(B) + 1
          BY DEF RowNumber
    <2> HIDE DEF B
    <2>3. IsFiniteSet(B)
          BY <2>1, FS_Subset
    <2>4. Cardinality(B) \in Nat
          BY <2>3, FS_CardinalityType
    <2>5. Cardinality(B \cup {x}) = Cardinality(B) + 1
          BY <2>1, <2>3, FS_AddElement
    <2> QED
        BY <2>2, <2>4, <2>5 DEF B
  <1>3. ASSUME NEW x \in S PROVE RowNumber(S, order, x) <= Cardinality(S)
    <2>1. Upto(x) \in SUBSET S
          OBVIOUS
    <2>2. Cardinality(Upto(x)) <= Cardinality(S)
          BY <2>1, FS_Subset
    <2> QED
        BY <1>2, <2>2
  <1>4. ASSUME NEW x \in S, NEW y \in S, <<x, y>> \in order
        PROVE  RowNumber(S, order, x) < RowNumber(S, order, y)
    <2> DEFINE B == Before(y)
    <2>1. Upto(x) \in SUBSET B
          BY <1>4 DEF Orders
    <2>2. B \in SUBSET S
          OBVIOUS
    <2>3. RowNumber(S, order, y) = Cardinality(B) + 1
          BY DEF RowNumber
    <2> HIDE DEF B
    <2>4. IsFiniteSet(B)
          BY <2>2, FS_Subset
    <2>5. Cardinality(B) \in Nat
          BY <2>4, FS_CardinalityType
    <2>6. Cardinality(Upto(x)) <= Cardinality(B)
          BY <2>1, <2>4, FS_Subset
    <2>7. RowNumber(S, order, x) \in Nat /\ RowNumber(S, order, x) = Cardinality(Upto(x))
          BY <1>2
    <2> HIDE DEF Upto
    <2> QED
        BY <2>3, <2>5, <2>6, <2>7
  <1>5. \A x \in S : RowNumber(S, order, x) \in 1..Cardinality(S)
    <2> HIDE DEF Upto
    <2> QED
        BY <1>1, <1>2, <1>3
  <1>6. ASSUME NEW x \in S, NEW y \in S, RowNumber(S, order, x) < RowNumber(S, order, y)
        PROVE  <<x, y>> \in order
    <2>1. ~(RowNumber(S, order, y) < RowNumber(S, order, x)) /\ x # y
          BY <1>1, <1>5, <1>6
    <2>2. <<y, x>> \notin order
          BY <1>4, <2>1
    <2> QED
        BY <2>1, <2>2 DEF Orders
  <1> QED
      BY <1>1, <1>4, <1>5, <1>6

\* Every number up to that of the elements is the number of one.
LEMMA RowsNumbered ==
  ASSUME NEW S, IsFiniteSet(S), NEW order, Orders(order, S), NEW n \in 1..Cardinality(S)
  PROVE  \E x \in S : RowNumber(S, order, x) = n
  <1> DEFINE place == [x \in S |-> RowNumber(S, order, x)]
             N     == 1..Cardinality(S)
  <1>1. \A x, y \in S : RowNumber(S, order, x) = RowNumber(S, order, y) => x = y
        BY RowNumbers DEF Orders
  <1>2. place \in Injection(S, N)
        BY <1>1, RowNumbers DEF Injection, IsInjective
  <1>3. IsFiniteSet(N) /\ Cardinality(N) = Cardinality(S)
        BY RowNumbers, FS_Interval
  <1> HIDE DEF N
  <1>4. place \in Surjection(S, N)
        BY <1>2, <1>3, FS_Injection
  <1> QED
      BY <1>4 DEF Surjection, N

\* ORDER BY lists the rows, each at its number.
LEMMA Ordered ==
  ASSUME NEW S, IsFiniteSet(S), NEW order, Orders(order, S)
  PROVE  LET all == OrderBy(S, order)
         IN  /\ all \in Seq(S) /\ Len(all) = Cardinality(S)
             /\ \A n \in 1..Cardinality(S) : all[n] \in S /\ RowNumber(S, order, all[n]) = n
             /\ \A x \in S : all[RowNumber(S, order, x)] = x
             /\ \A m, n \in 1..Cardinality(S) : m < n => <<all[m], all[n]>> \in order
  <1> DEFINE all == OrderBy(S, order)
  <1>1. \A n \in 1..Cardinality(S) : all[n] \in S /\ RowNumber(S, order, all[n]) = n
        BY RowsNumbered DEF OrderBy
  <1>2. \A x, y \in S : RowNumber(S, order, x) = RowNumber(S, order, y) => x = y
        BY RowNumbers DEF Orders
  <1>3. all \in [1..Cardinality(S) -> S]
        BY <1>1 DEF OrderBy
  <1>4. all \in Seq(S) /\ Len(all) = Cardinality(S)
        BY <1>3, RowNumbers
  <1> HIDE DEF all
  <1>5. \A x \in S : all[RowNumber(S, order, x)] = x
        BY <1>1, <1>2, RowNumbers
  <1>6. \A m, n \in 1..Cardinality(S) : m < n => <<all[m], all[n]>> \in order
        BY <1>1, RowNumbers
  <1> QED
      BY <1>1, <1>4, <1>5, <1>6 DEF all
-----------------------------------------------------------------------------
(* The ranks of the creators. *)

\* A list of the best by count: as long as it may be, without repetition, in
\* order, and with nobody left out who is above one of those listed.
Best(count, top) ==
  /\ Len(top) \in Nat /\ Len(top) <= Top
  /\ \A k \in 1..Len(top) : top[k] \in Users /\ count[top[k]] > 0
  /\ \A j, k \in 1..Len(top) : j < k => Above(count, top[j], top[k])
  /\ \A v \in Users : count[v] > 0 =>
       \/ \E k \in 1..Len(top) : top[k] = v
       \/ Len(top) = Top /\ \A k \in 1..Len(top) : Above(count, top[k], v)

LEMMA RankedBest ==
  ASSUME NEW count \in [Users -> Nat]
  PROVE  Best(count, Ranked(count))
  <1> DEFINE S     == {u \in Users : count[u] > 0}
             order == {p \in Users \X Users : Above(count, p[1], p[2])}
             all   == OrderBy(S, order)
             N     == Cardinality(S)
             L     == IF N > Top THEN Top ELSE N
             top   == Ranked(count)
  <1>1. IsFiniteSet(S)
        BY FS_Subset, ConstantsAssumption
  <1>2. \A u, v \in Users : <<u, v>> \in order <=> Above(count, u, v)
        OBVIOUS
  <1>3. Orders(order, S)
    <2> HIDE DEF order
    <2> QED
        BY <1>2, ConstantsAssumption DEF Orders, Above
  <1>4. N \in Nat /\ \A x \in S : RowNumber(S, order, x) \in 1..N
        BY <1>1, <1>3, RowNumbers
  <1>5. /\ all \in Seq(S) /\ Len(all) = N
        /\ \A n \in 1..N : all[n] \in S
        /\ \A x \in S : all[RowNumber(S, order, x)] = x
        /\ \A m, n \in 1..N : m < n => <<all[m], all[n]>> \in order
        BY <1>1, <1>3, Ordered
  <1>6. top = SubSeq(all, 1, IF Len(all) > Top THEN Top ELSE Len(all))
        BY DEF Ranked
  <1>7. L \in Nat /\ L <= Top /\ L <= N /\ (L < N => L = Top)
        BY <1>4, ConstantsAssumption
  <1> HIDE DEF all, top, order
  <1>8. Len(top) = L /\ \A k \in 1..L : top[k] = all[k]
    <2>1. top = SubSeq(all, 1, L)
          BY <1>5, <1>6
    <2> HIDE DEF L
    <2>2. all \in Seq(S) /\ L \in Nat /\ L <= Len(all)
          BY <1>4, <1>5, <1>7
    <2> QED
        BY <2>1, <2>2
  <1> HIDE DEF L
  <1>9. \A k \in 1..L : k \in 1..N
        BY <1>4, <1>7
  <1>10. \A k \in 1..L : top[k] \in Users /\ count[top[k]] > 0
         BY <1>5, <1>8, <1>9
  <1>11. \A j, k \in 1..L : j < k => Above(count, top[j], top[k])
         BY <1>2, <1>5, <1>8, <1>9
  <1>12. ASSUME NEW v \in S, \A k \in 1..L : top[k] # v
         PROVE  L = Top /\ \A k \in 1..L : Above(count, top[k], v)
    <2>1. PICK n \in 1..N : all[n] = v
          BY <1>4, <1>5
    <2>2. n > L
          BY <1>4, <1>7, <1>8, <1>12, <2>1
    <2>3. L = Top
          BY <1>4, <1>7, <2>1, <2>2
    <2>4. \A k \in 1..L : <<all[k], v>> \in order
          BY <1>4, <1>5, <1>7, <1>9, <2>1, <2>2
    <2> QED
        BY <1>2, <1>8, <1>10, <2>3, <2>4
  <1> QED
      BY <1>7, <1>8, <1>10, <1>11, <1>12 DEF Best, top

\* A list without repetition has as many members as places.
LEMMA Distinct ==
  ASSUME NEW n \in Nat, NEW s, \A j, k \in 1..n : j < k => s[j] # s[k]
  PROVE  Cardinality({s[k] : k \in 1..n}) = n
  <1> DEFINE N == 1..n
             T == {s[k] : k \in N}
             f == [k \in N |-> s[k]]
  <1>1. IsFiniteSet(N) /\ Cardinality(N) = n
        BY FS_Interval
  <1>2. \A j, k \in N : s[j] = s[k] => j = k
        OBVIOUS
  <1> HIDE DEF N
  <1>3. f \in Surjection(N, T)
        BY DEF Surjection
  <1>4. f \in Injection(N, T)
        BY <1>2 DEF Injection, IsInjective
  <1>5. Cardinality(T) = Cardinality(N)
        BY <1>1, <1>3, <1>4, FS_Surjection
  <1> QED
      BY <1>1, <1>5 DEF N

\* What a creator has made lately, by the age of the tasks.
Made(tm, u) ==
  Cardinality({i \in Ids : /\ tasks[i].team = tm
                           /\ tasks[i].created_by = u
                           /\ today - tasks[i].created_at <= MonthDays})

LEMMA CountIsMade ==
  ASSUME TypeOK, NEW tm \in Teams
  PROVE  /\ TaskCount[tm] \in [Users -> Nat]
         /\ \A u \in Users : TaskCount[tm][u] = Made(tm, u)
  <1>1. ASSUME NEW u \in Users
        PROVE  CreatedLately(tm, u) = {i \in Ids : /\ tasks[i].team = tm
                                                   /\ tasks[i].created_by = u
                                                   /\ today - tasks[i].created_at <= MonthDays}
    <2>1. today \in Int /\ MonthDays \in Int /\ \A i \in Ids : tasks[i].created_at \in Int
      <3>1. today \in Int /\ MonthDays \in Int /\ Days \subseteq Int
            BY ConstantsAssumption DEF TypeOK, Days
      <3>2. \A i \in Ids : tasks[i] \in Task
            BY DEF TypeOK, Ids
      <3> QED
          BY <3>1, <3>2 DEF Task
    <2> QED
        BY <2>1 DEF CreatedLately, TasksOf
  <1>2. ASSUME NEW u \in Users PROVE Cardinality(CreatedLately(tm, u)) \in Nat
    <2>1. IsFiniteSet(Ids)
          BY FS_Interval DEF Ids, TypeOK
    <2>2. CreatedLately(tm, u) \in SUBSET Ids
          BY DEF CreatedLately, TasksOf
    <2> QED
        BY <2>1, <2>2, FS_Subset, FS_CardinalityType
  <1> QED
      BY <1>1, <1>2 DEF TaskCount, Made

\* TopCreators lists the most active of each team, and no one is left out for
\* someone who has made less (AnalyticsRepo.TopCreators).
THEOREM TopCreatorsRanked == Spec => []TopCreatorsAreTop
  <1>1. ASSUME TypeOK, NEW tm \in Teams
        PROVE  LET top    == TopCreators[tm]
                   listed == {top[k] : k \in 1..Len(top)}
               IN  /\ Len(top) <= Top /\ Cardinality(listed) = Len(top)
                   /\ \A u \in listed : Made(tm, u) > 0
                   /\ \A v \in Users \ listed :
                        Made(tm, v) > 0 =>
                          /\ Len(top) = Top
                          /\ \A u \in listed : \/ Made(tm, u) > Made(tm, v)
                                               \/ Made(tm, u) = Made(tm, v) /\ Id[u] < Id[v]
                   /\ \A j, k \in 1..Len(top) : j < k => Made(tm, top[j]) >= Made(tm, top[k])
    <2> DEFINE top    == TopCreators[tm]
               listed == {top[k] : k \in 1..Len(top)}
               count  == TaskCount[tm]
    <2>1. count \in [Users -> Nat] /\ \A u \in Users : count[u] = Made(tm, u)
          BY <1>1, CountIsMade
    <2>2. top = Ranked(count)
          BY DEF TopCreators
    <2> HIDE DEF count, top
    <2>3. Best(count, top)
          BY <2>1, <2>2, RankedBest
    <2>4. \A j, k \in 1..Len(top) : j < k => top[j] # top[k]
      <3> SUFFICES ASSUME NEW j \in 1..Len(top), NEW k \in 1..Len(top), j < k, top[j] = top[k]
                   PROVE  FALSE
          OBVIOUS
      <3>1. Above(count, top[j], top[k]) /\ top[j] \in Users
            BY <2>3 DEF Best
      <3>2. count[top[j]] \in Nat /\ Id[top[j]] \in Nat
            BY <2>1, <3>1, ConstantsAssumption
      <3> QED
          BY <3>1, <3>2 DEF Above
    <2>5. Cardinality(listed) = Len(top)
          BY <2>3, <2>4, Distinct DEF Best
    <2>6. \A u \in listed : u \in Users /\ count[u] > 0
          BY <2>3 DEF Best
    <2>7. ASSUME NEW v \in Users \ listed, count[v] > 0
          PROVE  Len(top) = Top /\ \A u \in listed : Above(count, u, v)
          BY <2>3, <2>7 DEF Best
    <2>8. \A j, k \in 1..Len(top) : j < k => count[top[j]] >= count[top[k]]
          BY <2>1, <2>3 DEF Best, Above
    <2>9. \A k \in 1..Len(top) : top[k] \in Users
          BY <2>3 DEF Best
    <2>10. \A v \in Users \ listed : Made(tm, v) > 0 =>
             /\ Len(top) = Top
             /\ \A u \in listed : \/ Made(tm, u) > Made(tm, v)
                                  \/ Made(tm, u) = Made(tm, v) /\ Id[u] < Id[v]
           BY <2>1, <2>6, <2>7 DEF Above
    <2>11. /\ \A u \in listed : Made(tm, u) > 0
           /\ \A j, k \in 1..Len(top) : j < k => Made(tm, top[j]) >= Made(tm, top[k])
           BY <2>1, <2>6, <2>8, <2>9
    <2> QED
        BY <2>3, <2>5, <2>10, <2>11 DEF Best, top
  <1>2. TypeOK => TopCreatorsAreTop
        BY <1>1 DEF TopCreatorsAreTop, Made
  <1> QED
      BY TypeCorrect, <1>2, PTL
-----------------------------------------------------------------------------
(* Pages of the list.  The filter behind a key, and what a page of it is.   *)

\* What normalizeFilter may return for a request that ListTasks accepts.
ListFilter ==
  [team     : Nat \ {0},
   status   : Statuses \cup {All},
   assignee : Users \cup {All},
   limit    : 1..MaxLimit,
   offset   : Nat]

\* The filter that a key was made of.
FilterOf(k) == [team |-> k[3], status |-> k[4], assignee |-> k[5], limit |-> k[6], offset |-> k[7]]

\* The tasks that stand before task i on the list of f.
Ahead(f, i) == {j \in Matching(f) : j > i}

\* No set of a team has a key of another team, live or not.
SetsAreOfTheTeam == \A tm \in Teams : \A k \in registered[tm] : k[3] = tm

\* A slice is the page of its key's filter, or from before a write; then, too,
\* it has only rows that match the filter, and not too many.
SlicesArePages ==
  \A k \in Keys : Live(k) =>
    /\ k \notin behind => slices[k] = Select(FilterOf(k))
    /\ Len(slices[k]) <= k[6]
    /\ Len(slices[k]) > 0 => k[7] + Len(slices[k]) <= MaxTasks
    /\ \A n \in 1..Len(slices[k]) : Matches(slices[k][n].row, FilterOf(k))

\* What a client is still due is on the list, beyond the place it has come to.
DueIsAhead ==
  walk # NoWalk =>
    /\ Allowed(walk.query)
    /\ \A i \in walk.due : /\ i \in Matching(Filter(walk.query))
                           /\ Cardinality(Ahead(Filter(walk.query), i)) >= walk.query.offset
    /\ walk.over => walk.due = {}

PagesInv == PagesTypeOK /\ SetsAreOfTheTeam /\ SlicesArePages /\ DueIsAhead

\* The part of it about the table and the slices.
StoreInv ==
  /\ tasks \in Seq(Row) /\ Len(tasks) <= MaxTasks
  /\ slices \in [Keys -> Page \cup {Absent}]
  /\ registered \in [Teams -> SUBSET Keys]
  /\ \A k \in Keys : Live(k) => \A tm \in Teams :
                           k \in registered[tm] <=> k[3] = tm /\ k \notin orphans
  /\ behind \subseteq Keys
  /\ orphans \subseteq Keys
  /\ SetsAreOfTheTeam
  /\ SlicesArePages

\* The filter of a request, and the key of the filter, say what the request says.
LEMMA FilterTyped ==
  ASSUME NEW q \in Queries, ~Rejected(q)
  PROVE  /\ Filter(q) \in ListFilter
         /\ Filter(q).team = q.team
         /\ Filter(q).limit = Size(q)
         /\ Filter(q).offset = First(q)
         /\ Filter(q).status = IF q.status = Missing THEN All ELSE q.status
         /\ Filter(q).assignee = IF q.assignee = Missing THEN All ELSE q.assignee
  <1> DEFINE f == Parsed(q)
             g == Normalized(f)
  <1>1. q \in Query
        BY PagesAssumption
  <1>2. /\ q.team \in Nat \ {0}
        /\ q.status \in Statuses \cup {Missing}
        /\ q.assignee \in Users \cup {Missing}
    <2>1. q.team \in Int \cup NotGiven /\ q.team \notin NotGiven /\ ~(q.team <= 0)
          BY <1>1 DEF Query, Rejected
    <2> QED
        BY <1>1, <2>1 DEF Query, Rejected, NotGiven
  <1>3. AtoiDefault(q.limit, 0) \in Int /\ AtoiDefault(q.offset, 0) \in Int
        BY <1>1 DEF Query, AtoiDefault
  <1> DEFINE status   == IF q.status = Missing THEN All ELSE q.status
             assignee == IF q.assignee = Missing THEN All ELSE q.assignee
             asLimit  == AtoiDefault(q.limit, 0)
             asOffset == AtoiDefault(q.offset, 0)
             limit    == IF asLimit <= 0 THEN DefaultLimit
                         ELSE IF asLimit > MaxLimit THEN MaxLimit ELSE asLimit
             offset   == IF asOffset < 0 THEN 0 ELSE asOffset
  <1>4. f = [team |-> q.team, status |-> status, assignee |-> assignee,
             limit |-> asLimit, offset |-> asOffset]
        BY DEF Parsed
  <1> HIDE DEF f, asLimit, asOffset
  <1>5. g = [team |-> q.team, status |-> status, assignee |-> assignee,
             limit |-> limit, offset |-> offset]
    <2> DEFINE h == [f EXCEPT !.limit = limit]
    <2>1. f.limit = asLimit /\ f.offset = asOffset
          BY <1>4
    <2>2. g = [h EXCEPT !.offset = offset]
          BY <2>1 DEF Normalized
    <2> HIDE DEF g, status, assignee, limit, offset
    <2>3. h = [team |-> q.team, status |-> status, assignee |-> assignee,
               limit |-> limit, offset |-> asOffset]
          BY <1>4
    <2> HIDE DEF h
    <2> QED
        BY <2>2, <2>3
  <1> HIDE DEF g
  <1>6. limit \in 1..MaxLimit /\ offset \in Nat
        BY <1>3, PagesAssumption DEF asLimit, asOffset
  <1>7. limit = Size(q)
    <2>1. CASE q.limit \in NotGiven
          BY <2>1 DEF Size, AtoiDefault, asLimit
    <2>2. CASE q.limit \notin NotGiven
      <3>1. q.limit \in Int /\ asLimit = q.limit
            BY <1>1, <2>2 DEF AtoiDefault, Query, asLimit
      <3> QED
          BY <2>2, <3>1, PagesAssumption DEF Size
    <2> QED
        BY <2>1, <2>2
  <1>8. offset = First(q)
    <2>1. CASE q.offset \in NotGiven
      <3>1. q.offset \notin Nat
            BY <2>1, QuerySentinelsAssumption DEF NotGiven
      <3> QED
          BY <2>1, <3>1 DEF First, AtoiDefault, asOffset
    <2>2. CASE q.offset \notin NotGiven
      <3>1. q.offset \in Int /\ asOffset = q.offset
            BY <1>1, <2>2 DEF AtoiDefault, Query, asOffset
      <3> QED
          BY <3>1 DEF First
    <2> QED
        BY <2>1, <2>2
  <1>9. status \in Statuses \cup {All} /\ assignee \in Users \cup {All}
        BY <1>2
  <1> HIDE DEF limit, offset
  <1>10. g \in ListFilter
         BY <1>2, <1>5, <1>6, <1>9 DEF ListFilter
  <1> QED
      BY <1>5, <1>7, <1>8, <1>10 DEF Filter, g, f

\* A key tells its filter, and the team that teamIDFromKey looks for.
LEMMA KeyTellsFilter ==
  ASSUME NEW f \in ListFilter
  PROVE  /\ FilterOf(TasksKey(f)) = f
         /\ TasksKey(f)[3] = f.team
         /\ TasksKey(f)[6] = f.limit
         /\ TasksKey(f)[7] = f.offset
         /\ TeamIDFromKey(TasksKey(f)) = f.team
  <1>1. f = [team |-> f.team, status |-> f.status, assignee |-> f.assignee,
             limit |-> f.limit, offset |-> f.offset]
        BY DEF ListFilter
  <1>2. FilterOf(TasksKey(f)) = [team |-> f.team, status |-> f.status, assignee |-> f.assignee,
                                 limit |-> f.limit, offset |-> f.offset]
        BY DEF FilterOf, TasksKey
  <1>3. /\ TasksKey(f)[3] = f.team
        /\ TasksKey(f)[6] = f.limit
        /\ TasksKey(f)[7] = f.offset
        /\ TeamIDFromKey(TasksKey(f)) = f.team
        BY DEF TasksKey, TeamIDFromKey
  <1> QED
      BY <1>1, <1>2, <1>3

LEMMA KeyOfRequest ==
  ASSUME NEW q \in Queries, ~Rejected(q)
  PROVE  TasksKey(Filter(q)) \in Keys
  BY DEF Keys

LEMMA RequestOfKey ==
  ASSUME NEW k \in Keys
  PROVE  FilterOf(k) \in ListFilter /\ k = TasksKey(FilterOf(k))
  <1>1. PICK q \in Queries : ~Rejected(q) /\ k = TasksKey(Filter(q))
        BY DEF Keys
  <1>2. Filter(q) \in ListFilter
        BY <1>1, FilterTyped
  <1> QED
      BY <1>1, <1>2, KeyTellsFilter

\* The WHERE of the filter is what the request asks for.
LEMMA MatchesIsAsked ==
  ASSUME NEW q \in Queries, ~Rejected(q), NEW row \in Row
  PROVE  Matches(row, Filter(q)) <=> Asked(q, row)
  <1>1. q \in Query
        BY PagesAssumption
  <1>2. q.status \in Statuses \cup {Missing} /\ q.assignee \in Users \cup {Missing}
        BY <1>1 DEF Query, Rejected, NotGiven
  <1>3. /\ q.status # Missing => q.status # All
        /\ q.assignee # Missing => q.assignee # All
        BY <1>2, QuerySentinelsAssumption
  <1>4. /\ Filter(q).team = q.team
        /\ Filter(q).status = IF q.status = Missing THEN All ELSE q.status
        /\ Filter(q).assignee = IF q.assignee = Missing THEN All ELSE q.assignee
        BY FilterTyped
  <1> QED
      BY <1>3, <1>4 DEF Matches, Asked

\* ORDER BY id DESC.
NewestFirst == {p \in Ids \X Ids : p[1] > p[2]}

LEMMA NewestFirstOrders ==
  ASSUME tasks \in Seq(Row), NEW f
  PROVE  /\ IsFiniteSet(Matching(f)) /\ Matching(f) \in SUBSET Ids /\ Ids \subseteq Nat
         /\ Orders(NewestFirst, Matching(f))
         /\ \A i \in Matching(f) : /\ RowNumber(Matching(f), NewestFirst, i) = Cardinality(Ahead(f, i)) + 1
                                   /\ Cardinality(Ahead(f, i)) \in Nat
  <1>1. Len(tasks) \in Nat /\ Ids \subseteq Nat /\ Matching(f) \in SUBSET Ids
        BY DEF Ids, Matching
  <1>2. IsFiniteSet(Ids)
        BY <1>1, FS_Interval DEF Ids
  <1>3. IsFiniteSet(Matching(f))
        BY <1>1, <1>2, FS_Subset
  <1>4. \A i, j \in Ids : <<i, j>> \in NewestFirst <=> i > j
        BY DEF NewestFirst
  <1>5. Orders(NewestFirst, Matching(f))
    <2> DEFINE S == Matching(f)
    <2>1. \A i \in S : i \in Ids /\ i \in Nat
          BY <1>1
    <2> HIDE DEF S
    <2>2. \A i, j \in S : <<i, j>> \in NewestFirst <=> i > j
          BY <1>4, <2>1
    <2>3. Orders(NewestFirst, S)
          BY <2>1, <2>2 DEF Orders
    <2> QED
        BY <2>3 DEF S
  <1>6. ASSUME NEW i \in Matching(f)
        PROVE  /\ RowNumber(Matching(f), NewestFirst, i) = Cardinality(Ahead(f, i)) + 1
               /\ Cardinality(Ahead(f, i)) \in Nat
    <2>1. Ahead(f, i) = {j \in Matching(f) : <<j, i>> \in NewestFirst}
          BY <1>1, <1>4 DEF Ahead
    <2>2. Ahead(f, i) \in SUBSET Matching(f)
          BY DEF Ahead
    <2>3. Cardinality(Ahead(f, i)) \in Nat
          BY <1>3, <2>2, FS_Subset, FS_CardinalityType
    <2> QED
        BY <2>1, <2>3 DEF RowNumber
  <1> QED
      BY <1>1, <1>3, <1>5, <1>6

\* Which rows a page has, and in which order.
LEMMA Selected ==
  ASSUME tasks \in Seq(Row), NEW f \in ListFilter
  PROVE  LET page == Select(f)
         IN  /\ page \in Seq([id : Ids, row : Row])
             /\ Len(page) <= f.limit
             /\ Len(page) > 0 => f.offset + Len(page) <= Len(tasks)
             /\ \A n \in 1..Len(page) : /\ page[n].id \in Matching(f)
                                        /\ page[n].row = tasks[page[n].id]
                                        /\ Cardinality(Ahead(f, page[n].id)) = f.offset + n - 1
             /\ \A i \in Matching(f) :
                  LET place == Cardinality(Ahead(f, i))
                  IN  /\ place \in f.offset..(f.offset + Len(page) - 1) => \E n \in 1..Len(page) : page[n].id = i
                      /\ place >= f.offset + Len(page) => Len(page) = f.limit
             /\ \A m, n \in 1..Len(page) : m < n => page[m].id > page[n].id
  <1> DEFINE S    == Matching(f)
             N    == Cardinality(S)
             all  == OrderBy(S, NewestFirst)
             last == IF f.offset + f.limit > Len(all) THEN Len(all) ELSE f.offset + f.limit
             L    == IF last > f.offset THEN last - f.offset ELSE 0
             page == Select(f)
  <1>1. f.offset \in Nat /\ f.limit \in Nat \ {0} /\ f.limit \in 1..MaxLimit
        BY PagesAssumption DEF ListFilter
  <1>2. /\ IsFiniteSet(S) /\ S \in SUBSET Ids /\ Ids \subseteq Nat
        /\ Orders(NewestFirst, S)
        /\ \A i \in S : /\ RowNumber(S, NewestFirst, i) = Cardinality(Ahead(f, i)) + 1
                        /\ Cardinality(Ahead(f, i)) \in Nat
        BY NewestFirstOrders
  <1>3. N \in Nat /\ \A i \in S : RowNumber(S, NewestFirst, i) \in 1..N
        BY <1>2, RowNumbers
  <1>4. /\ Len(all) = N
        /\ \A n \in 1..N : all[n] \in S /\ RowNumber(S, NewestFirst, all[n]) = n
        /\ \A i \in S : all[RowNumber(S, NewestFirst, i)] = i
        /\ \A m, n \in 1..N : m < n => <<all[m], all[n]>> \in NewestFirst
        BY <1>2, Ordered
  <1>5. N <= Len(tasks)
    <2>1. Len(tasks) \in Nat
          OBVIOUS
    <2>2. IsFiniteSet(1..Len(tasks)) /\ Cardinality(1..Len(tasks)) = Len(tasks)
          BY <2>1, FS_Interval
    <2> QED
        BY <1>2, <2>2, FS_Subset DEF Ids
  <1>6. page = [n \in 1..L |-> [id |-> all[f.offset + n], row |-> tasks[all[f.offset + n]]]]
        BY DEF Select, NewestFirst
  <1> HIDE DEF all, page, N, S
  <1>7. /\ L \in Nat /\ L <= f.limit
        /\ L > 0 => f.offset + L <= N
        /\ N > f.offset + L => L = f.limit
        /\ N > f.offset => f.offset + L = N \/ L = f.limit
        BY <1>1, <1>3, <1>4
  <1> HIDE DEF L
  <1>8. ASSUME NEW n \in 1..L
        PROVE  /\ f.offset + n \in 1..N
               /\ all[f.offset + n] \in S
               /\ Cardinality(Ahead(f, all[f.offset + n])) = f.offset + n - 1
    <2>1. f.offset + n \in 1..N
          BY <1>1, <1>3, <1>7
    <2> DEFINE i == all[f.offset + n]
    <2>2. i \in S /\ RowNumber(S, NewestFirst, i) = f.offset + n
          BY <1>4, <2>1
    <2> HIDE DEF i
    <2>3. RowNumber(S, NewestFirst, i) = Cardinality(Ahead(f, i)) + 1 /\ Cardinality(Ahead(f, i)) \in Nat
          BY <1>2, <2>2 DEF S
    <2>4. Cardinality(Ahead(f, i)) = f.offset + n - 1
          BY <1>1, <2>2, <2>3
    <2> QED
        BY <2>1, <2>2, <2>4 DEF i
  <1>9. \A n \in 1..L : page[n].id = all[f.offset + n] /\ page[n].row = tasks[all[f.offset + n]]
        BY <1>6
  <1>10. page \in Seq([id : Ids, row : Row]) /\ Len(page) = L
    <2> DEFINE Entry == [id : Ids, row : Row]
    <2>1. \A i \in Ids : tasks[i] \in Row
          BY DEF Ids
    <2>2. \A n \in 1..L : all[f.offset + n] \in Ids
          BY <1>2, <1>8 DEF S
    <2>3. \A n \in 1..L : [id |-> all[f.offset + n], row |-> tasks[all[f.offset + n]]] \in Entry
          BY <2>1, <2>2
    <2> HIDE DEF Entry
    <2>4. page \in [1..L -> Entry]
          BY <1>6, <2>3
    <2>5. page \in Seq(Entry) /\ Len(page) = L
          BY <1>7, <2>4
    <2> QED
        BY <2>5 DEF Entry
  <1>11. ASSUME NEW i \in S, Cardinality(Ahead(f, i)) \in f.offset..(f.offset + L - 1)
         PROVE  \E n \in 1..L : page[n].id = i
    <2> DEFINE n == Cardinality(Ahead(f, i)) + 1 - f.offset
    <2>1. n \in 1..L /\ f.offset + n = RowNumber(S, NewestFirst, i)
          BY <1>1, <1>2, <1>7, <1>11
    <2> HIDE DEF n
    <2> QED
        BY <1>4, <1>9, <2>1
  <1>12. ASSUME NEW i \in S, Cardinality(Ahead(f, i)) >= f.offset + L
         PROVE  L = f.limit
    <2>1. Cardinality(Ahead(f, i)) + 1 <= N
          BY <1>2, <1>3
    <2> QED
        BY <1>1, <1>2, <1>3, <1>7, <1>12, <2>1
  <1>13. ASSUME NEW m \in 1..L, NEW n \in 1..L, m < n
         PROVE  page[m].id > page[n].id
    <2> DEFINE a == f.offset + m
               b == f.offset + n
    <2>1. a \in 1..N /\ b \in 1..N
          BY <1>8
    <2>2. a < b
          BY <1>1, <1>7, <1>13
    <2> HIDE DEF a, b
    <2>3. <<all[a], all[b]>> \in NewestFirst
          BY <1>4, <2>1, <2>2
    <2>4. <<all[f.offset + m], all[f.offset + n]>> \in NewestFirst
          BY <2>3 DEF a, b
    <2> QED
        BY <1>9, <2>4 DEF NewestFirst
  <1>14. \A n \in 1..L : /\ page[n].id \in S
                         /\ page[n].row = tasks[page[n].id]
                         /\ Cardinality(Ahead(f, page[n].id)) = f.offset + n - 1
         BY <1>8, <1>9
  <1>15. L > 0 => f.offset + L <= Len(tasks)
         BY <1>1, <1>3, <1>5, <1>7
  <1> QED
      BY <1>7, <1>10, <1>11, <1>12, <1>13, <1>14, <1>15 DEF S, page

\* The table's answer to a request is the page that it asks for.
LEMMA AnswerIsPage ==
  ASSUME tasks \in Seq(Row), NEW q \in Queries, ~Rejected(q)
  PROVE  IsPage(q, Select(Filter(q)))
  <1> DEFINE f    == Filter(q)
             page == Select(f)
             S    == Matching(f)
  <1>1. f \in ListFilter /\ f.offset = First(q) /\ f.limit = Size(q)
        BY FilterTyped
  <1>2. f.offset \in Nat /\ f.limit \in Nat
        BY <1>1, PagesAssumption DEF ListFilter
  <1>3. \A i \in Ids : i \in S <=> Asked(q, tasks[i])
    <2>1. \A i \in Ids : tasks[i] \in Row
          BY DEF Ids
    <2> QED
        BY <2>1, MatchesIsAsked DEF Matching
  <1>4. S \in SUBSET Ids
        BY DEF Matching
  <1> HIDE DEF S
  <1>5. \A i \in S : Newer(q, i) = Cardinality(Ahead(f, i))
    <2> SUFFICES ASSUME NEW i \in S PROVE {j \in Ids : j > i /\ Asked(q, tasks[j])} = Ahead(f, i)
        BY DEF Newer
    <2> QED
        BY <1>3, <1>4 DEF Ahead, S
  <1> HIDE DEF f
  <1>6. /\ page \in Seq([id : Ids, row : Row])
        /\ Len(page) <= f.limit
        /\ \A n \in 1..Len(page) : /\ page[n].id \in S
                                   /\ page[n].row = tasks[page[n].id]
                                   /\ Cardinality(Ahead(f, page[n].id)) = f.offset + n - 1
        /\ \A i \in S :
             /\ Cardinality(Ahead(f, i)) \in f.offset..(f.offset + Len(page) - 1) => \E n \in 1..Len(page) : page[n].id = i
             /\ Cardinality(Ahead(f, i)) >= f.offset + Len(page) => Len(page) = f.limit
        /\ \A m, n \in 1..Len(page) : m < n => page[m].id > page[n].id
        BY <1>1, Selected DEF S
  <1> HIDE DEF page
  <1>7. Len(page) \in Nat
        BY <1>6
  <1>8. ASSUME NEW n \in 1..Len(page)
        PROVE  /\ page[n].id \in Ids /\ Asked(q, tasks[page[n].id])
               /\ Newer(q, page[n].id) \in First(q)..(First(q) + Size(q) - 1)
    <2>1. page[n].id \in S /\ Cardinality(Ahead(f, page[n].id)) = f.offset + n - 1
          BY <1>6
    <2>2. Newer(q, page[n].id) = f.offset + n - 1
          BY <1>5, <2>1
    <2>3. f.offset + n - 1 \in f.offset..(f.offset + f.limit - 1)
          BY <1>2, <1>6, <1>7
    <2> QED
        BY <1>1, <1>3, <1>4, <2>1, <2>2, <2>3
  <1>9. ASSUME NEW i \in Ids, Asked(q, tasks[i]), Newer(q, i) \in First(q)..(First(q) + Size(q) - 1)
        PROVE  \E n \in 1..Len(page) : page[n].id = i
    <2> DEFINE c == Cardinality(Ahead(f, i))
    <2>1. i \in S
          BY <1>3, <1>9
    <2>2. c \in f.offset..(f.offset + f.limit - 1)
          BY <1>1, <1>5, <1>9, <2>1
    <2>3. /\ c \in f.offset..(f.offset + Len(page) - 1) => \E n \in 1..Len(page) : page[n].id = i
          /\ c >= f.offset + Len(page) => Len(page) = f.limit
          BY <1>6, <2>1
    <2> HIDE DEF c
    <2>4. c \in f.offset..(f.offset + Len(page) - 1)
          BY <1>2, <1>7, <2>2, <2>3
    <2> QED
        BY <2>3, <2>4
  <1>10. {page[n].id : n \in 1..Len(page)} =
           {i \in Ids : Asked(q, tasks[i]) /\ Newer(q, i) \in First(q)..(First(q) + Size(q) - 1)}
         BY <1>8, <1>9
  <1> QED
      BY <1>6, <1>10 DEF IsPage, page, f

\* Two orders of the same elements that agree on them.
LEMMA OrdersAgree ==
  ASSUME NEW S, NEW o, NEW p, \A x, y \in S : <<x, y>> \in o <=> <<x, y>> \in p
  PROVE  OrderBy(S, o) = OrderBy(S, p)
  <1>1. \A x \in S : RowNumber(S, o, x) = RowNumber(S, p, x)
    <2> SUFFICES ASSUME NEW x \in S PROVE {y \in S : <<y, x>> \in o} = {y \in S : <<y, x>> \in p}
        BY DEF RowNumber
    <2> QED
        OBVIOUS
  <1>2. \A n : (CHOOSE x \in S : RowNumber(S, o, x) = n) = (CHOOSE x \in S : RowNumber(S, p, x) = n)
        BY <1>1
  <1> QED
      BY <1>2 DEF OrderBy

\* What a write of a team may do to the table: add tasks, and change some that
\* are the team's and stay so.
WroteFor(tm, new) ==
  /\ new \in Seq(Row) /\ Len(tasks) <= Len(new) /\ Len(new) <= MaxTasks
  /\ \A i \in 1..Len(new) : \/ new[i].team = tm /\ (i \in Ids => tasks[i].team = tm)
                            \/ i \in Ids /\ new[i] = tasks[i]

\* It leaves the pages of other teams as they are.
LEMMA OthersKept ==
  ASSUME tasks \in Seq(Row), NEW tm, WroteFor(tm, tasks'), NEW f \in ListFilter, f.team # tm
  PROVE  Select(f)' = Select(f)
  <1>1. Len(tasks) \in Nat /\ Len(tasks') \in Nat /\ Len(tasks) <= Len(tasks')
        BY DEF WroteFor
  <1>2. Ids \subseteq Ids' /\ Ids' \subseteq Nat /\ Ids \subseteq Nat
        BY <1>1 DEF Ids
  <1>3. \A i \in Ids' : \/ tasks'[i].team = tm /\ (i \in Ids => tasks[i].team = tm)
                        \/ i \in Ids /\ tasks'[i] = tasks[i]
        BY DEF WroteFor, Ids
  <1>4. Matching(f)' = {i \in Ids' : Matches(tasks'[i], f)}
        BY DEF Matching, Matches
  <1>5. Matching(f)' = Matching(f)
        BY <1>2, <1>3, <1>4 DEF Matching, Matches
  <1>6. \A i \in Matching(f) : i \in Ids /\ tasks'[i] = tasks[i]
        BY <1>2, <1>3 DEF Matching, Matches
  <1> DEFINE S == Matching(f)
             T == Matching(f)'
             o == NewestFirst
             p == NewestFirst'
  <1>7. \A x, y \in S : <<x, y>> \in p <=> <<x, y>> \in o
        BY <1>2, <1>6 DEF NewestFirst
  <1>8. OrderBy(T, p) = OrderBy(S, o)
    <2> HIDE DEF S, o, p
    <2>1. OrderBy(S, p) = OrderBy(S, o)
          BY <1>7, OrdersAgree
    <2> QED
        BY <1>5, <2>1 DEF S
  <1> DEFINE all  == OrderBy(S, o)
             last == IF f.offset + f.limit > Len(all) THEN Len(all) ELSE f.offset + f.limit
             L    == IF last > f.offset THEN last - f.offset ELSE 0
  <1>9. Select(f) = [n \in 1..L |-> [id |-> all[f.offset + n], row |-> tasks[all[f.offset + n]]]]
        BY DEF Select, NewestFirst
  <1>10. Select(f)' = [n \in 1..L |-> [id |-> all[f.offset + n], row |-> tasks'[all[f.offset + n]]]]
    <2> DEFINE allNext  == OrderBy(T, p)
               lastNext == IF f.offset + f.limit > Len(allNext) THEN Len(allNext) ELSE f.offset + f.limit
               LNext    == IF lastNext > f.offset THEN lastNext - f.offset ELSE 0
    <2>1. Select(f)' = [n \in 1..LNext |-> [id  |-> allNext[f.offset + n],
                                           row |-> tasks'[allNext[f.offset + n]]]]
          BY DEF Select, NewestFirst
    <2>2. allNext = all
          BY <1>8
    <2> HIDE DEF allNext, all
    <2> QED
        BY <2>1, <2>2
  <1>11. \A n \in 1..L : all[f.offset + n] \in S
    <2> DEFINE N == Cardinality(S)
    <2>1. IsFiniteSet(S) /\ Orders(o, S)
          BY NewestFirstOrders
    <2>2. Len(all) = N /\ \A n \in 1..N : all[n] \in S
          BY <2>1, Ordered
    <2>3. N \in Nat /\ f.offset \in Nat /\ f.limit \in Nat
          BY <2>1, RowNumbers, PagesAssumption DEF ListFilter
    <2> HIDE DEF all, N
    <2>4. \A n \in 1..L : f.offset + n \in 1..N
          BY <2>2, <2>3
    <2> QED
        BY <2>2, <2>4
  <1> HIDE DEF all, L
  <1>12. \A n \in 1..L : tasks'[all[f.offset + n]] = tasks[all[f.offset + n]]
         BY <1>6, <1>11
  <1> QED
      BY <1>9, <1>10, <1>12

\* The same said of one slice at a time: what holds of it if it is live.
Sound(k, page) ==
  /\ Len(page) <= k[6]
  /\ Len(page) > 0 => k[7] + Len(page) <= MaxTasks
  /\ \A n \in 1..Len(page) : Matches(page[n].row, FilterOf(k))

\* The page of a filter is a sound slice of its key.
LEMMA SelectSound ==
  ASSUME tasks \in Seq(Row), Len(tasks) <= MaxTasks, NEW k \in Keys
  PROVE  Select(FilterOf(k)) \in Page /\ Sound(k, Select(FilterOf(k)))
  <1> DEFINE f    == FilterOf(k)
             page == Select(f)
  <1>1. f \in ListFilter /\ k[6] = f.limit /\ k[7] = f.offset
        BY RequestOfKey DEF FilterOf
  <1>2. f.offset \in Nat /\ Len(tasks) \in Nat /\ MaxTasks \in Nat
        BY <1>1, PagesAssumption DEF ListFilter
  <1> HIDE DEF f
  <1>3. /\ page \in Seq([id : Ids, row : Row])
        /\ Len(page) <= f.limit
        /\ Len(page) > 0 => f.offset + Len(page) <= Len(tasks)
        /\ \A n \in 1..Len(page) : page[n].id \in Matching(f) /\ page[n].row = tasks[page[n].id]
        BY <1>1, Selected
  <1> HIDE DEF page
  <1>4. page \in Page
    <2> DEFINE Small == [id : Ids, row : Row]
               Large == [id : 1..MaxTasks, row : Row]
    <2>1. Ids \subseteq 1..MaxTasks
          BY <1>2 DEF Ids
    <2>2. Small \subseteq Large
          BY <2>1
    <2> HIDE DEF Small, Large
    <2>3. page \in Seq(Small)
          BY <1>3 DEF Small
    <2>4. page \in Seq(Large)
          BY <2>2, <2>3
    <2> QED
        BY <2>4 DEF Page, Large
  <1>5. Len(page) \in Nat
        BY <1>3
  <1>6. \A n \in 1..Len(page) : Matches(page[n].row, f)
        BY <1>3 DEF Matching
  <1>7. Len(page) > 0 => f.offset + Len(page) <= MaxTasks
        BY <1>2, <1>3, <1>5
  <1> QED
      BY <1>1, <1>3, <1>4, <1>6, <1>7 DEF Sound, page, f

\* The page after a write is, too.
LEMMA SelectSoundNext ==
  tasks' \in Seq(Row) /\ Len(tasks') <= MaxTasks =>
    \A k \in Keys : Select(FilterOf(k))' \in Page /\ Sound(k, Select(FilterOf(k))')
  <1> DEFINE Fits == tasks \in Seq(Row) /\ Len(tasks) <= MaxTasks =>
                       \A k \in Keys : Select(FilterOf(k)) \in Page /\ Sound(k, Select(FilterOf(k)))
  <1>1. Fits
        BY SelectSound
  <1>2. Fits'
        BY <1>1, PTL
  <1> QED
      BY <1>2

\* The list is the same for as long as the table is.
LEMMA SelectKept ==
  ASSUME UNCHANGED tasks, NEW f
  PROVE  Select(f)' = Select(f)
  <1>1. Ids' = Ids
        BY DEF Ids
  <1>2. Matching(f)' = Matching(f)
        BY <1>1 DEF Matching, Matches
  <1> QED
      BY <1>1, <1>2 DEF Select

\* List's own fill, of a miss.
LEMMA StoreFilled ==
  ASSUME StoreInv, NEW q \in Queries, Fill(q, Select(Filter(q))), UNCHANGED tasks
  PROVE  StoreInv'
  <1> DEFINE k    == TasksKey(Filter(q))
             page == Select(Filter(q))
  <1>1. Allowed(q) /\ ~Rejected(q)
        BY DEF Fill, Allowed
  <1>2. Filter(q) \in ListFilter
        BY <1>1, FilterTyped
  <1>3. k \in Keys /\ FilterOf(k) = Filter(q) /\ TeamIDFromKey(k) = k[3]
        BY <1>1, <1>2, KeyOfRequest, KeyTellsFilter
  <1>4. page \in Page /\ Sound(k, page) /\ page = Select(FilterOf(k))
        BY <1>3, SelectSound DEF StoreInv
  <1>5. CASE UNCHANGED redis
    <2>1. UNCHANGED <<tasks, slices, registered, behind, orphans>>
          BY <1>5 DEF redis
    <2>2. \A f : Select(f)' = Select(f)
          BY SelectKept
    <2>3. SlicesArePages' /\ SetsAreOfTheTeam'
          BY <2>1, <2>2 DEF StoreInv, SlicesArePages, SetsAreOfTheTeam, Live
    <2> QED
        BY <2>1, <2>3 DEF StoreInv, Live
  <1>6. CASE /\ slices' = [slices EXCEPT ![k] = page]
             /\ registered' = Register(registered, k)
             /\ behind' = behind \ {k}
             /\ orphans' = orphans \ {k}
    <2> HIDE DEF k, page
    <2>1. /\ slices' \in [Keys -> Page \cup {Absent}]
          /\ slices'[k] = page
          /\ \A j \in Keys : j # k => slices'[j] = slices[j]
          BY <1>3, <1>4, <1>6 DEF StoreInv
    <2>2. \A tm \in Teams : registered'[tm] = IF tm = k[3] THEN registered[tm] \cup {k} ELSE registered[tm]
          BY <1>3, <1>6 DEF Register
    <2>3. registered' \in [Teams -> SUBSET Keys]
          BY <1>3, <1>6 DEF Register, StoreInv
    <2>4. SetsAreOfTheTeam'
      <3>1. \A tm \in Teams : \A j \in registered[tm] : j[3] = tm
            BY DEF StoreInv, SetsAreOfTheTeam
      <3>2. ASSUME NEW tm \in Teams, NEW j \in registered'[tm] PROVE j[3] = tm
            BY <2>2, <3>1
      <3> QED
          BY <3>2 DEF SetsAreOfTheTeam
    <2>5. ASSUME NEW j \in Keys, slices'[j] # Absent, NEW tm \in Teams
          PROVE  j \in registered'[tm] <=> j[3] = tm /\ j \notin orphans'
      <3>1. CASE j = k
            BY <1>6, <2>2, <2>4, <3>1 DEF SetsAreOfTheTeam
      <3>2. CASE j # k
        <4>1. \A tm2 \in Teams : j \in registered[tm2] <=> j[3] = tm2 /\ j \notin orphans
              BY <2>1, <2>5, <3>2 DEF StoreInv, Live
        <4>2. /\ j \in registered'[tm] <=> j \in registered[tm]
              /\ j \in orphans' <=> j \in orphans
              BY <1>6, <2>2, <3>2
        <4> QED
            BY <4>1, <4>2
      <3> QED
          BY <3>1, <3>2
    <2>6. \A f : Select(f)' = Select(f)
          BY SelectKept
    <2>7. SlicesArePages'
      <3> SUFFICES ASSUME NEW j \in Keys, slices'[j] # Absent
                   PROVE  /\ j \notin behind' => slices'[j] = Select(FilterOf(j))
                          /\ Sound(j, slices'[j])
          BY <2>6 DEF SlicesArePages, Live, Sound
      <3>1. CASE j = k
            BY <1>4, <2>1, <3>1
      <3>2. CASE j # k
            BY <1>6, <2>1, <3>2 DEF StoreInv, SlicesArePages, Live, Sound
      <3> QED
          BY <3>1, <3>2
    <2>8. behind' \subseteq Keys
          BY <1>6 DEF StoreInv
    <2>9. orphans' \subseteq Keys
          BY <1>6 DEF StoreInv
    <2> QED
        BY <2>1, <2>3, <2>4, <2>5, <2>7, <2>8, <2>9 DEF StoreInv, Live
  <1> QED
      BY <1>5, <1>6 DEF Fill

\* A write of another's, with whatever becomes of its invalidation.
LEMMA StoreWritten ==
  ASSUME StoreInv, NEW tm \in Teams, WroteFor(tm, tasks'),
         InvalidateTeam(tm) \/ FillUnseen(tm) \/ FillLate(tm) \/ LoseInvalidation(tm)
  PROVE  StoreInv'
  <1>1. /\ tasks' \in Seq(Row) /\ Len(tasks') <= MaxTasks
        /\ tasks \in Seq(Row) /\ Len(tasks) <= MaxTasks
        BY DEF WroteFor, StoreInv
  <1>2. ASSUME NEW k \in Keys, k[3] # tm PROVE Select(FilterOf(k))' = Select(FilterOf(k))
    <2>1. FilterOf(k) \in ListFilter /\ FilterOf(k).team # tm
          BY <1>2, RequestOfKey DEF FilterOf
    <2> QED
        BY <1>1, <2>1, OthersKept
  <1>3. ASSUME NEW k \in Keys, slices[k] # Absent
        PROVE  /\ \A t \in Teams : k \in registered[t] <=> k[3] = t /\ k \notin orphans
               /\ Sound(k, slices[k])
               /\ k \notin behind => slices[k] = Select(FilterOf(k))
        BY <1>3 DEF StoreInv, Live, SlicesArePages, Sound
  <1>4. \A t \in Teams : \A k \in registered[t] : k[3] = t
        BY DEF StoreInv, SetsAreOfTheTeam
  <1>5. /\ slices \in [Keys -> Page \cup {Absent}]
        /\ registered \in [Teams -> SUBSET Keys]
        /\ behind \subseteq Keys
        /\ orphans \subseteq Keys
        BY DEF StoreInv
  <1>6. SUFFICES /\ slices' \in [Keys -> Page \cup {Absent}]
                 /\ registered' \in [Teams -> SUBSET Keys]
                 /\ \A k \in Keys : slices'[k] # Absent =>
                      \A t \in Teams : k \in registered'[t] <=> k[3] = t /\ k \notin orphans'
                 /\ behind' \subseteq Keys
                 /\ orphans' \subseteq Keys
                 /\ \A t \in Teams : \A k \in registered'[t] : k[3] = t
                 /\ \A k \in Keys : slices'[k] # Absent =>
                      /\ k \notin behind' => slices'[k] = Select(FilterOf(k))'
                      /\ Sound(k, slices'[k])
        BY <1>1 DEF StoreInv, SetsAreOfTheTeam, SlicesArePages, Live, Sound
  <1>7. /\ Overlooked(tm) \subseteq Keys
        /\ \A k \in Keys : k[3] # tm /\ k \notin Overlooked(tm) => k \notin behind
        /\ \A k \in orphans \ registered[tm] : k[3] = tm => k \in Overlooked(tm)
        BY <1>4, <1>5 DEF Overlooked
  \* A slice that the invalidation leaves is of another team, or an orphan.
  <1>8. ASSUME NEW k \in Keys, slices[k] # Absent, k \notin registered[tm]
        PROVE  /\ \A t \in Teams : t # tm => (k \in registered[t] <=> k[3] = t /\ k \notin orphans)
               /\ k[3] = tm => k \in orphans
               /\ k \notin Overlooked(tm) => slices[k] = Select(FilterOf(k))'
               /\ Sound(k, slices[k])
    <2>1. \A t \in Teams : k \in registered[t] <=> k[3] = t /\ k \notin orphans
          BY <1>3, <1>8
    <2>2. k[3] = tm => k \in orphans
          BY <1>8, <2>1
    <2>3. k \notin Overlooked(tm) => k[3] # tm /\ k \notin behind
          BY <1>7, <1>8, <2>2
    <2>4. k \notin Overlooked(tm) => slices[k] = Select(FilterOf(k))'
          BY <1>2, <1>3, <1>8, <2>3
    <2> QED
        BY <1>3, <1>8, <2>1, <2>2, <2>4
  <1>9. CASE InvalidateTeam(tm)
    <2>1. /\ slices' = [k \in Keys |-> IF k \in registered[tm] THEN Absent ELSE slices[k]]
          /\ registered' = [registered EXCEPT ![tm] = {}]
          /\ behind' = Overlooked(tm)
          /\ orphans' = orphans
          BY <1>9 DEF InvalidateTeam
    <2>2. slices' \in [Keys -> Page \cup {Absent}]
          BY <1>5, <2>1
    <2>3. \A t \in Teams : registered'[t] = IF t = tm THEN {} ELSE registered[t]
          BY <1>5, <2>1
    <2>4. registered' \in [Teams -> SUBSET Keys]
          BY <1>5, <2>1
    <2>5. \A t \in Teams : \A k \in registered'[t] : k[3] = t
          BY <1>4, <2>3
    <2>6. ASSUME NEW k \in Keys, slices'[k] # Absent
          PROVE  /\ \A t \in Teams : k \in registered'[t] <=> k[3] = t /\ k \notin orphans'
                 /\ k \notin behind' => slices'[k] = Select(FilterOf(k))'
                 /\ Sound(k, slices'[k])
      <3>1. k \notin registered[tm] /\ slices'[k] = slices[k] /\ slices[k] # Absent
            BY <2>1, <2>6
      <3>2. \A t \in Teams : k \in registered'[t] <=> k[3] = t /\ k \notin orphans'
            BY <1>8, <2>1, <2>3, <3>1
      <3> QED
          BY <1>8, <2>1, <3>1, <3>2
    <2> QED
        BY <1>5, <1>7, <2>1, <2>2, <2>4, <2>5, <2>6
  <1>10. CASE LoseInvalidation(tm)
    <2>1. /\ behind' = behind \cup {k \in Keys : slices[k] # Absent /\ k[3] = tm}
          /\ slices' = slices /\ registered' = registered /\ orphans' = orphans
          BY <1>10 DEF LoseInvalidation, Live
    <2>2. ASSUME NEW k \in Keys, slices'[k] # Absent, k \notin behind'
          PROVE  slices'[k] = Select(FilterOf(k))'
      <3>1. k[3] # tm /\ k \notin behind /\ slices[k] # Absent
            BY <2>1, <2>2
      <3> QED
          BY <1>2, <1>3, <2>1, <3>1
    <2> QED
        BY <1>3, <1>4, <1>5, <2>1, <2>2
  \* A request that fills a slice of the team, with the old page or the new.
  <1>11. ASSUME NEW q \in Queries, Allowed(q), q.team = tm
         PROVE  /\ TasksKey(Filter(q)) \in Keys
                /\ TasksKey(Filter(q))[3] = tm
                /\ TeamIDFromKey(TasksKey(Filter(q))) = tm
                /\ FilterOf(TasksKey(Filter(q))) = Filter(q)
                /\ Select(Filter(q)) \in Page /\ Sound(TasksKey(Filter(q)), Select(Filter(q)))
                /\ Select(Filter(q))' \in Page /\ Sound(TasksKey(Filter(q)), Select(Filter(q))')
    <2> DEFINE key == TasksKey(Filter(q))
    <2>1. ~Rejected(q)
          BY <1>11 DEF Allowed
    <2>2. Filter(q) \in ListFilter /\ Filter(q).team = tm
          BY <1>11, <2>1, FilterTyped
    <2>3. /\ key \in Keys /\ FilterOf(key) = Filter(q)
          /\ key[3] = tm /\ TeamIDFromKey(key) = tm
          BY <2>1, <2>2, KeyOfRequest, KeyTellsFilter
    <2> HIDE DEF key
    <2>4. Select(FilterOf(key)) \in Page /\ Sound(key, Select(FilterOf(key)))
          BY <1>1, <2>3, SelectSound
    <2>5. Select(FilterOf(key))' \in Page /\ Sound(key, Select(FilterOf(key))')
          BY <1>1, <2>3, SelectSoundNext
    <2>6. Select(FilterOf(key))' = Select(Filter(q))'
          BY <2>3
    <2> QED
        BY <2>3, <2>4, <2>5, <2>6 DEF key
  <1>12. CASE FillUnseen(tm)
    <2>1. PICK q \in Queries, fresh \in BOOLEAN :
            LET key == TasksKey(Filter(q))
                new == IF fresh THEN Select(Filter(q))' ELSE Select(Filter(q))
            IN  /\ Allowed(q) /\ q.team = tm
                /\ slices' = [j \in Keys |-> IF j = key THEN new
                                             ELSE IF j \in registered[tm] THEN Absent ELSE slices[j]]
                /\ registered' = [registered EXCEPT ![tm] = {}]
                /\ behind' = IF fresh THEN Overlooked(tm) \ {key} ELSE Overlooked(tm) \cup {key}
                /\ orphans' = orphans \cup {key}
          BY <1>12 DEF FillUnseen
    <2> DEFINE key  == TasksKey(Filter(q))
               page == IF fresh THEN Select(Filter(q))' ELSE Select(Filter(q))
    <2>2. /\ key \in Keys /\ key[3] = tm
          /\ page \in Page /\ Sound(key, page)
          /\ fresh => page = Select(FilterOf(key))'
          BY <1>11, <2>1
    <2> HIDE DEF key, page
    <2>3. /\ slices' = [j \in Keys |-> IF j = key THEN page
                                       ELSE IF j \in registered[tm] THEN Absent ELSE slices[j]]
          /\ registered' = [registered EXCEPT ![tm] = {}]
          /\ behind' = IF fresh THEN Overlooked(tm) \ {key} ELSE Overlooked(tm) \cup {key}
          /\ orphans' = orphans \cup {key}
          BY <2>1 DEF key, page
    <2>4. slices' \in [Keys -> Page \cup {Absent}]
          BY <1>5, <2>2, <2>3
    <2>5. \A t \in Teams : registered'[t] = IF t = tm THEN {} ELSE registered[t]
          BY <1>5, <2>3
    <2>6. registered' \in [Teams -> SUBSET Keys]
          BY <1>5, <2>3
    <2>7. \A t \in Teams : \A k \in registered'[t] : k[3] = t
          BY <1>4, <2>5
    <2>8. ASSUME NEW k \in Keys, slices'[k] # Absent
          PROVE  /\ \A t \in Teams : k \in registered'[t] <=> k[3] = t /\ k \notin orphans'
                 /\ k \notin behind' => slices'[k] = Select(FilterOf(k))'
                 /\ Sound(k, slices'[k])
      <3>1. CASE k = key
        <4>1. slices'[k] = page /\ k \in orphans'
              BY <2>3, <3>1
        <4>2. k \notin behind' => fresh
              BY <2>3, <3>1
        <4>3. \A t \in Teams : k \notin registered'[t]
              BY <2>2, <2>5, <2>7, <3>1
        <4> QED
            BY <2>2, <3>1, <4>1, <4>2, <4>3
      <3>2. CASE k # key
        <4>1. k \notin registered[tm] /\ slices'[k] = slices[k] /\ slices[k] # Absent
              BY <2>3, <2>8, <3>2
        <4>2. \A t \in Teams : k \in registered'[t] <=> k[3] = t /\ k \notin orphans'
              BY <1>8, <2>3, <2>5, <3>2, <4>1
        <4>3. k \notin behind' => k \notin Overlooked(tm)
              BY <2>3, <3>2
        <4> QED
            BY <1>8, <4>1, <4>2, <4>3
      <3> QED
          BY <3>1, <3>2
    <2>9. orphans' \subseteq Keys
          BY <1>5, <2>2, <2>3
    <2>10. behind' \subseteq Keys
           BY <1>7, <2>2, <2>3
    <2> QED
        BY <2>4, <2>6, <2>7, <2>8, <2>9, <2>10
  <1>13. CASE FillLate(tm)
    <2>1. PICK q \in Queries :
            LET key == TasksKey(Filter(q))
            IN  /\ Allowed(q) /\ q.team = tm
                /\ slices' = [j \in Keys |-> IF j = key THEN Select(Filter(q))
                                             ELSE IF j \in registered[tm] THEN Absent ELSE slices[j]]
                /\ registered' = Register([registered EXCEPT ![tm] = {}], key)
                /\ behind' = Overlooked(tm) \cup {key}
                /\ orphans' = orphans \ {key}
          BY <1>13 DEF FillLate
    <2> DEFINE key  == TasksKey(Filter(q))
               page == Select(Filter(q))
    <2>2. /\ key \in Keys /\ key[3] = tm /\ TeamIDFromKey(key) = tm
          /\ page \in Page /\ Sound(key, page)
          BY <1>11, <2>1
    <2> HIDE DEF key, page
    <2>3. /\ slices' = [j \in Keys |-> IF j = key THEN page
                                       ELSE IF j \in registered[tm] THEN Absent ELSE slices[j]]
          /\ registered' = Register([registered EXCEPT ![tm] = {}], key)
          /\ behind' = Overlooked(tm) \cup {key}
          /\ orphans' = orphans \ {key}
          BY <2>1 DEF key, page
    <2>4. slices' \in [Keys -> Page \cup {Absent}]
          BY <1>5, <2>2, <2>3
    <2>5. \A t \in Teams : registered'[t] = IF t = tm THEN {key} ELSE registered[t]
          BY <1>5, <2>2, <2>3 DEF Register
    <2>6. registered' \in [Teams -> SUBSET Keys]
      <3>1. registered' = [t \in Teams |-> registered'[t]]
            BY <2>3 DEF Register
      <3> QED
          BY <1>5, <2>2, <2>5, <3>1
    <2>7. \A t \in Teams : \A k \in registered'[t] : k[3] = t
          BY <1>4, <2>2, <2>5
    <2>8. ASSUME NEW k \in Keys, slices'[k] # Absent
          PROVE  /\ \A t \in Teams : k \in registered'[t] <=> k[3] = t /\ k \notin orphans'
                 /\ k \notin behind' => slices'[k] = Select(FilterOf(k))'
                 /\ Sound(k, slices'[k])
      <3>1. CASE k = key
        <4>1. slices'[k] = page /\ k \in behind' /\ k \notin orphans'
              BY <2>3, <3>1
        <4>2. \A t \in Teams : k \in registered'[t] <=> k[3] = t
              BY <2>2, <2>5, <2>7, <3>1
        <4> QED
            BY <2>2, <3>1, <4>1, <4>2
      <3>2. CASE k # key
        <4>1. k \notin registered[tm] /\ slices'[k] = slices[k] /\ slices[k] # Absent
              BY <2>3, <2>8, <3>2
        <4>2. ASSUME NEW t \in Teams PROVE k \in registered'[t] <=> k[3] = t /\ k \notin orphans'
          <5>1. k \in orphans' <=> k \in orphans
                BY <2>3, <3>2
          <5>2. k \in registered'[t] <=> t # tm /\ k \in registered[t]
                BY <2>5, <3>2
          <5>3. /\ t # tm => (k \in registered[t] <=> k[3] = t /\ k \notin orphans)
                /\ k[3] = tm => k \in orphans
                BY <1>8, <4>1
          <5> QED
              BY <5>1, <5>2, <5>3
        <4>3. k \notin behind' => k \notin Overlooked(tm)
              BY <2>3
        <4> QED
            BY <1>8, <4>1, <4>2, <4>3
      <3> QED
          BY <3>1, <3>2
    <2>9. orphans' \subseteq Keys
          BY <1>5, <2>3
    <2>10. behind' \subseteq Keys
           BY <1>7, <2>2, <2>3
    <2> QED
        BY <2>4, <2>6, <2>7, <2>8, <2>9, <2>10
  <1> QED
      BY <1>9, <1>10, <1>12, <1>13

\* What a paging client asks, as it goes on.
Paging == {[w EXCEPT !.offset = o] : w \in Walks, o \in 0..MaxTasks}

WalkInv == walk \in Walk \cup {NoWalk} /\ DueIsAhead

LEMMA PagingQueries ==
  ASSUME NEW q \in Paging
  PROVE  /\ q \in Queries /\ q.offset \in 0..MaxTasks
         /\ \A o \in 0..MaxTasks : [q EXCEPT !.offset = o] \in Paging
  <1>1. PICK w \in Walks, o \in 0..MaxTasks : q = [w EXCEPT !.offset = o]
        BY DEF Paging
  <1>2. w \in Query
        BY PagesAssumption
  <1>3. w = [user |-> w.user, team |-> w.team, status |-> w.status, assignee |-> w.assignee,
             limit |-> w.limit, offset |-> w.offset]
        BY <1>2 DEF Query
  <1>4. q \in Queries
        BY <1>1, PagesAssumption
  <1>5. q.offset = o
        BY <1>1, <1>3
  <1>6. ASSUME NEW p \in 0..MaxTasks PROVE [q EXCEPT !.offset = p] = [w EXCEPT !.offset = p]
        BY <1>1, <1>3
  <1>7. \A p \in 0..MaxTasks : [w EXCEPT !.offset = p] \in Paging
        BY DEF Paging
  <1> QED
      BY <1>4, <1>5, <1>6, <1>7

\* The next page is of the same list.
LEMMA SameList ==
  ASSUME NEW q \in Paging, Allowed(q), NEW o \in 0..MaxTasks
  PROVE  LET next == [q EXCEPT !.offset = o]
         IN  /\ next.offset = o
             /\ Allowed(next)
             /\ Matching(Filter(next)) = Matching(Filter(q))
             /\ \A i : Ahead(Filter(next), i) = Ahead(Filter(q), i)
  <1> DEFINE next == [q EXCEPT !.offset = o]
  <1>1. q \in Queries /\ next \in Queries /\ q \in Query
        BY PagingQueries, PagesAssumption
  <1>2. q = [user |-> q.user, team |-> q.team, status |-> q.status, assignee |-> q.assignee,
             limit |-> q.limit, offset |-> q.offset]
        BY <1>1 DEF Query
  <1>3. next = [user |-> q.user, team |-> q.team, status |-> q.status, assignee |-> q.assignee,
                limit |-> q.limit, offset |-> o]
        BY <1>2
  <1>4. /\ next.user = q.user /\ next.team = q.team /\ next.status = q.status
        /\ next.assignee = q.assignee /\ next.offset = o
        BY <1>3
  <1> HIDE DEF next
  <1>5. Allowed(next) /\ ~Rejected(q) /\ ~Rejected(next)
        BY <1>4 DEF Allowed, Rejected
  <1>6. /\ Filter(next).team = Filter(q).team
        /\ Filter(next).status = Filter(q).status
        /\ Filter(next).assignee = Filter(q).assignee
        BY <1>1, <1>4, <1>5, FilterTyped
  <1>7. Matching(Filter(next)) = Matching(Filter(q))
        BY <1>6 DEF Matching, Matches
  <1>8. \A i : Ahead(Filter(next), i) = Ahead(Filter(q), i)
        BY <1>7 DEF Ahead
  <1> QED
      BY <1>4, <1>5, <1>7, <1>8 DEF next

\* A walk as a record.
LEMMA WalkShape ==
  ASSUME walk \in Walk \cup {NoWalk}, walk # NoWalk
  PROVE  /\ walk = [query |-> walk.query, over |-> walk.over, due |-> walk.due]
         /\ walk.query \in Paging /\ walk.over \in BOOLEAN /\ walk.due \in SUBSET (1..MaxTasks)
  BY DEF Walk, Paging

\* A page takes from what is due no more than it has, nor passes any of it by.
LEMMA WalkReceives ==
  ASSUME WalkInv, walk # NoWalk, tasks \in Seq(Row), UNCHANGED tasks,
         NEW page \in Page, NEW old \in BOOLEAN, Allowed(walk.query),
         Sound(TasksKey(Filter(walk.query)), page),
         ~old => page = Select(Filter(walk.query)),
         Receive(page, old)
  PROVE  WalkInv'
  <1> DEFINE due == IF old THEN {} ELSE walk.due \ {page[n].id : n \in 1..Len(page)}
  <1>1. PICK q \in Paging : q = walk.query
        BY WalkShape DEF WalkInv
  <1>2. q \in Queries /\ q.offset \in 0..MaxTasks /\ ~Rejected(q)
        BY <1>1, PagingQueries DEF Allowed
  <1>3. Filter(q) \in ListFilter /\ Filter(q).offset = q.offset
        BY <1>2, FilterTyped, PagesAssumption DEF First
  <1> DEFINE o    == q.offset + Len(page)
             next == [q EXCEPT !.offset = o]
  <1>4. Len(page) \in Nat /\ (page = <<>> <=> Len(page) = 0)
        BY DEF Page
  <1>5. o \in 0..MaxTasks
    <2>1. TasksKey(Filter(q))[7] = q.offset
          BY <1>3, KeyTellsFilter
    <2>2. Len(page) > 0 => q.offset + Len(page) <= MaxTasks
          BY <1>1, <2>1 DEF Sound
    <2> QED
        BY <1>2, <1>4, <2>2, PagesAssumption
  <1>6. /\ next \in Paging /\ next.offset = o
        /\ Allowed(next)
        /\ Matching(Filter(next)) = Matching(Filter(q))
        /\ \A i : Ahead(Filter(next), i) = Ahead(Filter(q), i)
        BY <1>1, <1>5, PagingQueries, SameList
  <1>7. walk' = [query |-> next, over |-> (page = <<>>), due |-> due]
    <2>1. /\ walk = [query |-> walk.query, over |-> walk.over, due |-> walk.due]
          BY WalkShape DEF WalkInv
    <2> QED
        BY <1>1, <2>1 DEF Receive
  <1> HIDE DEF next
  <1>8. ASSUME NEW i \in due
        PROVE  /\ ~old /\ i \in walk.due
               /\ i \in Matching(Filter(q))
               /\ Cardinality(Ahead(Filter(q), i)) >= o
               /\ page # <<>>
    <2> DEFINE f     == Filter(q)
               place == Cardinality(Ahead(f, i))
    <2>1. ~old /\ i \in walk.due /\ \A n \in 1..Len(page) : page[n].id # i
          BY <1>8
    <2>2. i \in Matching(f) /\ place >= q.offset
          BY <1>1, <2>1 DEF WalkInv, DueIsAhead
    <2>3. page = Select(f)
          BY <1>1, <2>1
    <2>4. place \in Nat
          BY <2>2, NewestFirstOrders
    <2> HIDE DEF f
    <2>5. /\ place \in f.offset..(f.offset + Len(page) - 1) => \E n \in 1..Len(page) : page[n].id = i
          /\ place >= f.offset + Len(page) => Len(page) = f.limit
          BY <1>3, <2>2, <2>3, Selected DEF f
    <2>6. f.offset = q.offset /\ f.limit \in 1..MaxLimit
          BY <1>3 DEF f, ListFilter
    <2> HIDE DEF place
    <2>7. place >= o
          BY <1>2, <1>4, <2>1, <2>2, <2>4, <2>5, <2>6
    <2>8. Len(page) = f.limit
          BY <2>5, <2>6, <2>7
    <2>9. page # <<>>
          BY <1>4, <2>6, <2>8
    <2> QED
        BY <2>1, <2>2, <2>7, <2>9 DEF place, f
  <1>9. due \in SUBSET (1..MaxTasks)
        BY <1>8, WalkShape DEF WalkInv
  <1>10. walk' \in Walk
    <2> HIDE DEF due
    <2>1. (page = <<>>) \in BOOLEAN
          OBVIOUS
    <2> QED
        BY <1>6, <1>7, <1>9, <2>1 DEF Walk, Paging
  <1>11. walk'.query = next /\ walk'.due = due /\ (walk'.over => page = <<>>)
    <2> HIDE DEF due
    <2> QED
        BY <1>7
  <1>12. \A f, i : Matching(f)' = Matching(f) /\ Ahead(f, i)' = Ahead(f, i)
         BY DEF Matching, Matches, Ids, Ahead
  <1> HIDE DEF due
  <1>13. DueIsAhead'
    <2>1. walk'.over => walk'.due = {}
          BY <1>8, <1>11
    <2>2. \A i \in walk'.due : /\ i \in Matching(Filter(next))
                               /\ Cardinality(Ahead(Filter(next), i)) >= next.offset
          BY <1>6, <1>8, <1>11
    <2>3. Matching(Filter(walk.query))' = Matching(Filter(next))
          BY <1>11, <1>12
    <2>4. \A i : Ahead(Filter(walk.query), i)' = Ahead(Filter(next), i)
          BY <1>11, <1>12
    <2>5. Allowed(walk.query)'
          BY <1>6, <1>11
    <2> QED
        BY <1>11, <2>1, <2>2, <2>3, <2>4, <2>5 DEF DueIsAhead
  <1> QED
      BY <1>10, <1>13 DEF WalkInv

\* A write after which no task is off the list leaves what is due beyond the
\* client's place; after any other, nothing is due.
LEMMA WalkWritten ==
  ASSUME WalkInv, tasks \in Seq(Row), NEW tm, WroteFor(tm, tasks'),
         IF walk # NoWalk /\ MovesUp(Filter(walk.query), tasks')
         THEN walk' = [walk EXCEPT !.due = {}] ELSE UNCHANGED walk
  PROVE  WalkInv'
  <1>1. CASE walk # NoWalk /\ MovesUp(Filter(walk.query), tasks')
    <2>1. /\ walk = [query |-> walk.query, over |-> walk.over, due |-> walk.due]
          /\ walk.query \in Paging /\ walk.over \in BOOLEAN
          BY <1>1, WalkShape DEF WalkInv
    <2>2. walk' = [query |-> walk.query, over |-> walk.over, due |-> {}]
          BY <1>1, <2>1
    <2>3. walk' \in Walk
          BY <2>1, <2>2 DEF Walk, Paging
    <2>4. walk'.query = walk.query /\ walk'.due = {}
          BY <2>2
    <2>5. Allowed(walk.query)
          BY <1>1 DEF WalkInv, DueIsAhead
    <2> QED
        BY <2>3, <2>4, <2>5 DEF WalkInv, DueIsAhead, Allowed, Rejected
  <1>2. CASE walk # NoWalk /\ ~MovesUp(Filter(walk.query), tasks')
    <2>1. walk' = walk
          BY <1>2
    <2>2. PICK q \in Paging : q = walk.query
          BY <1>2, WalkShape DEF WalkInv
    <2> DEFINE f == Filter(q)
    <2>3. \A i \in Matching(f) : Matches(tasks'[i], f)
          BY <1>2, <2>2 DEF MovesUp
    <2>4. Len(tasks) \in Nat /\ Len(tasks') \in Nat /\ Len(tasks) <= Len(tasks') /\ tasks' \in Seq(Row)
          BY DEF WroteFor
    <2> HIDE DEF f
    <2>5. Matching(f) \subseteq Matching(f)'
          BY <2>3, <2>4 DEF Matching, Matches, Ids
    <2>6. IsFiniteSet(Matching(f)') /\ IsFiniteSet(Matching(f))
      <3>1. \A n \in Nat : IsFiniteSet(1..n)
            BY FS_Interval
      <3>2. Matching(f)' \in SUBSET (1..Len(tasks')) /\ Matching(f) \in SUBSET (1..Len(tasks))
            BY DEF Matching, Matches, Ids
      <3>3. IsFiniteSet(1..Len(tasks')) /\ IsFiniteSet(1..Len(tasks))
            BY <2>4, <3>1
      <3> QED
          BY <3>2, <3>3, FS_Subset
    <2>7. ASSUME NEW i \in walk.due
          PROVE  i \in Matching(f)' /\ Cardinality(Ahead(f, i)') >= q.offset
      <3>1. i \in Matching(f) /\ Cardinality(Ahead(f, i)) >= q.offset
            BY <1>2, <2>2 DEF WalkInv, DueIsAhead, f
      <3> DEFINE A == Ahead(f, i)
                 B == Ahead(f, i)'
      <3>2. A \in SUBSET B /\ B \in SUBSET Matching(f)'
            BY <2>5 DEF Ahead
      <3>3. A \in SUBSET Matching(f)
            BY DEF Ahead
      <3> HIDE DEF A, B
      <3>4. IsFiniteSet(B) /\ IsFiniteSet(A)
            BY <2>6, <3>2, <3>3, FS_Subset
      <3>5. Cardinality(A) \in Nat /\ Cardinality(B) \in Nat /\ Cardinality(A) <= Cardinality(B)
            BY <3>2, <3>4, FS_Subset, FS_CardinalityType
      <3>6. q.offset \in Nat
            BY <2>2, PagingQueries, PagesAssumption
      <3>7. Cardinality(A) >= q.offset
            BY <3>1 DEF A
      <3>8. Cardinality(B) >= q.offset
            BY <3>5, <3>6, <3>7
      <3> QED
          BY <2>5, <3>1, <3>8 DEF B
    <2>8. /\ Matching(Filter(walk.query))' = Matching(f)'
          /\ \A i : Ahead(Filter(walk.query), i)' = Ahead(f, i)'
          BY <2>1, <2>2 DEF f
    <2>9. Allowed(walk.query) /\ (walk.over => walk.due = {})
          BY <1>2 DEF WalkInv, DueIsAhead
    <2>10. DueIsAhead'
           BY <2>1, <2>2, <2>7, <2>8, <2>9 DEF DueIsAhead
    <2> QED
        BY <2>1, <2>10 DEF WalkInv
  <1>3. CASE walk = NoWalk
    <2>1. walk' = NoWalk
          BY <1>3
    <2> QED
        BY <2>1 DEF WalkInv, DueIsAhead
  <1> QED
      BY <1>1, <1>2, <1>3

LEMMA InvParts ==
  PagesInv <=> StoreInv /\ WalkInv /\ edits \in 0..MaxEdits /\ slips \in 0..MaxSlips
  BY DEF PagesInv, PagesTypeOK, StoreInv, WalkInv

LEMMA PagesStart == PagesInit => PagesInv
  <1> SUFFICES ASSUME PagesInit PROVE PagesInv
      OBVIOUS
  <1>1. tasks = <<>> /\ tasks \in Seq(Row) /\ Len(tasks) <= MaxTasks
        BY PagesAssumption DEF PagesInit
  <1>2. \A k \in Keys : slices[k] = Absent
        BY DEF PagesInit
  <1>3. StoreInv
        BY <1>1, <1>2 DEF PagesInit, StoreInv, SetsAreOfTheTeam, SlicesArePages, Live
  <1>4. WalkInv
        BY DEF PagesInit, WalkInv, DueIsAhead
  <1>5. edits \in 0..MaxEdits /\ slips \in 0..MaxSlips
        BY PagesAssumption DEF PagesInit
  <1> QED
      BY <1>3, <1>4, <1>5, InvParts

LEMMA PagesStep == PagesInv /\ [PagesNext]_pagesVars => PagesInv'
  <1> SUFFICES ASSUME PagesInv, [PagesNext]_pagesVars PROVE PagesInv'
      OBVIOUS
  <1>1. StoreInv /\ WalkInv /\ edits \in 0..MaxEdits /\ slips \in 0..MaxSlips
        BY InvParts
  <1>2. tasks \in Seq(Row) /\ Len(tasks) <= MaxTasks
        BY <1>1 DEF StoreInv
  <1>3. SUFFICES StoreInv' /\ WalkInv' /\ edits' \in 0..MaxEdits /\ slips' \in 0..MaxSlips
    <2>1. PagesInv' <=> StoreInv' /\ WalkInv' /\ edits' \in 0..MaxEdits /\ slips' \in 0..MaxSlips
          BY DEF PagesInv, PagesTypeOK, StoreInv, WalkInv
    <2> QED
        BY <1>3, <2>1
  <1>4. ASSUME UNCHANGED <<tasks, walk>> PROVE WalkInv'
        BY <1>1, <1>4 DEF WalkInv, DueIsAhead, Allowed, Rejected, Matching, Matches, Ids, Ahead
  <1>5. ASSUME UNCHANGED <<tasks, redis>> PROVE StoreInv'
    <2>1. UNCHANGED <<tasks, slices, registered, behind, orphans>>
          BY <1>5 DEF redis
    <2>2. \A f : Select(f)' = Select(f)
          BY <2>1, SelectKept
    <2>3. SlicesArePages' /\ SetsAreOfTheTeam'
          BY <1>1, <2>1, <2>2 DEF StoreInv, SlicesArePages, SetsAreOfTheTeam, Live
    <2> QED
        BY <1>1, <2>1, <2>3 DEF StoreInv, Live
  <1>6. CASE \E q \in Queries : List(q)
    <2>1. PICK q \in Queries : List(q)
          BY <1>6
    <2>2. Fill(q, Select(Filter(q))) /\ UNCHANGED <<tasks, walk, edits, slips>>
          BY <2>1 DEF List
    <2> QED
        BY <1>1, <1>4, <2>2, StoreFilled
  <1>7. CASE \E q \in Walks : StartWalk(q)
    <2>1. PICK q \in Walks : StartWalk(q)
          BY <1>7
    <2> DEFINE f == Filter(q)
    <2>2. /\ Allowed(q) /\ walk' = [query |-> q, over |-> FALSE, due |-> Matching(f)]
          /\ UNCHANGED <<tasks, redis, edits, slips>>
          BY <2>1 DEF StartWalk
    <2>3. q \in Paging /\ q.offset = 0
      <3>1. q \in Query /\ q.offset = 0 /\ 0 \in 0..MaxTasks
            BY PagesAssumption
      <3>2. q = [q EXCEPT !.offset = 0]
            BY <3>1 DEF Query
      <3> QED
          BY <3>1, <3>2 DEF Paging
    <2> HIDE DEF f
    <2>4. Matching(f) \in SUBSET (1..MaxTasks)
          BY <1>2, PagesAssumption DEF Matching, Ids
    <2>5. walk' \in Walk
          BY <2>2, <2>3, <2>4 DEF Walk, Paging
    <2>6. walk'.query = q /\ walk'.over = FALSE /\ walk'.due = Matching(f)
          BY <2>2
    <2>7. \A i \in Matching(f) : Cardinality(Ahead(f, i)) >= 0
          BY <1>2, NewestFirstOrders
    <2>8. \A i : Matching(f)' = Matching(f) /\ Ahead(f, i)' = Ahead(f, i)
          BY <2>2 DEF Matching, Matches, Ids, Ahead
    <2>9. /\ Matching(Filter(walk.query))' = Matching(f)'
          /\ \A i : Ahead(Filter(walk.query), i)' = Ahead(f, i)'
          BY <2>6 DEF f
    <2>10. Allowed(walk.query)'
           BY <2>2, <2>6
    <2>11. DueIsAhead'
           BY <2>3, <2>6, <2>7, <2>8, <2>9, <2>10 DEF DueIsAhead
    <2> QED
        BY <1>1, <1>5, <2>2, <2>5, <2>11 DEF WalkInv
  <1>8. CASE NextPage
    <2> DEFINE key == TasksKey(Filter(walk.query))
    <2>1. /\ walk # NoWalk /\ UNCHANGED <<tasks, edits, slips>>
          /\ \/ Hit(walk.query, slices[key]) /\ Receive(slices[key], key \in behind)
             \/ Fill(walk.query, Select(Filter(walk.query))) /\ Receive(Select(Filter(walk.query)), FALSE)
          BY <1>8 DEF NextPage
    <2>2. PICK q \in Queries : q = walk.query
          BY <1>1, <2>1, WalkShape, PagingQueries DEF WalkInv
    <2>3. Allowed(walk.query) /\ ~Rejected(q)
          BY <1>1, <2>1, <2>2 DEF WalkInv, DueIsAhead, Allowed
    <2>4. Filter(q) \in ListFilter
          BY <2>3, FilterTyped
    <2>5. key \in Keys /\ FilterOf(key) = Filter(walk.query)
          BY <2>2, <2>3, <2>4, KeyOfRequest, KeyTellsFilter
    <2>6. CASE Hit(walk.query, slices[key]) /\ Receive(slices[key], key \in behind)
      <3>1. slices[key] # Absent /\ UNCHANGED redis
            BY <2>6 DEF Hit
      <3>2. slices[key] \in Page /\ Sound(key, slices[key])
            BY <1>1, <2>5, <3>1 DEF StoreInv, SlicesArePages, Live, Sound
      <3>3. key \notin behind => slices[key] = Select(Filter(walk.query))
            BY <1>1, <2>5, <3>1 DEF StoreInv, SlicesArePages, Live
      <3>4. WalkInv'
        <4> HIDE DEF key
        <4>1. CASE key \in behind
          <5>1. Receive(slices[key], TRUE)
                BY <2>6, <4>1 DEF Receive
          <5> QED
              BY <1>1, <1>2, <2>1, <2>3, <3>2, <5>1, WalkReceives DEF key
        <4>2. CASE key \notin behind
          <5>1. Receive(slices[key], FALSE)
                BY <2>6, <4>2 DEF Receive
          <5> QED
              BY <1>1, <1>2, <2>1, <2>3, <3>2, <3>3, <4>2, <5>1, WalkReceives DEF key
        <4> QED
            BY <4>1, <4>2
      <3> QED
          BY <1>1, <1>5, <2>1, <3>1, <3>4
    <2>7. CASE Fill(walk.query, Select(Filter(walk.query))) /\ Receive(Select(Filter(walk.query)), FALSE)
      <3>1. Fill(q, Select(Filter(q)))
            BY <2>2, <2>7
      <3>2. StoreInv'
            BY <1>1, <2>1, <3>1, StoreFilled
      <3>3. Select(Filter(walk.query)) \in Page /\ Sound(key, Select(Filter(walk.query)))
            BY <1>2, <2>5, SelectSound
      <3>4. WalkInv'
            BY <1>1, <1>2, <2>1, <2>3, <2>7, <3>3, WalkReceives
      <3> QED
          BY <1>1, <2>1, <3>2, <3>4
    <2> QED
        BY <2>1, <2>6, <2>7
  <1>9. ASSUME NEW tm \in Teams, NEW new, WroteFor(tm, new), Wrote(tm, new)
        PROVE  StoreInv' /\ WalkInv' /\ slips' \in 0..MaxSlips
    <2>1. /\ tasks' = new
          /\ \/ InvalidateTeam(tm) /\ slips' = slips
             \/ /\ slips < MaxSlips
                /\ slips' = slips + 1
                /\ FillUnseen(tm) \/ FillLate(tm) \/ LoseInvalidation(tm)
          /\ IF walk # NoWalk /\ MovesUp(Filter(walk.query), tasks')
             THEN walk' = [walk EXCEPT !.due = {}] ELSE UNCHANGED walk
          BY <1>9 DEF Wrote
    <2>2. WroteFor(tm, tasks')
          BY <1>9, <2>1
    <2>3. StoreInv'
          BY <1>1, <2>1, <2>2, StoreWritten
    <2>4. WalkInv'
          BY <1>1, <1>2, <2>1, <2>2, WalkWritten
    <2>5. slips' \in 0..MaxSlips
          BY <1>1, <2>1, PagesAssumption
    <2> QED
        BY <2>3, <2>4, <2>5
  <1>10. CASE \E b \in NewRows : CreateTask(b)
    <2>1. PICK b \in NewRows : CreateTask(b)
          BY <1>10
    <2> DEFINE new == Append(tasks, b)
    <2>2. b \in Row /\ b.team \in Teams
          BY PagesAssumption DEF Row
    <2>3. Len(tasks) < MaxTasks /\ Wrote(b.team, new) /\ UNCHANGED edits
          BY <2>1 DEF CreateTask
    <2>4. /\ new \in Seq(Row) /\ Len(new) = Len(tasks) + 1
          /\ new[Len(tasks) + 1] = b /\ \A i \in 1..Len(tasks) : new[i] = tasks[i]
          BY <1>2, <2>2
    <2> HIDE DEF new
    <2>5. WroteFor(b.team, new)
          BY <1>2, <2>3, <2>4, PagesAssumption DEF WroteFor, Ids
    <2> QED
        BY <1>1, <1>9, <2>2, <2>3, <2>5
  <1>11. CASE \E i \in Ids, s \in Statuses, a \in Assignees : Update(i, s, a)
    <2>1. PICK i \in Ids, s \in Statuses, a \in Assignees : Update(i, s, a)
          BY <1>11
    <2> DEFINE row == [tasks[i] EXCEPT !.status = s, !.assignee_id = a]
               new == [tasks EXCEPT ![i] = row]
               tm  == tasks[i].team
    <2>2. edits < MaxEdits /\ edits' = edits + 1 /\ Wrote(tm, new)
          BY <2>1 DEF Update
    <2>3. tasks[i] \in Row /\ tm \in Teams
      <3>1. tasks[i] \in Row
            BY <1>2, <2>1 DEF Ids
      <3> QED
          BY <3>1 DEF Row
    <2>4. row \in Row /\ row.team = tm
          BY <2>3 DEF Row
    <2> HIDE DEF row
    <2>5. /\ new \in Seq(Row) /\ Len(new) = Len(tasks)
          /\ new[i] = row /\ \A j \in Ids : j # i => new[j] = tasks[j]
          BY <1>2, <2>4 DEF Ids
    <2> HIDE DEF new
    <2>6. WroteFor(tm, new)
          BY <1>2, <2>4, <2>5 DEF WroteFor, Ids
    <2>7. edits' \in 0..MaxEdits
          BY <1>1, <2>2, PagesAssumption
    <2> HIDE DEF tm
    <2> QED
        BY <1>9, <2>2, <2>3, <2>6, <2>7
  <1>12. CASE UNCHANGED pagesVars
    <2>1. UNCHANGED <<tasks, redis>> /\ UNCHANGED <<tasks, walk>> /\ UNCHANGED <<edits, slips>>
          BY <1>12 DEF pagesVars, redis
    <2> QED
        BY <1>1, <1>4, <1>5, <2>1
  <1> QED
      BY <1>6, <1>7, <1>8, <1>10, <1>11, <1>12 DEF PagesNext

LEMMA PagesInductive == PagesSpec => []PagesInv
  <1> QED
      BY PagesStart, PagesStep, PTL DEF PagesSpec

\* Type correctness of the pages, and: whatever the queries, the writes and what
\* becomes of their invalidations, a live slice is in the set of its own team or
\* has lost its registration to an invalidation that had not seen it
\* (SetTasks, InvalidateTeam).
THEOREM PagesTypeCorrect == PagesSpec => []PagesTypeOK
  <1>1. PagesInv => PagesTypeOK
        BY DEF PagesInv
  <1> QED
      BY <1>1, PagesInductive, PTL

\* The answer to any request is the page of the table that it asks for, unless a
\* write has left an older one behind; which, too, has only tasks such as the
\* request asks for, and no more of them (TasksKey, normalizeFilter, List).
THEOREM AnswersFit == PagesSpec => []AnswersFitTheQuestion
  <1>1. ASSUME PagesInv PROVE AnswersFitTheQuestion
    <2> SUFFICES ASSUME NEW q \in Queries, Allowed(q)
                 PROVE  LET k    == TasksKey(Filter(q))
                            page == IF Live(k) THEN slices[k] ELSE Select(Filter(q))
                        IN  /\ k \notin behind => IsPage(q, page)
                            /\ Len(page) <= Size(q)
                            /\ \A n \in 1..Len(page) : Asked(q, page[n].row)
        BY DEF AnswersFitTheQuestion
    <2> DEFINE k    == TasksKey(Filter(q))
               page == IF Live(k) THEN slices[k] ELSE Select(Filter(q))
    <2>1. StoreInv /\ tasks \in Seq(Row) /\ Len(tasks) <= MaxTasks
          BY <1>1, InvParts DEF StoreInv
    <2>2. ~Rejected(q)
          BY DEF Allowed
    <2>3. Filter(q) \in ListFilter /\ Filter(q).limit = Size(q)
          BY <2>2, FilterTyped
    <2>4. k \in Keys /\ FilterOf(k) = Filter(q) /\ k[6] = Size(q)
          BY <2>2, <2>3, KeyOfRequest, KeyTellsFilter
    <2> HIDE DEF k
    <2>5. page \in Page /\ Sound(k, page) /\ (k \notin behind => page = Select(Filter(q)))
      <3>1. CASE Live(k)
            BY <2>1, <2>4, <3>1 DEF StoreInv, SlicesArePages, Sound, Live
      <3>2. CASE ~Live(k)
            BY <2>1, <2>4, <3>2, SelectSound
      <3> QED
          BY <3>1, <3>2
    <2> HIDE DEF page
    <2>6. k \notin behind => IsPage(q, page)
          BY <2>1, <2>2, <2>5, AnswerIsPage
    <2>7. \A n \in 1..Len(page) : page[n].row \in Row /\ Matches(page[n].row, Filter(q))
      <3> DEFINE Entry == [id : 1..MaxTasks, row : Row]
      <3>1. \A entry \in Entry : entry.row \in Row
            OBVIOUS
      <3>2. \A n \in 1..Len(page) : page[n].row \in Row
        <4> HIDE DEF Entry
        <4>1. page \in Seq(Entry)
              BY <2>5 DEF Page, Entry
        <4> QED
            BY <3>1, <4>1
      <3> QED
          BY <2>4, <2>5, <3>2 DEF Sound
    <2>8. \A n \in 1..Len(page) : Asked(q, page[n].row)
          BY <2>2, <2>7, MatchesIsAsked
    <2> QED
        BY <2>4, <2>5, <2>6, <2>8 DEF Sound, k, page
  <1> QED
      BY <1>1, PagesInductive, PTL

\* A client that pages through a list until a page is empty has seen every task
\* that was on the list all the while, however many were created in between.
THEOREM WalksMissNothing == PagesSpec => []WalkMissesNothing
  <1>1. PagesInv => WalkMissesNothing
        BY DEF PagesInv, DueIsAhead, WalkMissesNothing
  <1> QED
      BY <1>1, PagesInductive, PTL
=============================================================================
