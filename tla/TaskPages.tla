------------------------------ MODULE TaskPages ------------------------------
(***************************************************************************)
(* What GET /tasks answers: the query parameters that ListTasks parses, the *)
(* filter that List normalises, the cache key it builds of it, and the page *)
(* of the table that it selects or finds cached.                           *)
(*                                                                         *)
(* Here a request is one step, since how the calls of concurrent requests  *)
(* interleave is the subject of TaskListCache; what it lets happen, an     *)
(* invalidation that fails, a fill that comes too late for it and one that *)
(* falls between its two calls, is a choice of every write here.  In       *)
(* return slices have the tasks in them that it only counts versions for.  *)
(* A client that pages through a list sends many requests, with the writes *)
(* of others between.                                                      *)
(***************************************************************************)
EXTENDS TaskTable

CONSTANTS
  Callers,       \* users with a token
  Members,       \* table team_members, as pairs <<team, user>>; never shrinks
  Missing,       \* the query parameter is absent or empty
  Junk,          \* it is there and is no number, or no status
  All,           \* "all" in a cache key, a filter's nil pointer
  DefaultLimit,  \* 20
  MaxLimit,      \* 100
  Queries,       \* the parameters that clients send; bounds the model
  Walks,         \* the queries that the paging client starts from
  NewRows,        \* the [team, status, assignee_id] that Create is sent
  Absent,        \* no slice under this key
  NoWalk,        \* nobody pages
  MaxEdits,      \* bounds the updates
  MaxSlips       \* bounds the writes that leave a slice behind, or unregistered

Row == [team : Teams, status : Statuses, assignee_id : Assignees]

\* A parameter is what it should be, or it is missing or junk.
NotGiven == {Missing, Junk}

Query ==
  [user     : Callers,
   team     : Int \cup NotGiven,
   status   : Statuses \cup NotGiven,
   assignee : Users \cup NotGiven,
   limit    : Int \cup NotGiven,
   offset   : Int \cup NotGiven]

ASSUME PagesAssumption ==
  /\ Teams \subseteq Nat \ {0}
  /\ Members \subseteq Teams \X Callers
  /\ DefaultLimit \in 1..MaxLimit /\ MaxLimit \in Nat
  /\ Queries \subseteq Query
  /\ Walks \subseteq Queries
  /\ \A w \in Walks : w.offset = 0 /\ \A o \in 0..MaxTasks : [w EXCEPT !.offset = o] \in Queries
  /\ NewRows \subseteq Row
  /\ MaxTasks \in Nat /\ MaxEdits \in Nat /\ MaxSlips \in Nat

ASSUME QuerySentinelsAssumption ==
  /\ Missing \notin Int \cup Statuses \cup Users
  /\ Junk \notin Int \cup Statuses \cup Users
  /\ Missing # Junk
  /\ All \notin Statuses \cup Users

VARIABLES
  slices,      \* what Redis has under each key
  registered,  \* [Teams -> set of keys]
  walk,        \* what the paging client asks next, and the tasks it is still due
  edits,       \* auxiliary: the updates so far
  slips,       \* auxiliary: the writes so far that left a slice so
  behind,      \* auxiliary: the keys of the slices that are from before a write
  orphans      \* auxiliary: the keys of the slices that are in no set

redis == <<slices, registered, behind, orphans>>
pagesVars == <<tasks, slices, registered, walk, edits, slips, behind, orphans>>

-----------------------------------------------------------------------------
(* The request. *)

\* A parameter that is not a number is no error: it has the default.
AtoiDefault(s, def) == IF s \in NotGiven THEN def ELSE s

Rejected(q) ==
  \/ q.team \in NotGiven
  \/ q.team \notin NotGiven /\ q.team <= 0
  \/ q.status = Junk
  \/ q.assignee = Junk

Parsed(q) ==
  [team     |-> q.team,
   status   |-> IF q.status = Missing THEN All ELSE q.status,
   assignee |-> IF q.assignee = Missing THEN All ELSE q.assignee,
   limit    |-> AtoiDefault(q.limit, 0),
   offset   |-> AtoiDefault(q.offset, 0)]

\* normalizeFilter
Normalized(f) ==
  [f EXCEPT !.limit  = IF @ <= 0 THEN DefaultLimit ELSE IF @ > MaxLimit THEN MaxLimit ELSE @,
            !.offset = IF @ < 0 THEN 0 ELSE @]

Filter(q) == Normalized(Parsed(q))

\* Mutant: the key forgets the assignee.
TasksKeyWithoutAssignee(f) == <<"tasks", "team", f.team, f.status, All, f.limit, f.offset>>

\* The key's parts, which the code joins with colons: none of them has one.
TasksKey(f) == <<"tasks", "team", f.team, f.status, f.assignee, f.limit, f.offset>>

\* Mutant: the prefix is compared with a wrong one.
TeamIDFromKeyOfTasks(k) == IF k[1] = "tasks" /\ k[2] = "tasks" THEN k[3] ELSE 0

\* teamIDFromKey: what follows the prefix "tasks:team:" up to the next colon.
TeamIDFromKey(k) == IF k[1] = "tasks" /\ k[2] = "team" THEN k[3] ELSE 0

-----------------------------------------------------------------------------
(* TaskRepo.List *)

Matches(row, f) ==
  /\ row.team = f.team
  /\ f.status = All \/ row.status = f.status
  /\ f.assignee = All \/ row.assignee_id = f.assignee

Matching(f) == {i \in Ids : Matches(tasks[i], f)}

\* WHERE ... ORDER BY id DESC LIMIT ? OFFSET ?
Select(f) ==
  LET all  == OrderBy(Matching(f), {p \in Ids \X Ids : p[1] > p[2]})
      last == IF f.offset + f.limit > Len(all) THEN Len(all) ELSE f.offset + f.limit
  IN  [n \in 1..(IF last > f.offset THEN last - f.offset ELSE 0) |->
         [id |-> all[f.offset + n], row |-> tasks[all[f.offset + n]]]]

-----------------------------------------------------------------------------
(* TaskService.List over the cache. *)

Keys == {TasksKey(Filter(q)) : q \in {p \in Queries : ~Rejected(p)}}

Live(k) == slices[k] # Absent

\* ListTasks refuses, then requireMember.
Allowed(q) == ~Rejected(q) /\ <<q.team, q.user>> \in Members

\* A hit: what Redis has under the key is the answer, and nothing changes.
Hit(q, page) ==
  /\ Allowed(q)
  /\ slices[TasksKey(Filter(q))] = page
  /\ page # Absent
  /\ UNCHANGED redis

\* SADD to the set of the team that the key names.
Register(sets, k) ==
  [tm \in Teams |-> IF tm = TeamIDFromKey(k) THEN sets[tm] \cup {k} ELSE sets[tm]]

\* A miss, a slice that has expired or a GET that failed: the table answers.
\* SetTasks keeps the page, or fails, which is only logged.
Fill(q, page) ==
  LET k == TasksKey(Filter(q))
  IN  /\ Allowed(q)
      /\ page = Select(Filter(q))
      /\ \/ /\ slices' = [slices EXCEPT ![k] = page]
            /\ registered' = Register(registered, k)
            /\ behind' = behind \ {k}
            /\ orphans' = orphans \ {k}
         \/ UNCHANGED redis

PagesInit ==
  /\ tasks = <<>>
  /\ slices = [k \in Keys |-> Absent]
  /\ registered = [tm \in Teams |-> {}]
  /\ walk = NoWalk
  /\ edits = 0
  /\ slips = 0
  /\ behind = {}
  /\ orphans = {}

\* A request of anybody.
List(q) ==
  /\ \E page \in {Select(Filter(q))} : Fill(q, page)
  /\ UNCHANGED <<tasks, walk, edits, slips>>

-----------------------------------------------------------------------------
(* A client that wants all of a list.  It asks for page after page, each from *)
(* the number of tasks it has received, until one is empty.                  *)

StartWalk(q) ==
  /\ walk # NoWalk => walk.over
  /\ Allowed(q)
  /\ walk' = [query |-> q, over |-> FALSE, due |-> Matching(Filter(q))]
  /\ UNCHANGED <<tasks, redis, edits, slips>>

\* What an older page says of the list is no promise: nothing is due any more.
Receive(page, old) ==
  walk' = [walk EXCEPT !.query.offset = @ + Len(page),
                       !.over = page = <<>>,
                       !.due  = IF old THEN {} ELSE @ \ {page[n].id : n \in 1..Len(page)}]

NextPage ==
  LET q == walk.query
      k == TasksKey(Filter(q))
  IN  /\ walk # NoWalk
      /\ ~walk.over
      /\ \/ \E page \in {slices[k]} : Hit(q, page) /\ Receive(page, k \in behind)
         \/ \E page \in {Select(Filter(q))} : Fill(q, page) /\ Receive(page, FALSE)
      /\ UNCHANGED <<tasks, edits, slips>>

-----------------------------------------------------------------------------
(* The writes of others, each with the invalidation that ends it. *)

\* Mutant: SMEMBERS of the set, and DEL of the set alone.
InvalidateSetOnly(tm) ==
  /\ registered' = [registered EXCEPT ![tm] = {}]
  /\ UNCHANGED <<slices, behind, orphans>>

\* What is from before a write of tm once its invalidation is through: the
\* invalidation deletes what it finds in the team's set, and no orphan is there.
Overlooked(tm) == (behind \cup {k \in orphans : k[3] = tm}) \ registered[tm]

\* InvalidateTeam: SMEMBERS, and then DEL of these slices and of the set.  If
\* nothing is cached for the team between the two calls, they are one step.
InvalidateTeam(tm) ==
  /\ slices' = [k \in Keys |-> IF k \in registered[tm] THEN Absent ELSE slices[k]]
  /\ registered' = [registered EXCEPT ![tm] = {}]
  /\ behind' = Overlooked(tm)
  /\ UNCHANGED orphans

\* Between the two a List of another caches a slice that SMEMBERS has not told
\* of.  Its registration goes with the set, but the slice stays, and no later
\* invalidation finds it.  It may have been selected before the write, or after.
FillUnseen(tm) ==
  \E q \in {p \in Queries : Allowed(p) /\ p.team = tm}, fresh \in BOOLEAN :
    LET k    == TasksKey(Filter(q))
        page == IF fresh THEN Select(Filter(q))' ELSE Select(Filter(q))
    IN  /\ k \notin registered[tm]
        /\ slices' = [j \in Keys |-> IF j = k THEN page
                                     ELSE IF j \in registered[tm] THEN Absent ELSE slices[j]]
        /\ registered' = [registered EXCEPT ![tm] = {}]
        /\ behind' = IF fresh THEN Overlooked(tm) \ {k} ELSE Overlooked(tm) \cup {k}
        /\ orphans' = orphans \cup {k}

\* A List that selected before the write fills the cache after its invalidation.
FillLate(tm) ==
  \E q \in {p \in Queries : Allowed(p) /\ p.team = tm} :
    LET k    == TasksKey(Filter(q))
        left == [registered EXCEPT ![tm] = {}]
    IN  /\ slices' = [j \in Keys |-> IF j = k THEN Select(Filter(q))
                                     ELSE IF j \in registered[tm] THEN Absent ELSE slices[j]]
        /\ registered' = Register(left, k)
        /\ behind' = Overlooked(tm) \cup {k}
        /\ orphans' = orphans \ {k}

\* The invalidation fails, which is only logged.
LoseInvalidation(tm) ==
  /\ behind' = behind \cup {k \in Keys : Live(k) /\ k[3] = tm}
  /\ UNCHANGED <<slices, registered, orphans>>

\* A write after which a task is off the list moves the tasks behind it up, past
\* the place where the client goes on: nothing is due any more.
MovesUp(f, newTasks) == \E i \in Matching(f) : ~Matches(newTasks[i], f)

Wrote(tm, newTasks) ==
  /\ tasks' = newTasks
  /\ \/ InvalidateTeam(tm) /\ slips' = slips
     \/ /\ slips < MaxSlips
        /\ slips' = slips + 1
        /\ FillUnseen(tm) \/ FillLate(tm) \/ LoseInvalidation(tm)
  /\ IF walk # NoWalk /\ MovesUp(Filter(walk.query), newTasks)
     THEN walk' = [walk EXCEPT !.due = {}] ELSE UNCHANGED walk

CreateTask(b) ==
  /\ Len(tasks) < MaxTasks
  /\ Wrote(b.team, Append(tasks, b))
  /\ UNCHANGED edits

\* Update of a status or an assignee; one that changes nothing writes nothing.
Update(i, status, assignee) ==
  LET new == [tasks[i] EXCEPT !.status = status, !.assignee_id = assignee]
  IN  /\ edits < MaxEdits
      /\ edits' = edits + 1
      /\ new # tasks[i]
      /\ Wrote(tasks[i].team, [tasks EXCEPT ![i] = new])

PagesNext ==
  \/ \E q \in Queries : List(q)
  \/ \E q \in Walks : StartWalk(q)
  \/ NextPage
  \/ \E b \in NewRows : CreateTask(b)
  \/ \E i \in Ids, s \in Statuses, a \in Assignees : Update(i, s, a)

PagesSpec == PagesInit /\ [][PagesNext]_pagesVars

-----------------------------------------------------------------------------
(* Properties. *)

Page == Seq([id : 1..MaxTasks, row : Row])

Walk == [query : {[w EXCEPT !.offset = o] : w \in Walks, o \in 0..MaxTasks},
         over : BOOLEAN, due : SUBSET (1..MaxTasks)]

\* Types, and: a live slice is in the set of its own team, for the invalidation to
\* find, unless one has deleted its registration without having seen the slice;
\* and it is in the set of no other team (teamIDFromKey, SetTasks, InvalidateTeam).
PagesTypeOK ==
  /\ tasks \in Seq(Row) /\ Len(tasks) <= MaxTasks
  /\ slices \in [Keys -> Page \cup {Absent}]
  /\ registered \in [Teams -> SUBSET Keys]
  /\ \A k \in Keys : Live(k) => \A tm \in Teams : 
                           k \in registered[tm] <=> k[3] = tm /\ k \notin orphans
  /\ walk \in Walk \cup {NoWalk}
  /\ edits \in 0..MaxEdits /\ slips \in 0..MaxSlips
  /\ behind \subseteq Keys
  /\ orphans \subseteq Keys

\* What q asks for, one task at a time: the task is of the team, and of the
\* status and the assignee if q says so.
Asked(q, row) ==
  /\ row.team = q.team
  /\ q.status = Missing \/ row.status = q.status
  /\ q.assignee = Missing \/ row.assignee_id = q.assignee

\* How many tasks that q asks for are newer than task i.
Newer(q, i) == Cardinality({j \in Ids : j > i /\ Asked(q, tasks[j])})

First(q) == IF q.offset \in Nat THEN q.offset ELSE 0

Size(q) ==
  IF q.limit \in NotGiven \/ q.limit <= 0 THEN DefaultLimit
  ELSE IF q.limit <= MaxLimit THEN q.limit ELSE MaxLimit

\* The page holds the tasks asked for which have the right number of newer ones,
\* as the table has them, newest first.
IsPage(q, page) ==
  /\ {page[n].id : n \in 1..Len(page)} =
       {i \in Ids : Asked(q, tasks[i]) /\ Newer(q, i) \in First(q)..(First(q) + Size(q) - 1)}
  /\ \A n \in 1..Len(page) : page[n].row = tasks[page[n].id]
  /\ \A m, n \in 1..Len(page) : m < n => page[m].id > page[n].id

\* Whatever was cached, by whom and for which question: the answer to any
\* request is the page of the table that it asks for, unless a write has left an
\* older one behind; and that, too, has only tasks such as the request asks for,
\* and no more of them (TasksKey, normalizeFilter, TaskRepo.List).
AnswersFitTheQuestion ==
  \A q \in Queries : Allowed(q) =>
    LET k    == TasksKey(Filter(q))
        page == IF Live(k) THEN slices[k] ELSE Select(Filter(q))
    IN  /\ k \notin behind => IsPage(q, page)
        /\ Len(page) <= Size(q)
        /\ \A n \in 1..Len(page) : Asked(q, page[n].row)

\* A client that pages through a list until a page is empty has seen every task
\* that was on the list all the while, however many tasks were created and
\* whatever was cached in between; unless a task left the list, which moves the
\* others up, or a page was one that a write had left behind.
WalkMissesNothing ==
  walk # NoWalk /\ walk.over => walk.due = {}
=============================================================================
