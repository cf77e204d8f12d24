# Verification of the task service

TLA+ models, model checks and machine-checked proofs of the Go service in this
repository: accounts, teams, invitations, tasks with an audit trail, a Redis cache
of task lists and their paging, reports, a rate limiter, a circuit breaker around
the email service, and the start and stop of the process under its configuration.

Run a check with `tlc -config <Run>.cfg <MCModule>.tla` and a proof with
`tlapm <Module>Proofs.tla`, in this directory. `PROJECT.json` lists the runs, the
code lines each definition stands for, the hazards and the findings.

## The system

| component | code | state | operations |
|---|---|---|---|
| Task writes | `internal/service/task.go`, `internal/repository/task_repo.go` | tables `tasks`, `task_history` (and reads `team_members`); an open transaction's rows and row lock; the connection pool | `Create`, `Update`, `History` |
| Task list cache | `internal/cache/cache.go`, `TaskService.List`, `TaskService.invalidate` | Redis: a list for each filter ("slice") with a TTL, a set of keys for each team with a TTL | `GetTasks`, `SetTasks`, `InvalidateTeam` |
| Teams and invitations | `internal/service/team.go`, `internal/repository/team_repo.go` | tables `teams`, `team_members` | `Create`, `Invite`, `ListForUser` |
| Email | `internal/email/email.go` (and gobreaker) | breaker: state, counts, generation, expiry | `SendInvite` |
| Rate limiter | `internal/transport/http/middleware.go` | a map of token buckets under a mutex | `get`, `Allow` |
| Accounts and tokens | `internal/service/auth.go`, `jwt.go`, `internal/repository/user_repo.go` | table `users` | `Register`, `Login`, `Generate`, `Parse` |
| HTTP layer | `internal/transport/http` | none of its own | decoding, middleware chain, status mapping |
| List filters and pagination | `ListTasks`, `atoiDefault`, `normalizeFilter`, `TasksKey`, `teamIDFromKey`, `TaskRepo.List` | none of their own | a query becomes a filter, a key, a SELECT |
| Lifecycle | `cmd/api/main.go`, `internal/database/mysql.go` | schema version and dirty flag; the server's phase | start, migrate, serve, shut down |
| Configuration | `internal/config/config.go` | none (pure) | `Load`: file, then environment |
| Analytics | `internal/repository/analytics_repo.go` | none of its own | `TeamStats`, `TopCreators`, `IntegrityIssues` |
| Metrics | `internal/metrics/metrics.go` | counters nothing reads | |

How they interact. A request passes Auth and RateLimit and its handler calls one
service. A service makes a sequence of database calls; each takes a connection
from the pool, and only `UpdateWithHistory` and `CreateWithOwner` group statements
in a transaction. A committed task write then invalidates the team's slices in
Redis; `Invite` sends an email through the breaker after the membership is
written. All requests run concurrently, one goroutine each, and share MySQL,
Redis, the limiter map and the breaker.

What is hard:

- *Update reads before it writes.* `UpdateWithHistory` writes all four columns of
  the row that `GetByID` returned earlier, outside the transaction.
- *Authorization is a separate read*, several calls before the write.
- *The cache has no versions.* A fill can arrive after the invalidation that
  should have removed it; the registry that invalidation works from is read and
  deleted in two round trips; the invalidation may fail, and is only logged.
- *Answers get lost.* A COMMIT may take effect and still return an error. A
  client that retries meets what the first attempt left behind.
- *The process may die* between any two calls; MySQL and Redis live on.
- *Late results* reach a circuit breaker that has changed its state meanwhile.
- *Limits add up*: a bucket's burst and its refill, failures waited for and sends
  already on their way, and a full bucket for everybody after a restart.
- *Several things are "the same"*: two spellings of an address to the unique key, two
  passwords to bcrypt, two queries to the cache key.
- *A report believes the trail*, and joins multiply the rows it counts.
- *A client that pages* counts from the start of a list that others are changing.
- *A setting has a name in each place*: a tag, a variable, the text in the documents.

## Modules

| module | subject |
|---|---|
| `TaskWrites` | Create, Update and History over MySQL |
| `AuditedTasks` | what the write side promises; `TaskWrites` implements it |
| `TaskListCache` | List and the invalidation over Redis |
| `TeamService` | team creation and invitations |
| `TeamMembership` | what memberships promise; `TeamService` implements it |
| `RateLimit` | the limiter map and the token bucket |
| `EmailBreaker` | SendInvite through the circuit breaker |
| `Config` | `Load`: the file and the environment; `Lifecycle` extends it |
| `Lifecycle` | configuration, startup, migration, serving, shutdown, restart |
| `Accounts` | Register, Login, tokens, the way to a protected handler |
| `AccountBook` | what accounts promise; `Accounts` implements it |
| `TaskTable` | table tasks and ORDER BY, for the two modules below |
| `Analytics` | the three reports over what the other parts write |
| `TaskPages` | List's queries, keys and pages, with real lists in the cache |
| `MC*` | small instances for TLC |
| `*Proofs` | theorems, for every value of the constants; `TaskReadsProofs` has those of `Analytics` and `TaskPages` |

Definitions named "Mutant" are plausible bugs. Nothing uses them; put in the place
of the definition they vary, they make a property fail, which shows that the
property depends on that piece of code (`PROJECT.json`, "mutants").

### TaskWrites

A request is a program counter. Each value names the call it makes next, so each
action is one database call with the computation up to the next call; between
two of them any other request may act. `Load` is `GetByID`, `Authorize` is
`requireMember` with the validation and the diff that follow it, `Begin`,
`Write`, `Audit`, `Commit` are the statements of `UpdateWithHistory`, `Insert` is
`TaskRepo.Create`. `snap[r]` is the variable `current`; `Changed`, `Updated` and
`AuditRow` are the diff. Uncommitted work is kept apart: an open transaction has
`lock`, `todo` (audit rows still to insert) and `audit` (inserted ones), and only
`Commit` touches `rows` and `history`. The UPDATE waits for the row lock.

`Fail` lets any call fail, with the deferred rollback. After `Commit` or `Insert`
a request is at "acknowledge", and a failure there is a lost answer. `Crash`
loses all requests and open transactions.

`members` holds pairs of team and user, as only membership matters here; `Join`
stands for an invitation, whose details are `TeamService`'s. `raced` is
auxiliary: the tasks where an Update overwrote a row other than the one it read.

Properties:

- `TrailExplainsUnracedTasks`: replaying the audit trail over the columns a task
  was created with gives the columns it has, and every audit row starts from
  what the trail before it left, for every task that has not been raced.
- `UpdatesAreAtomic`: the audit rows a request has committed are all or none of
  its changes, whichever way it ended, and all if it was answered 200.
- `ImplementsAuditedTasks`: the tables only make the steps of `AuditedTasks`: members
  create and amend, an amendment does what its audit rows say, and a column it does
  not audit gets a value it held before. Two facts that this rests on are stated and
  proved by themselves: `AuthorsAreMembers` (the check made calls earlier still
  holds at the write) and `EveryValueAudited`.
- `EveryRequestEnds`, under fairness.

### TaskListCache

One team, since keys carry the team id. A slice is the number of writes that were
committed when its list was selected, so "stale" is `value # version`. Each Redis
call is one step: `Set` and `Del` are MULTI/EXEC pipelines, `SMembers` is a step
of its own. `excuse[k]` is auxiliary: why the slice of `k` may be out of date.

- `StaleIsExplained`: a stale slice is about to be deleted by a running write, or
  it was filled late, or its registration was deleted by an invalidation that had
  not seen it, or a committed write could not invalidate. There is no fifth cause.
  `RegistryOutlivesSlices`, that the set of keys never expires before a slice in it,
  is proved.
- `EventuallyFresh`: when the writes stop, staleness ends, however often the
  stale slice is read. `MaxWrites` is the assumption that they stop.

### TeamService

Same style: `InsertTeam`, `InsertOwner`, `Commit` are `CreateWithOwner`;
`GetMember`, `GetByEmail`, `AddMember`, `Send`/`SendFails` are `Invite`. `pc` ends at
the status of the answer. At "mail" the membership is written: a failure there is
the lost answer of its INSERT, a 500 although the member was added. `granter` is
auxiliary: the actor whose request wrote a membership.

- `AnswersHold`: a 204 or 202 names the role the invitee has, whoever else
  invites the same user.
- `MailedOnce`: at most one invitation is sent for a membership.
- `SilentMembersAreReported`: a member without an invitation mail is due to a
  request of the one who let the member in, for the role the member has, and that
  request is still to send the mail, was answered 202 or 500, or died. This is as
  much as the code gives: a repeated request gets 409 and the mail is never sent.
- `ImplementsTeamMembership`: memberships begin with their team or by a manager's
  invitation and never change. `OneOwner`, that a team has its creator as its one owner
  at all times, is proved.

### RateLimit

The bucket of x/time/rate refills when it is asked. A token is `MinuteTicks`
parts and a tick adds `PerMinute` parts, so the arithmetic is exact integers.
`Get` is the lookup under the mutex; `Admit` and `Refuse` are `Allow`. `Restart` is a
new process with an empty map. `since[u][s]` and `restarts[s]` are auxiliary: the requests
of `u` admitted, and the restarts, at tick `s` or later.

- `AdmissionBound`: over every stretch, admissions are at most the burst plus
  the stretch's refill (in one minute, twice the limit), plus a burst for each restart.
- `RefusalsAreEarned`: a refusal goes only to a user who has used up the budget
  of some stretch that ends now, so nobody pays for somebody else.

### EmailBreaker

gobreaker is outside the repository and is modelled by its published behaviour
(version 1.0.0, as configured in `NewService`): `Let`/`Refuse` are beforeRequest,
`Ignore`/`Succeed`/`FailCall` are afterRequest, each under its mutex, and `Send` runs
between them without it. A generation number is only ever compared with the
current one, so the model keeps `current`, the calls of the current generation.
`Requests` is only read in the half-open state and is counted there only.

- `OutageIsBounded`: fewer than threshold plus callers sends are let through
  between a success and the opening of the circuit.
- `OneProbe`: the half-open circuit listens to one call, which it let through.
- `ProbeDecides`: only that call's result changes the half-open state, never the
  late result of a call from before.
- `CircuitRecovers`: when the service works from some time on, and calls keep
  coming, the circuit closes for good.

### Lifecycle

`phase` is where `run()` is. A run is started in one of `Deployments`: an environment,
the hosts it reaches, and what its author means the variables to set. `LoadConfig` is
`config.Load`, in module `Config`: a name is the sequence of words between its
underscores, so what `applyEnvOverrides` looks up and what a document tells one to set
can be compared. `Connect` and `RefuseConnection` are `database.New`; `Up`, `CreateTable`,
`RefuseFile`, `Record` are `database.Migrate`, with golang-migrate's steps: mark dirty,
one Exec of the file, mark clean. MySQL commits each CREATE TABLE by itself, so a death
in between leaves some of the tables (`Interrupted`), and a DSN without
`multiStatements=true` makes it refuse the file. `Listen` and `ListenFails` are the
goroutine of `ListenAndServe`, `SelectError` and `SelectSignal` the select, `ShutDown` and
`TimeOut` the two returns of `Shutdown`, `CloseRedis` and `CloseMySQL` the deferred calls. A
request commits a write and then invalidates, and goes on under the deferred calls as a
goroutine does. `Crash` also stands for a signal before `NotifyContext`.

- `ServesOnlyMigrated`: requests run on the whole, clean schema only.
- `CleanStop`: a run that returns nil has answered all it accepted; none was cut off,
  refused, or committed without being able to invalidate.
- `RunsAsMeant`: past `Load`, every setting is what the deployment means, else the file's,
  else the zero of its type, and a value that does not parse never gets there. It holds
  of deployments that name their variables by the rule of the code.
- `SignalEnds`: a signal stops the process although requests hang.
- `RestartServes`: starting again makes it serve in the end where it can run, or the
  schema is dirty.

### Accounts

A request is a program counter, as in `TaskWrites`. An email is a raw text; `Normal` is
`ToLower(TrimSpace(...))`, `Key` what the column's collation compares, and the unique key and
`WHERE email = ?` both go by `Key`. A password is its length in bytes and what bcrypt
looks at (`Significant`, the first 72 bytes): `GenerateFromPassword` refuses 73 bytes but
`CompareHashAndPassword` does not look at the 73rd, so a continuation of a 72-byte
password logs in, and `Matches` says so. The minimum of 8 counts bytes, too, although the
message speaks of characters. The shape of an email is the set `Wellformed`. A name is
trimmed (`Trimmed`) and refused when nothing is left (`NoName`). Neither text is measured
before MySQL measures it: a row with one that is longer than its column is refused
(`Oversized`). `Expires` cuts the expiry down to a second, as the claim does. `Limit` is
any answer of the limiter, which `RateLimit` models; `Handle` any of a handler, a 500
without a failed call among them, as nobody measures a team's name or a task's title.

- `OneAccount`: one account for all spellings of an address, however registrations race.
- `AnswersAreTrue`, of Register and Login: a 201 can log in from then on, with the
  password and to the name that were given, a 409's address is taken, and a 500 is a
  failed call or one of three inputs that validation lets through: a password that
  bcrypt refuses, an email or a name longer than its column.
- `SessionsAreEarned`: whoever is counted or handled as a user has a token of a login with
  that user's password.
- `TokensExpireInTime`: a token lives for less than its TTL and more than a second less.
- `ImplementsAccountBook`: an address is taken once, for good, with one password.

### Analytics

The reports are operators over the tables: `Joined` is the three LEFT JOINs with their NULLs,
`TaskCount`, `Above` and `Ranked` the GROUP BY, ORDER BY and ROW_NUMBER, `IntegrityIssues` the NOT
EXISTS. A sorted result is the function from places to rows that have that row number
(`RowNumber`, `OrderBy` of `TaskTable`): SQL defines it so, and one can reason about it
without a sorting algorithm. What changes the tables is cut down to the columns the reports mention; Update
keeps its two steps, `Read` and `Write`. `moved` is auxiliary, each move of a status to
done; `raced` as in `TaskWrites`.

- `StatsCountMoves`: members are counted once and so are the tasks that were moved to done
  in the window, up to the raced ones. A reopened task still counts and one created as
  done never does: that is what the trail says. For raced tasks nothing can be said: a
  stale Update may put a status back to done, or away from it, without an audit row.
- `TopCreatorsAreTop`: nobody left out has created more than somebody listed.
  `RanksIgnoreEdits`, that only a new task or a new day changes the ranks, is proved.
- `IssuesHaveCauses`: a task is listed from the write that gave it to an outsider until it
  is given away or the outsider joins.

### TaskPages

A request is one step here, and the cache holds the lists themselves. How the calls of
requests interleave is the subject of `TaskListCache`; its outcomes for a write whose
invalidation does not end as it should are choices of every write here. `FillLate`: a
List that selected before the commit caches its page after the invalidation.
`LoseInvalidation`: the invalidation fails. `FillUnseen`: a List caches a slice between
SMEMBERS and DEL, and the slice stays while its registration goes with the set. That page
may be from before the commit or after it; if it is from after it, it is right, but no
later write will find it. `behind` has the slices that are from before a write, `orphans`
those that are in no set, and what a write leaves `behind` without a slip of its own are
orphans of its team (`Overlooked`). `PagesTypeOK` says that a live slice is in the set of its
own team, and in no other, unless it is an orphan.

`AtoiDefault`, `Rejected` and `Parsed` are `ListTasks`, `Normalized` is `normalizeFilter`, `Select` the
SELECT; a key is the tuple of its parts. `CreateTask` and `Update` are the writes of
others with what `Wrote` does to Redis. Its definitions that would share a name with one
of `Analytics` have a prefix (`PagesInit`, `PagesNext`, `PagesSpec`, `PagesTypeOK`), so
that one module can prove about both. `walk` is a client that pages through a list,
asking for each page from the number of tasks it has received, which is right whatever
limit it asked for, since the limit is capped without a word. `due` are the tasks it
must still see.

- `AnswersFitTheQuestion`: whatever is cached, a request gets the page that it asks for,
  stated by counting the newer tasks, unless a write left the slice behind; even then
  the tasks are of the kind it asked for.
- `WalkMissesNothing`: a client that pages to the end has seen every task that was on the
  list all the while, though tasks were created on top of it. The exceptions are the
  code's: a task that leaves the list moves the later ones up past the client's offset,
  and a page that was left behind promises nothing.

## Runs

| run | bounds | states | shows |
|---|---|---|---|
| `task_writes` | 3 requests, 1 task, 2 users, 9 inputs, pool of 2 | 239,000 | the two invariants, the refinement, `EveryRequestEnds` |
| `task_writes_lost_update` | the same | violation | the audit trail does not explain a raced task |
| `task_list_cache` | 1 reader, 2 writers, 2 keys, TTL 2, 2 writes, 1 failure | 80,000 | `StaleIsExplained`, `EventuallyFresh` |
| `task_list_cache_stale_fill` | 1 writer, 1 key, no failure | violation | a stale list outlives the invalidation |
| `rate_limit` | 2 users, 2 requests at a time, limit 2, 3 ticks a minute, 4 ticks, 1 restart | 4,245,000 | both properties, with the default limit |
| `team_service` | 4 requests, 1 team, 3 users, 9 inputs | 442,000 | the invariants and the refinement |
| `email_breaker` | 3 callers, threshold 2, timeout 2 | 15,000 | the invariants, `ProbeDecides`, `CircuitRecovers` |
| `lifecycle` | 3 requests, 3 tables, 3 faults, 5 deployments | 16,000 | the invariants, `SignalEnds`, `RestartServes` |
| `lifecycle_configured` | `docker-compose.yml`, no faults | violation | the service never serves |
| `accounts` | 3 requests, 5 emails, 5 names, 4 passwords, 2 ids, 3 ticks | 152,000 | the invariants, expiry, the refinement |
| `analytics` | 2 teams, 2 users, 2 tasks, 2 audit rows, 2 days, 2 workers | 112,000 | the three reports |
| `task_pages` | 3 tasks, pages of 2, 1 update, 1 slip | 229,000 | answers and paging |

Why the bounds are enough. A lost update needs a Create and two Updates of one
task; tasks do not share state but the pool, so one task and three requests have
every race of two Updates, and a pool of two makes requests wait for it. The cache
races need one reader and one writer each, and a second writer to overlap two
invalidations; two keys tell "this slice" from "the others"; one failure is one
more than the races need. A bucket that is full again after the limit of two was
used takes one minute, which is three ticks; four ticks have a minute that begins in a
used bucket, and one restart falls on any of them. Four requests are a
Create, the invitation of an admin, the admin's invitation and one to race with it.
Two callers make a late result possible, and the third a probe meanwhile. Three
tables and three faults let a migration be cut at each place, the next start fail,
and a third meet what is left; requests only share the clients. The deployments are one
that works, two that lack a host, one without variables and one with a good value and a bad one. Two
registrations race for an address and a login comes between; the emails have a pair
that trimming joins and one that only the collation joins, the passwords one too short,
two that fit and one too long that bcrypt cannot tell from a shorter, the names two
spellings of one, an empty, a blank and a too long one. Windows of today
only, and two days, have a move inside and outside of them; two tasks and two members
make the joins multiply; a list of one creator leaves one out. Three tasks in pages of two
make a page in the middle of the list and one shorter than its limit; one update lets a
task leave the list and one slip leaves a page behind or a slice in no set, which the next
write overlooks. The breaker runs with a threshold of 2 only; that a configured 0 counts as
3 and a negative number as one close to 2^32 is in the theorem `OutagesAreBounded`, which is
about every threshold. What is proved does not depend on
the bounds.

`CHECK_DEADLOCK FALSE` is set where requests are served once or writes are bounded:
when all have ended nothing more happens. The other models cycle.

### Fairness

Fairness is weak, for each goroutine by itself, and only for what it does once it
has been given a request: a Go goroutine that can run does run. Time passes
(`Tick`), which Redis and the breaker rely on. Nothing makes a client send, a call
fail or the process crash. InnoDB does not starve a waiter for a row lock and
database/sql serves waiters for a connection in order; weak fairness is enough,
since requests are finitely many and so a lock or a connection stays free at
last. `CircuitRecovers` has what it needs of the outside as its hypothesis.
In `Lifecycle` the goroutines of `run()` and `ListenAndServe` run on, the requests need not,
and somebody starts a process that is down (compose has no restart policy, so this is
the operator; `SignalEnds` does not need it).

## Findings

Three properties say what a comment or the README says, and the code does not keep:
a raced task's audit trail does not explain it (lost update); a stale list stays in
the cache after the invalidation, without any failure; and `make up` never brings a
serving api, because the code joins the levels of a variable's name with one
underscore where the documents and `docker-compose.yml` write two. `PROJECT.json` quotes
the lines. `TrailExplainsUnracedTasks`, `StaleIsExplained` and `RestartServes` are the
strongest statements we found that do hold in their place.

The models show more that no document denies, and the properties say it:

- a slice can lose its registration to an invalidation that had not seen it, and then no
  later write deletes it ("orphaned" in `StaleIsExplained`);
- "100 requests a minute" may be almost 200 in one minute, and more around a restart
  (`AdmissionBound`);
- with the DSN of `config.yaml`, which has no `multiStatements=true`, the migration is
  refused and leaves the schema dirty, and every later start fails (`RestartServes`;
  the integration tests add the option);
- the statistics miss or invent a move to done where an Update was lost
  (`StatsCountMoves`);
- a client that pages misses a task when another leaves the list (`WalkMissesNothing`);
- an overlong password, email or name is answered with a 500 (`AnswersAreTrue`), and so
  is an overlong name of a team or title of a task (`Handle` of `Accounts`).

## Proofs

Assumptions are the named ASSUMEs of each module: constants are of their type and
sentinels (`NoRow`, `Keep`, `Nobody`, ...) are not members of what they stand apart
from. TLC evaluates them on every run. No theorem bounds the number of requests,
users, tasks or teams. In each module the invariant `IInv` (`Inv`) is inductive and
the properties follow from it.

- `TaskWritesProofs`. The invariant adds to the types: the inserted audit rows and
  the ones still to insert are together exactly the changes (`AuditInv`); every value
  in `snap[r]` has been held by the task (`SnapInv`), which is what makes even a blind
  overwrite restore an audited value; a request past `Authorize` is a member's
  (`CheckInv`). Rows and trails only grow (`Evolves`), so what a request knows about
  its task stays true while others act (`Frame`). `UpdatesAtomic`: a request that is
  not past its commit owns no row of a trail, and a commit brings all of its rows
  (`AtomInv`). `UnracedTrailsExplain`: replaying a trail and then the rows that a commit
  appends is replaying both (`ReplayOfOld`, `ReplayOfPast`, `ReplayOfNew`); an Update that
  did not race has read the row it overwrites, so what it appends starts where the
  trail ended. `Refinement`: every step is one of `AuditedTasks` or a stutter. Proved
  and not run: `AuthorsMembership` (whoever stands in a trail was a member),
  `ValuesAudited` (races or not, no column holds a value without an audit row).
- `TaskListCacheProofs`. `TypeCorrect`, and `StaleSlicesExplained`, which needs besides: a
  live slice that is not registered, and that no deletion has been told of, has an
  excuse (`OrphansExcused`). Proved and not run: `RegistryLifetime`.
- `RateLimitProofs`. The balance of a stretch of time is what was admitted in it and
  what the bucket holds now; it never exceeds the stretch's budget, in which every
  restart counts for a burst, and for one stretch, that since the bucket was last
  full, it is equal. The first half gives `AdmissionBounded`, the second
  `RefusalsEarned`. Beside it: a user's limiter is nobody else's and is not replaced
  while the process lives.
- `TeamServiceProofs`. A team's id is in one request's hands until it commits
  (`TeamInv`); a role once given stays, so the inviter's is still that of a manager at
  the INSERT (`InviteInv`); the primary key leaves one request about to mail
  (`MailInv`); and the request that wrote a membership, of the actor in `granter`, which
  nothing overwrites (`GranterKept`), keeps the duty to mail or to report (`Reports`, for
  `SilenceIsReported`). `Refinement`: the tables make only the
  steps of `TeamMembership`. Proved and not run: `TeamsHaveOneOwner`.
- `EmailBreakerProofs`. A call the breaker listens to is on its way; the half-open
  circuit has none or one, let through half-open (`ProbeInv`); and every failure since
  the last success is counted or belongs to a call on its way (`StreakInv`), which is
  why callers in flight, and they only, add to the threshold in `OutagesAreBounded`.
- `LifecycleProofs`. The record of the schema is never ahead of the tables, and a run
  past `Up` found or made it clean (`SchemaInv`); up to the deferred calls the clients
  are open and no request has been cut short (`CleanInv`). `RunsAreAsMeant`: no two
  settings have one variable (`NamesDiffer`, by comparing the words of the names), so
  what overrides a setting is what the deployment wrote for it, and past `Load` all of
  it has parsed (`LoadedInv`). Its hypothesis is `NamedByTheRule`: a deployment names
  its variables as `applyEnvOverrides` does. All the deployments of `lifecycle` do; that of
  `lifecycle_configured` does not, and is a case of a theorem of its own, proved and not
  run, `DocumentedNamesNeverServe`: no name of the documents' form is one that the code
  looks up (`DocsNamesDiffer`), so the process looks for MySQL where the file says, and
  where it is not there it never serves. Proved and not run, too, are the safety halves
  of what `RestartServes` excepts: `DirtyIsForGood` (no start repairs a migration that
  failed or died inside its file) and `SingleStatementsNeverServe` (with a DSN without
  `multiStatements=true` no start gets past the migration).
- `AccountsProofs`. Rows are in normal form and one to a key (`TableInv`), and no step
  changes a row (`Stored`, `RowsStay`). So a registration finds what it inserted
  (`RegisterInv`), a login's row is still the one it compared with (`LoginInv`), and a
  request past `Auth` carries the user of its token's login (`CallInv`): `AnswersTrue`,
  `OneAccountEach`, `SessionsEarned`. `TokensExpire` is the arithmetic of cutting an
  instant down to whole seconds (`WholeSeconds`). `Refinement`: the table makes only the
  steps of `AccountBook`.
- `TaskReadsProofs`, on `Analytics`. The trail of a task that no two Updates raced on tells
  the moves of its status (`TrailInv`), and the joins of the queries lose and double
  nothing (`JoinsLoseNothing`): `StatsAreTrue`, `IssuesAreExplained`. `TopCreatorsRanked`
  rests on what ORDER BY returns: in a total order of a finite set the row numbers are
  1 to its cardinality, each taken once (`RowNumbers`, `RowsNumbered`), so the places of
  `OrderBy` are filled, in order (`Ordered`). That takes cardinalities, no induction over a
  sort. Proved and not run: `RanksAreOfCreation` (later edits do not move a ranking).
- `TaskReadsProofs`, on `TaskPages`. What a request says can be read off its filter, and
  the filter off its key (`FilterTyped`, `KeyTellsFilter`), so a slice can only answer
  requests that ask for the same (`MatchesIsAsked`); and the SELECT returns the tasks with
  the right number of newer ones (`Selected`, `AnswerIsPage`). Neither property is
  inductive: what a slice answers says nothing of the fills and writes to come. `PagesInv`
  adds that a slice is the page of the filter in its key, or is `behind`, and keeps its
  size and the kind of its tasks in any case (`SlicesArePages`); that the set of a team
  has no key of another team, so that `InvalidateTeam` of one leaves the pages of the
  others as they are, which are still right (`SetsAreOfTheTeam`, `OthersKept`), while of the
  team's own slices it leaves only orphans, which become `behind`; and that a
  task a client is still due has at least as many newer ones on the list as the client's
  offset (`DueIsAhead`), which a new task can only add to and an empty page contradicts.
  TLC has checked `PagesInv` on the instance of `task_pages`. `PagesTypeCorrect`,
  `AnswersFit` and `WalksMissNothing` follow.

What these theorems assume of their constants: users are finitely many, and `All`, `Missing`
and `Junk` are none of the values they stand apart from (`QuerySentinelsAssumption`; the
code has a nil pointer, an absent parameter and an error in their place). `PagesAssumption`
gives the types and says that a client that pages can send the queries with the
offsets it comes to; a team id in a path or a query may be any integer.

Only model-checked: the liveness properties `EveryRequestEnds`, `EventuallyFresh`,
`CircuitRecovers`, `SignalEnds` and `RestartServes`, as fairness and ENABLED are beyond the
prover. Every other property of the passing runs is a theorem.

## Plan

Done, in this order: `TaskWrites` with `AuditedTasks`; `TaskListCache`; `RateLimit`;
`TeamService` with `TeamMembership`; `EmailBreaker`; `Lifecycle` with `Config`; `Accounts`
with `AccountBook`; `Analytics`; `TaskPages` and what they share, `TaskTable`; and the
proofs of every safety property and every refinement that a run checks.

Open:

1. `TaskWrites` and `TaskListCache` share the commits in the code. `TaskPages` has a write
   and the outcomes of the invalidation behind it, but no composition carries the
   whole of both.
2. Two instances of the service on one database and one Redis: the limiter and the
   breaker are per process, the cache is shared.
3. The middleware chain as one module. Its parts are in the modules of the handlers
   that they guard (the next section says what is left).

## Not modelled

- JSON, SQL text and log lines: formats without state.
- Metrics (`middleware.go:66-85`, `internal/metrics`): counters that nothing reads back.
  Two remarks for their reader: `Recoverer` stands outside `Metrics` in the chain, so a
  panicking handler is answered 500 and not counted; and a request that matches no
  route may be counted under its raw path, which has no bound.
- The inside of bcrypt and of the signature of tokens: `Accounts` has what they tell
  apart, the first 72 bytes and whether the secret is the service's.
- MySQL's isolation beyond atomic statements, row locks and atomic commit: no
  transaction of the code reads before it writes.
- `redis.task_list_ttl` of 0, with which a slice would not expire.
- The growth of the limiter map (`middleware.go:125`): an entry for each user, and none
  is ever removed. There is nothing to state about it but that it grows.
- More than one instance of the process.
- `TeamService.ListForUser`: one SELECT, answered as it is. `UserRepo.GetByID`, which
  nothing calls.
- Deletion: tasks, teams, users and memberships are never deleted by the code.
