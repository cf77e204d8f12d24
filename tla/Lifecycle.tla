------------------------------ MODULE Lifecycle ------------------------------
(***************************************************************************)
(* The life of the process: run() in cmd/api/main.go, which loads the      *)
(* configuration, connects, migrates the schema, serves, and stops on a    *)
(* signal.                                                                 *)
(*                                                                         *)
(* The process is started over and over on the same database.  run() is    *)
(* one goroutine, ListenAndServe is a second, and each request that the    *)
(* server has accepted is one more; a request commits a write to MySQL and *)
(* then invalidates the cache in Redis, through the clients that run()     *)
(* closes in the end.                                                      *)
(*                                                                         *)
(* golang-migrate is outside the repository.  It marks the schema dirty,   *)
(* sends the file of the migration in one Exec, and marks the schema       *)
(* clean; MySQL commits each CREATE TABLE of the file by itself, and       *)
(* refuses the file as a whole when the DSN does not allow several         *)
(* statements in one Exec.                                                 *)
(*                                                                         *)
(* A deployment is the environment the process is started in, env, the     *)
(* hosts it reaches from there, and what its author means the variables to *)
(* set, means, which the code does not see.                                *)
(***************************************************************************)
EXTENDS Config, Integers, FiniteSets

CONSTANTS
  Requests,          \* the requests that one run of the process may accept
  Tables,            \* how many tables the migration creates
  File,              \* config.yaml
  Deployments,       \* the ways the process may be deployed
  MaxFaults          \* bound: failures and crashes

ASSUME ConstantsAssumption ==
  /\ Tables \in Nat \ {0}
  /\ Deployments # {}
  /\ MaxFaults \in Nat

VARIABLES
  phase,       \* where run() is; "down" when there is no process
  listener,    \* of the goroutine that runs ListenAndServe
  open,        \* the clients that are open
  signalled,   \* whether ctx of signal.NotifyContext is done
  place,       \* the deployment of this run
  exit,        \* how the run ends, or the last one has ended
  schema,      \* golang-migrate's record of the schema
  tables,      \* how many tables there are
  pc,          \* where each request is
  faults       \* how many failures there have been

process == <<listener, open, signalled, place>>
database == <<schema, tables>>
vars == <<phase, process, exit, database, pc, faults>>

Clients == {"mysql", "redis"}
StartupPhases == {"load", "connect", "migrate", "create", "record", "redis"}

cfg == Load(File, place.env)

Running == {r \in Requests : pc[r] \in {"write", "invalidate"}}

-----------------------------------------------------------------------------
Init ==
  /\ phase = "down"
  /\ listener = "closed"
  /\ open = {}
  /\ signalled = FALSE
  /\ place \in Deployments
  /\ exit = "none"
  /\ schema = "empty"
  /\ tables = 0
  /\ pc = [r \in Requests |-> "none"]
  /\ faults = 0

Goto(next) == phase' = next /\ UNCHANGED exit

\* run() returns, and what it has deferred is next.
Return(result) == phase' = "close" /\ exit' = result

Fault == faults < MaxFaults /\ faults' = faults + 1

(* Startup. *)

Start ==
  /\ phase = "down"
  /\ phase' = "load"
  /\ exit' = "none"
  /\ listener' = "closed"
  /\ signalled' = FALSE
  /\ place' \in Deployments
  /\ pc' = [r \in Requests |-> "none"]
  /\ UNCHANGED <<open, database, faults>>

\* What run() does first.  The file is there and parses.
LoadConfig ==
  /\ phase = "load"
  /\ IF LoadFails(place.env) THEN Return("error") ELSE Goto("connect")
  /\ UNCHANGED <<process, database, pc, faults>>

\* database.New
Connect ==
  /\ phase = "connect"
  /\ cfg[DSN].host \in place.reach
  /\ open' = open \cup {"mysql"}
  /\ Goto("migrate")
  /\ UNCHANGED <<listener, signalled, place, database, pc, faults>>

\* The Ping of database.New fails, always.
RefuseConnection ==
  /\ phase = "connect"
  /\ cfg[DSN].host \notin place.reach
  /\ Return("error")
  /\ UNCHANGED <<process, database, pc, faults>>

\* Mutant: a dirty schema is taken for a migrated one.
UpIgnoringDirty ==
  /\ phase = "migrate"
  /\ IF schema = "empty"
     THEN schema' = "dirty" /\ Goto("create")
     ELSE UNCHANGED schema /\ Goto("redis")
  /\ UNCHANGED <<process, tables, pc, faults>>

\* Mutant: a dirty schema is migrated once more.
UpAgain ==
  /\ phase = "migrate"
  /\ IF schema = "clean"
     THEN UNCHANGED schema /\ Goto("redis")
     ELSE schema' = "dirty" /\ Goto("create")
  /\ UNCHANGED <<process, tables, pc, faults>>

\* Mutant: ErrNoChange is an error like any other.
UpFailingOnNoChange ==
  /\ phase = "migrate"
  /\ \/ schema = "empty" /\ schema' = "dirty" /\ Goto("create")
     \/ schema # "empty" /\ UNCHANGED schema /\ Return("error")
  /\ UNCHANGED <<process, tables, pc, faults>>

\* Migrate: Up looks at the version first.  A dirty schema is ErrDirty, which
\* ends the run; a migrated one is ErrNoChange, which does not.
Up ==
  /\ phase = "migrate"
  /\ \/ schema = "empty" /\ schema' = "dirty" /\ Goto("create")
     \/ schema = "clean" /\ UNCHANGED schema /\ Goto("redis")
     \/ schema = "dirty" /\ UNCHANGED schema /\ Return("error")
  /\ UNCHANGED <<process, tables, pc, faults>>

\* The Exec of the migration's file.
CreateTable ==
  /\ phase = "create"
  /\ cfg[DSN].multi
  /\ tables' = tables + 1
  /\ Goto(IF tables' = Tables THEN "record" ELSE "create")
  /\ UNCHANGED <<process, schema, pc, faults>>

RefuseFile ==
  /\ phase = "create"
  /\ ~cfg[DSN].multi
  /\ Return("error")
  /\ UNCHANGED <<process, database, pc, faults>>

Record ==
  /\ phase = "record"
  /\ schema' = "clean"
  /\ Goto("redis")
  /\ UNCHANGED <<process, tables, pc, faults>>

\* redis.NewClient and the Ping, and everything up to the start of the server.
ConnectRedis ==
  /\ phase = "redis"
  /\ cfg[Addr].host \in place.reach
  /\ open' = open \cup {"redis"}
  /\ listener' = "starting"
  /\ Goto("serve")
  /\ UNCHANGED <<signalled, place, database, pc, faults>>

\* The Ping fails, always; the client has been made and is closed.
RefusePing ==
  /\ phase = "redis"
  /\ cfg[Addr].host \notin place.reach
  /\ open' = open \cup {"redis"}
  /\ Return("error")
  /\ UNCHANGED <<listener, signalled, place, database, pc, faults>>

\* What may have happened to the database when a call of run() brings no
\* answer: nothing, what the call was to do, or a part of the tables.
Interrupted ==
  /\ schema' \in {schema} \cup (IF phase = "migrate" /\ schema = "empty" THEN {"dirty"} ELSE {})
                          \cup (IF phase = "record" THEN {"clean"} ELSE {})
  /\ IF phase = "create" /\ cfg[DSN].multi
     THEN tables' \in tables..Tables
     ELSE UNCHANGED tables

\* Reading the file, connecting, a step of Up or the Ping fails.
FailStartup ==
  /\ phase \in StartupPhases
  /\ Fault
  /\ Interrupted
  /\ open' = IF phase = "redis" THEN open \cup {"redis"} ELSE open
  /\ Return("error")
  /\ UNCHANGED <<listener, signalled, place, pc>>

-----------------------------------------------------------------------------
(* Serving. *)

Listen ==
  /\ phase = "serve" /\ listener = "starting"
  /\ listener' = "open"
  /\ UNCHANGED <<phase, exit, open, signalled, place, database, pc, faults>>

\* ListenAndServe returns an error: the port is taken, or accepting fails.
ListenFails ==
  /\ phase = "serve" /\ listener \in {"starting", "open"}
  /\ Fault
  /\ listener' = "failed"
  /\ UNCHANGED <<phase, exit, open, signalled, place, database, pc>>

Accept(r) ==
  /\ phase = "serve" /\ listener = "open"
  /\ pc[r] = "none"
  /\ pc' = [pc EXCEPT ![r] = "write"]
  /\ UNCHANGED <<phase, exit, process, database, faults>>

\* A request goes on for as long as there is a process, and may find a client
\* closed: the write is then refused with a 500, an invalidation that fails is
\* only logged and leaves the cache stale.
Write(r) ==
  /\ phase # "down"
  /\ pc[r] = "write"
  /\ pc' = [pc EXCEPT ![r] = IF "mysql" \in open THEN "invalidate" ELSE "refused"]
  /\ UNCHANGED <<phase, exit, process, database, faults>>

Invalidate(r) ==
  /\ phase # "down"
  /\ pc[r] = "invalidate"
  /\ pc' = [pc EXCEPT ![r] = IF "redis" \in open THEN "answered" ELSE "stale"]
  /\ UNCHANGED <<phase, exit, process, database, faults>>

Signal ==
  /\ phase = "serve"
  /\ signalled' = TRUE
  /\ UNCHANGED <<phase, exit, listener, open, place, database, pc, faults>>

-----------------------------------------------------------------------------
(* Stopping. *)

\* The select takes either branch when both are ready.
SelectError ==
  /\ phase = "serve" /\ listener = "failed"
  /\ Return("error")
  /\ UNCHANGED <<process, database, pc, faults>>

\* Shutdown closes the listener first.
SelectSignal ==
  /\ phase = "serve" /\ signalled
  /\ listener' = "closed"
  /\ Goto("drain")
  /\ UNCHANGED <<open, signalled, place, database, pc, faults>>

\* Shutdown returns nil when no connection serves a request.
ShutDown ==
  /\ phase = "drain"
  /\ Running = {}
  /\ Return("clean")
  /\ UNCHANGED <<process, database, pc, faults>>

\* Mutant: the error of Shutdown is ignored.
TimeOutIgnored ==
  /\ phase = "drain"
  /\ Return("clean")
  /\ UNCHANGED <<process, database, pc, faults>>

\* Mutant: Shutdown has no deadline.
TimeOutNever ==
  /\ FALSE
  /\ UNCHANGED vars

\* Shutdown gives up after http.shutdown_timeout, and looks at its deadline
\* without looking at the connections once more.
TimeOut ==
  /\ phase = "drain"
  /\ Return("error")
  /\ UNCHANGED <<process, database, pc, faults>>

\* The deferred calls: the Redis client is closed before the MySQL pool.
CloseRedis ==
  /\ phase = "close" /\ "redis" \in open
  /\ open' = open \ {"redis"}
  /\ UNCHANGED <<phase, exit, listener, signalled, place, database, pc, faults>>

CloseMySQL ==
  /\ phase = "close" /\ open = {"mysql"}
  /\ open' = {}
  /\ UNCHANGED <<phase, exit, listener, signalled, place, database, pc, faults>>

\* The requests that a process has left end with it.
Dies ==
  /\ phase' = "down"
  /\ pc' = [r \in Requests |-> IF r \in Running THEN "lost" ELSE pc[r]]

\* main returns or calls os.Exit(1).
Exit ==
  /\ phase = "close" /\ open = {}
  /\ Dies
  /\ UNCHANGED <<process, exit, database, faults>>

\* The process is killed: by a SIGKILL, or by a signal that comes before
\* NotifyContext or after its stop, when nothing catches it.
Crash ==
  /\ phase # "down"
  /\ Fault
  /\ Dies
  /\ exit' = "killed"
  /\ open' = {}
  /\ Interrupted
  /\ UNCHANGED <<listener, signalled, place>>

-----------------------------------------------------------------------------
\* The goroutine of run().
Run ==
  \/ LoadConfig \/ Connect \/ RefuseConnection
  \/ Up \/ CreateTable \/ RefuseFile \/ Record \/ ConnectRedis \/ RefusePing
  \/ SelectError \/ SelectSignal \/ ShutDown \/ TimeOut
  \/ CloseRedis \/ CloseMySQL \/ Exit

Request(r) == Accept(r) \/ Write(r) \/ Invalidate(r)

Next ==
  \/ Start \/ Run
  \/ Listen \/ Signal
  \/ \E r \in Requests : Request(r)
  \/ FailStartup \/ ListenFails \/ Crash

Spec == Init /\ [][Next]_vars

\* The two goroutines of the process run on, and a process that is down is
\* started again.  A request may hang for ever: no handler has a deadline.
FairSpec == Spec /\ WF_vars(Run) /\ WF_vars(Listen) /\ WF_vars(Start)

-----------------------------------------------------------------------------
(* Properties. *)

\* Every variable keeps its type; there are never more tables than the
\* migration creates.
TypeOK ==
  /\ phase \in StartupPhases \cup {"down", "serve", "drain", "close"}
  /\ listener \in {"closed", "starting", "open", "failed"}
  /\ open \subseteq Clients
  /\ signalled \in BOOLEAN /\ place \in Deployments
  /\ exit \in {"none", "clean", "error", "killed"}
  /\ schema \in {"empty", "dirty", "clean"}
  /\ tables \in 0..Tables
  /\ pc \in [Requests -> {"none", "write", "invalidate", "answered", "refused", "stale", "lost"}]
  /\ faults \in 0..MaxFaults

\* A request runs on the whole schema only, however often the process was
\* killed or failed in the middle of the migration (database.Migrate, main.go).
ServesOnlyMigrated == Running # {} => schema = "clean" /\ tables = Tables

\* A run that says it stopped gracefully has answered every request it had
\* accepted, and none of them met a client that run() had closed already.
CleanStop == exit = "clean" => \A r \in Requests : pc[r] \in {"none", "answered"}

\* A signal stops the process, whatever its requests do.
SignalEnds == signalled ~> phase = "down"

\* Starting the service again makes it serve in the end, if it is deployed
\* where it can run, unless a migration was interrupted or refused: nothing
\* ever clears the dirty mark.
Usable == ~LoadFails(place.env) /\ {cfg[DSN].host, cfg[Addr].host} \subseteq place.reach

RestartServes ==
  <>[]Usable => []<>(phase = "serve") \/ <>[](schema = "dirty")

\* A process that goes on to connect runs with what its deployment means, and
\* with the file for the rest; a value that has no meaning stops it before
\* (config.Load, applyEnvOverrides).
RunsAsMeant ==
  phase \notin {"down", "load", "close"} =>
    \A s \in Settings :
      IF s \in DOMAIN place.means
      THEN cfg[s] = place.means[s] /\ (s.type # "string" => s.type \in cfg[s].as)
      ELSE cfg[s] = IF s \in DOMAIN File THEN File[s] ELSE Zero

\* What README.md says of `make up`: the service comes to serve.
ServesAtLast == <>(phase = "serve")
=============================================================================
