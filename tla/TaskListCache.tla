---------------------------- MODULE TaskListCache ----------------------------
(***************************************************************************)
(* The cache of one team's task lists: TaskService.List, which reads and   *)
(* fills it, and the invalidation at the end of Create and Update, over    *)
(* RedisCache.                                                             *)
(*                                                                         *)
(* Redis holds one slice for each filter that was listed, and a set that   *)
(* registers the keys of the slices so that a write can delete them.  Each *)
(* call to Redis or MySQL is one atomic step (a TxPipeline is MULTI/EXEC), *)
(* and the steps of concurrent requests interleave.  What a slice holds is *)
(* abstracted to the number of writes the database had committed when it   *)
(* was selected: every write changes every slice.                          *)
(*                                                                         *)
(* The checks and the transaction that come before a write's COMMIT are    *)
(* the subject of module TaskWrites.  Keys carry the team id, so teams do  *)
(* not share slices, and one team is enough.                               *)
(***************************************************************************)
EXTENDS Naturals, FiniteSets

CONSTANTS
  Readers,     \* goroutines serving List, one request after another
  Writers,     \* goroutines serving Create and Update
  Keys,        \* the filters that are listed, as cache keys
  TTL,         \* redis.tasks_ttl, in ticks
  MaxWrites,   \* bounds the committed writes
  MaxErrors,   \* bounds the failed calls and crashes
  Absent       \* no slice under this key

ASSUME ConstantsAssumption ==
  /\ TTL \in Nat \ {0}
  /\ MaxWrites \in Nat
  /\ MaxErrors \in Nat
  /\ Readers \cap Writers = {}

Clients == Readers \cup Writers

VARIABLES
  version,     \* how many writes the database has committed
  slice,       \* the cached list of each key with the time it has left
  registered,  \* the team's set of keys
  regTTL,      \* the time the set has left, 0 when there is none
  pc,          \* the call each client makes next
  key,         \* the filter that a reader lists
  seen,        \* the database version that a reader selected
  found,       \* the keys that a writer's SMEMBERS returned
  errors,      \* auxiliary: the failures so far
  excuse       \* auxiliary: why the slice of a key may be out of date

vars == <<version, slice, registered, regTTL, pc, key, seen, found, errors, excuse>>
redis == <<slice, registered, regTTL, excuse>>

Entry == [value : 0..MaxWrites, ttl : 1..TTL]

ASSUME AbsentAssumption == Absent \notin Entry

Live(k)  == slice[k] # Absent
Stale(k) == Live(k) /\ slice[k].value # version

Goto(c, call) == pc' = [pc EXCEPT ![c] = call]

-----------------------------------------------------------------------------
Init ==
  /\ version = 0
  /\ slice = [k \in Keys |-> Absent]
  /\ registered = {}
  /\ regTTL = 0
  /\ pc = [c \in Clients |-> "idle"]
  /\ key \in [Readers -> Keys]
  /\ seen = [r \in Readers |-> 0]
  /\ found = [w \in Writers |-> {}]
  /\ errors = 0
  /\ excuse = [k \in Keys |-> "none"]

-----------------------------------------------------------------------------
(* List. *)

List(r, k) ==
  /\ pc[r] = "idle"
  /\ key' = [key EXCEPT ![r] = k]
  /\ Goto(r, "authorize")
  /\ UNCHANGED <<version, redis, seen, found, errors>>

\* requireMember: the caller is let through, or refused.
Authorize(r) ==
  /\ pc[r] = "authorize"
  /\ Goto(r, "get") \/ Goto(r, "idle")
  /\ UNCHANGED <<version, redis, key, seen, found, errors>>

\* Mutant: a hit renews the slice and the set, a sliding expiration.
GetSliding(r) ==
  /\ pc[r] = "get"
  /\ Goto(r, IF Live(key[r]) THEN "idle" ELSE "select")
  /\ IF Live(key[r])
     THEN slice' = [slice EXCEPT ![key[r]].ttl = TTL] /\ regTTL' = TTL
     ELSE UNCHANGED <<slice, regTTL>>
  /\ UNCHANGED <<version, registered, excuse, key, seen, found, errors>>

\* GetTasks: a live slice is the answer.
Get(r) ==
  /\ pc[r] = "get"
  /\ Goto(r, IF Live(key[r]) THEN "idle" ELSE "select")
  /\ UNCHANGED <<version, redis, key, seen, found, errors>>

\* TaskRepo.List
Select(r) ==
  /\ pc[r] = "select"
  /\ seen' = [seen EXCEPT ![r] = version]
  /\ Goto(r, "set")
  /\ UNCHANGED <<version, redis, key, found, errors>>

\* Mutant: EXPIRE NX, the set keeps the expiration of its first key.
RegisterOnce(k) ==
  /\ registered' = registered \cup {k}
  /\ regTTL' = IF regTTL = 0 THEN TTL ELSE regTTL

\* SetTasks: SET key with its TTL, SADD to the set, EXPIRE the set.
Register(k) ==
  /\ registered' = registered \cup {k}
  /\ regTTL' = TTL

Set(r) ==
  /\ pc[r] = "set"
  /\ slice' = [slice EXCEPT ![key[r]] = [value |-> seen[r], ttl |-> TTL]]
  /\ Register(key[r])
  /\ excuse' = [excuse EXCEPT ![key[r]] = IF seen[r] = version THEN "none" ELSE "late"]
  /\ Goto(r, "idle")
  /\ UNCHANGED <<version, key, seen, found, errors>>

-----------------------------------------------------------------------------
(* Create and Update, from the COMMIT on. *)

Commit(w) ==
  /\ pc[w] = "idle"
  /\ version < MaxWrites
  /\ version' = version + 1
  /\ Goto(w, "smembers")
  /\ UNCHANGED <<redis, key, seen, found, errors>>

\* InvalidateTeam: SMEMBERS of the set, and then DEL of the keys it had and of
\* the set, whatever the set holds by then.
SMembers(w) ==
  /\ pc[w] = "smembers"
  /\ found' = [found EXCEPT ![w] = registered]
  /\ Goto(w, "del")
  /\ UNCHANGED <<version, redis, key, seen, errors>>

Del(w) ==
  /\ pc[w] = "del"
  /\ slice' = [k \in Keys |-> IF k \in found[w] THEN Absent ELSE slice[k]]
  /\ registered' = {}
  /\ regTTL' = 0
  /\ excuse' = [k \in Keys |-> CASE k \in found[w]              -> "none"
                                  [] k \in registered \ found[w] -> "orphaned"
                                  [] OTHER                       -> excuse[k]]
  /\ found' = [found EXCEPT ![w] = {}]
  /\ Goto(w, "idle")
  /\ UNCHANGED <<version, key, seen, errors>>

-----------------------------------------------------------------------------
(* Time and failures. *)

\* Mutant: a slice is still there when its time is up.
TickLate ==
  /\ regTTL > 0 \/ \E k \in Keys : Live(k)
  /\ slice' = [k \in Keys |->
                 IF Live(k) /\ slice[k].ttl >= 1
                 THEN [slice[k] EXCEPT !.ttl = @ - 1] ELSE Absent]
  /\ regTTL' = IF regTTL = 0 THEN 0 ELSE regTTL - 1
  /\ registered' = IF regTTL' = 0 THEN {} ELSE registered
  /\ excuse' = [k \in Keys |-> IF slice'[k] = Absent THEN "none" ELSE excuse[k]]
  /\ UNCHANGED <<version, pc, key, seen, found, errors>>

\* Redis expires what has no time left; a set that expires is empty.
Tick ==
  /\ regTTL > 0 \/ \E k \in Keys : Live(k)
  /\ slice' = [k \in Keys |->
                 IF Live(k) /\ slice[k].ttl > 1
                 THEN [slice[k] EXCEPT !.ttl = @ - 1] ELSE Absent]
  /\ regTTL' = IF regTTL = 0 THEN 0 ELSE regTTL - 1
  /\ registered' = IF regTTL' = 0 THEN {} ELSE registered
  /\ excuse' = [k \in Keys |-> IF slice'[k] = Absent THEN "none" ELSE excuse[k]]
  /\ UNCHANGED <<version, pc, key, seen, found, errors>>

Error == errors < MaxErrors /\ errors' = errors + 1

\* A committed write that does not invalidate leaves every live slice behind.
LeaveBehind ==
  /\ excuse' = [k \in Keys |-> IF Live(k) THEN "skipped" ELSE excuse[k]]
  /\ UNCHANGED <<slice, registered, regTTL>>

\* A failed GET is logged, and List goes on; so is a failed SET; a failed
\* SELECT is List's answer.
ReaderError(r) ==
  /\ Error
  /\ \/ pc[r] = "get" /\ Goto(r, "select")
     \/ pc[r] \in {"select", "set"} /\ Goto(r, "idle")
  /\ UNCHANGED <<version, redis, key, seen, found>>

\* The COMMIT took effect but returned an error: Create and Update return it
\* before they invalidate.
CommitUnacknowledged(w) ==
  /\ Error
  /\ pc[w] = "idle"
  /\ version < MaxWrites
  /\ version' = version + 1
  /\ LeaveBehind
  /\ UNCHANGED <<pc, key, seen, found>>

\* A failed SMEMBERS or DEL is logged: Redis is away, or the client is gone
\* and the request's context is cancelled.
InvalidationError(w) ==
  /\ Error
  /\ pc[w] \in {"smembers", "del"}
  /\ Goto(w, "idle")
  /\ found' = [found EXCEPT ![w] = {}]
  /\ LeaveBehind
  /\ UNCHANGED <<version, key, seen>>

\* The process dies; MySQL and Redis live on.
Crash ==
  /\ Error
  /\ \E c \in Clients : pc[c] # "idle"
  /\ pc' = [c \in Clients |-> "idle"]
  /\ found' = [w \in Writers |-> {}]
  /\ IF \E w \in Writers : pc[w] # "idle" THEN LeaveBehind ELSE UNCHANGED redis
  /\ UNCHANGED <<version, key, seen>>

-----------------------------------------------------------------------------
Serve(r) == Authorize(r) \/ Get(r) \/ Select(r) \/ Set(r)

Invalidate(w) == SMembers(w) \/ Del(w)

Next ==
  \/ \E r \in Readers : \/ \E k \in Keys : List(r, k)
                        \/ Serve(r)
                        \/ ReaderError(r)
  \/ \E w \in Writers : \/ Commit(w)
                        \/ Invalidate(w)
                        \/ CommitUnacknowledged(w)
                        \/ InvalidationError(w)
  \/ Tick
  \/ Crash

Spec == Init /\ [][Next]_vars

\* A goroutine that serves a request runs on, and time passes.
FairSpec ==
  /\ Spec
  /\ \A r \in Readers : WF_vars(Serve(r))
  /\ \A w \in Writers : WF_vars(Invalidate(w))
  /\ WF_vars(Tick)

-----------------------------------------------------------------------------
(* Properties. *)

\* Every variable keeps its type.
TypeOK ==
  /\ version \in 0..MaxWrites
  /\ slice \in [Keys -> Entry \cup {Absent}]
  /\ registered \subseteq Keys
  /\ regTTL \in 0..TTL
  /\ pc \in [Clients -> {"idle", "authorize", "get", "select", "set", "smembers", "del"}]
  /\ key \in [Readers -> Keys]
  /\ seen \in [Readers -> 0..MaxWrites]
  /\ found \in [Writers -> SUBSET Keys]
  /\ errors \in 0..MaxErrors
  /\ excuse \in [Keys -> {"none", "late", "orphaned", "skipped"}]

\* A writer that is about to delete slice k.
WillDelete(w, k) ==
  \/ pc[w] = "smembers" /\ k \in registered
  \/ pc[w] = "del" /\ k \in found[w]

\* Whenever List could serve a stale slice, either a write is still on its way
\* to delete it, or one of three causes is to blame: a reader that had selected
\* before a COMMIT filled it ("late"), a write removed the set between whose
\* SMEMBERS and DEL it was registered ("orphaned"), or a committed write could
\* not invalidate ("skipped").
StaleIsExplained ==
  \A k \in Keys : Stale(k) =>
    excuse[k] # "none" \/ \E w \in Writers : WillDelete(w, k)

\* The team's set never expires before a slice that it registers: SetTasks
\* renews the set with every slice.
RegistryOutlivesSlices ==
  \A k \in registered : Live(k) => slice[k].ttl <= regTTL

\* Once the writes stop, every slice that List serves is up to date at last,
\* however many readers keep listing: a stale slice is not kept alive by hits.
EventuallyFresh == <>[](\A k \in Keys : ~Stale(k))

\* "Invalidation on changes": when no request is running and no call has
\* failed, the cache holds no list from before a write.
FreshAtRest ==
  (\A c \in Clients : pc[c] = "idle") => \A k \in Keys : ~Stale(k)
=============================================================================
