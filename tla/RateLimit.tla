------------------------------ MODULE RateLimit ------------------------------
(***************************************************************************)
(* The RateLimit middleware: userLimiters keeps one token bucket for each  *)
(* user, and a request passes when it can take a token of its user's       *)
(* bucket.  Requests run concurrently: looking the limiter up (under the   *)
(* mutex) and taking the token are two steps.                              *)
(*                                                                         *)
(* The bucket is golang.org/x/time/rate's: it refills lazily, when it is   *)
(* asked.  A token is counted in MinuteTicks parts, so that a tick adds    *)
(* PerMinute parts and the arithmetic is exact (the library's floating     *)
(* point is not modelled).  The limiters live in the process: one that is  *)
(* started again has none.                                                 *)
(***************************************************************************)
EXTENDS Integers

CONSTANTS
  Users,         \* ids of authenticated users
  Requests,      \* goroutines serving requests, one after another
  Configured,    \* ratelimit.per_minute
  Default,       \* what stands in for a limit that is not positive: 100
  MinuteTicks,   \* how many ticks a minute has
  MaxTime,       \* bounds the ticks
  MaxRestarts,   \* bounds the restarts
  Limiters,      \* identities that NewLimiter may give
  NoLimiter      \* no limiter

ASSUME ConstantsAssumption ==
  /\ Configured \in Int
  /\ Default \in Nat \ {0}
  /\ MinuteTicks \in Nat \ {0}
  /\ MaxTime \in Nat
  /\ MaxRestarts \in Nat
  /\ NoLimiter \notin Limiters

\* newUserLimiters
PerMinute == IF Configured <= 0 THEN Default ELSE Configured

Burst == PerMinute * MinuteTicks   \* a full bucket, in parts of a token

VARIABLES
  now,        \* ticks
  limiters,   \* the map: the limiter of each user, or NoLimiter
  bucket,     \* of each limiter in use, its tokens and when it was last changed
  pc,         \* what each request does next
  user,       \* the user of each request
  held,       \* the limiter that a request has looked up
  since,      \* auxiliary: since[u][s], requests of u admitted at s or later
  restarts    \* auxiliary: restarts[s], those of the process at s or later

vars == <<now, limiters, bucket, pc, user, held, since, restarts>>

Bucket == [tokens : 0..Burst, last : 0..MaxTime]

\* rate.NewLimiter: a full bucket.
NewLimiter == [tokens |-> Burst, last |-> now]

\* Mutant: a bucket refills beyond the burst.
AvailableUncapped(l) == bucket[l].tokens + (now - bucket[l].last) * PerMinute

\* Limiter.advance: what a bucket holds now.
Available(l) ==
  LET refilled == bucket[l].tokens + (now - bucket[l].last) * PerMinute
  IN  IF refilled < Burst THEN refilled ELSE Burst

InUse == {limiters[u] : u \in Users}

Init ==
  /\ now = 0
  /\ limiters = [u \in Users |-> NoLimiter]
  /\ bucket = [l \in Limiters |-> NewLimiter]
  /\ pc = [r \in Requests |-> "idle"]
  /\ user \in [Requests -> Users]
  /\ held = [r \in Requests |-> NoLimiter]
  /\ since = [u \in Users |-> [s \in 0..MaxTime |-> 0]]
  /\ restarts = [s \in 0..MaxTime |-> 0]

\* A request of an authenticated user reaches the middleware.
Start(r, u) ==
  /\ pc[r] = "idle"
  /\ pc' = [pc EXCEPT ![r] = "get"]
  /\ user' = [user EXCEPT ![r] = u]
  /\ UNCHANGED <<now, limiters, bucket, held, since, restarts>>

\* Mutant: the new limiter is not stored in the map.
GetUnstored(r) ==
  /\ pc[r] = "get"
  /\ pc' = [pc EXCEPT ![r] = "allow"]
  /\ \E l \in Limiters :
       /\ bucket' = [bucket EXCEPT ![l] = NewLimiter]
       /\ held' = [held EXCEPT ![r] = l]
  /\ UNCHANGED <<now, limiters, user, since, restarts>>

\* Mutant: all users share the limiter of the first.
GetShared(r) ==
  /\ pc[r] = "get"
  /\ pc' = [pc EXCEPT ![r] = "allow"]
  /\ \/ /\ \E l \in InUse \ {NoLimiter} : held' = [held EXCEPT ![r] = l]
        /\ UNCHANGED <<limiters, bucket>>
     \/ /\ InUse = {NoLimiter}
        /\ \E l \in Limiters :
             /\ limiters' = [limiters EXCEPT ![user[r]] = l]
             /\ bucket' = [bucket EXCEPT ![l] = NewLimiter]
             /\ held' = [held EXCEPT ![r] = l]
  /\ UNCHANGED <<now, user, since, restarts>>

\* userLimiters.get, under the mutex: the user's limiter, made at need.
Get(r) ==
  /\ pc[r] = "get"
  /\ pc' = [pc EXCEPT ![r] = "allow"]
  /\ \/ /\ limiters[user[r]] # NoLimiter
        /\ held' = [held EXCEPT ![r] = limiters[user[r]]]
        /\ UNCHANGED <<limiters, bucket>>
     \/ /\ limiters[user[r]] = NoLimiter
        /\ \E l \in Limiters \ InUse :
             /\ limiters' = [limiters EXCEPT ![user[r]] = l]
             /\ bucket' = [bucket EXCEPT ![l] = NewLimiter]
             /\ held' = [held EXCEPT ![r] = l]
  /\ UNCHANGED <<now, user, since, restarts>>

\* Allow takes a whole token, or answers 429 and leaves the bucket as it is.
Affordable(r) == Available(held[r]) >= MinuteTicks

Admit(r) ==
  /\ pc[r] = "allow"
  /\ Affordable(r)
  /\ bucket' = [bucket EXCEPT ![held[r]] =
                  [tokens |-> Available(held[r]) - MinuteTicks, last |-> now]]
  /\ since' = [since EXCEPT ![user[r]] =
                 [s \in 0..MaxTime |-> IF s <= now THEN @[s] + 1 ELSE @[s]]]
  /\ pc' = [pc EXCEPT ![r] = "idle"]
  /\ UNCHANGED <<now, limiters, user, held, restarts>>

Refuse(r) ==
  /\ pc[r] = "allow"
  /\ ~Affordable(r)
  /\ pc' = [pc EXCEPT ![r] = "idle"]
  /\ UNCHANGED <<now, limiters, bucket, user, held, since, restarts>>

Tick ==
  /\ now < MaxTime
  /\ now' = now + 1
  /\ UNCHANGED <<limiters, bucket, pc, user, held, since, restarts>>

\* The process dies and is started again, with an empty map.
Restart ==
  /\ restarts[0] < MaxRestarts
  /\ restarts' = [s \in 0..MaxTime |-> IF s <= now THEN restarts[s] + 1 ELSE restarts[s]]
  /\ limiters' = [u \in Users |-> NoLimiter]
  /\ bucket' = [l \in Limiters |-> NewLimiter]
  /\ pc' = [r \in Requests |-> "idle"]
  /\ held' = [r \in Requests |-> NoLimiter]
  /\ UNCHANGED <<now, user, since>>

Next ==
  \/ \E r \in Requests : \/ \E u \in Users : Start(r, u)
                         \/ Get(r) \/ Admit(r) \/ Refuse(r)
  \/ Tick
  \/ Restart

Spec == Init /\ [][Next]_vars

-----------------------------------------------------------------------------
(* Properties. *)

\* Every variable keeps its type.
TypeOK ==
  /\ now \in 0..MaxTime
  /\ limiters \in [Users -> Limiters \cup {NoLimiter}]
  /\ bucket \in [Limiters -> Bucket]
  /\ pc \in [Requests -> {"idle", "get", "allow"}]
  /\ user \in [Requests -> Users]
  /\ held \in [Requests -> Limiters \cup {NoLimiter}]
  /\ since \in [Users -> [0..MaxTime -> Nat]]
  /\ restarts \in [0..MaxTime -> Nat]

\* Over every stretch of time, however its requests interleave, a user is
\* admitted at most the burst and what the stretch refills: in a minute, twice
\* per_minute; and a burst more for each time the process was started again.
AdmissionBound ==
  \A u \in Users : \A s \in 0..now :
    MinuteTicks * since[u][s] <= (1 + restarts[s]) * Burst + (now - s) * PerMinute

\* A request is refused only to a user who has used up the budget of some
\* stretch of time up to now: nobody pays for another user's requests.
Exhausted(u) ==
  \E s \in 0..now :
    MinuteTicks * (since[u][s] + 1) > Burst + (now - s) * PerMinute

RefusalsAreEarned == [][\A r \in Requests : Refuse(r) => Exhausted(user[r])]_vars
=============================================================================
