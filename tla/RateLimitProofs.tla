--------------------------- MODULE RateLimitProofs ---------------------------
(***************************************************************************)
(* Theorems about RateLimit, for any limit, any number of users, requests  *)
(* and ticks.                                                              *)
(***************************************************************************)
EXTENDS RateLimit, TLAPS

\* A request takes its token from its user's limiter, which it shares with the
\* user's other requests and with nobody else.
LimitersInv ==
  /\ \A u, v \in Users : limiters[u] = limiters[v] /\ limiters[u] # NoLimiter => u = v
  /\ \A r \in Requests : pc[r] = "allow" =>
       limiters[user[r]] # NoLimiter /\ held[r] = limiters[user[r]]
  /\ \A l \in InUse \ {NoLimiter} : bucket[l].last <= now

\* Over every stretch, what was taken and what is left is at most the burst, the
\* refill, and a burst for each restart; and for the stretch since the bucket was
\* last full it is at least the burst and the refill.
Balance(u, s) == MinuteTicks * since[u][s] + Available(limiters[u])
Refill(s)     == (now - s) * PerMinute
Past(s)       == restarts[s] * Burst
Budget(s)     == Past(s) + Burst + Refill(s)

BalanceInv ==
  /\ \A u \in Users : limiters[u] = NoLimiter =>
       \A s \in 0..now : MinuteTicks * since[u][s] <= Past(s) + Refill(s)
  /\ \A u \in Users : \A s \in 0..MaxTime : s > now => since[u][s] = 0
  /\ \A u \in Users : limiters[u] # NoLimiter =>
       /\ \A s \in 0..now : Balance(u, s) <= Budget(s)
       /\ \E s \in 0..now : Balance(u, s) >= Burst + Refill(s)

Inv == TypeOK /\ LimitersInv /\ BalanceInv

LEMMA Constants ==
  /\ PerMinute \in Nat \ {0}
  /\ MinuteTicks \in Nat \ {0}
  /\ MaxTime \in Nat
  /\ Burst \in Nat \ {0}
<1>1. PerMinute \in Nat \ {0} /\ MinuteTicks \in Nat \ {0} /\ MaxTime \in Nat
  BY ConstantsAssumption DEF PerMinute
<1>2. \A a, b \in Nat \ {0} : a * b \in Nat \ {0}
  OBVIOUS
<1> QED
  BY <1>1, <1>2 DEF Burst

LEMMA Products ==
  /\ \A a \in Int, b \in Int : a * b \in Int /\ (a + 1) * b = a * b + b
  /\ \A a \in Int, b \in Int : b * (a + 1) = b * a + b
  /\ \A a \in Nat, b \in Nat : a * b \in Nat
OBVIOUS

LEMMA TermTypes ==
  ASSUME TypeOK, NEW s \in 0..now
  PROVE  /\ s \in 0..MaxTime /\ Past(s) \in Nat /\ Refill(s) \in Nat
         /\ \A u \in Users : since[u][s] \in Nat /\ MinuteTicks * since[u][s] \in Nat
<1>1. s \in 0..MaxTime /\ now - s \in Nat /\ restarts[s] \in Nat
      /\ \A u \in Users : since[u][s] \in Nat
  BY Constants DEF TypeOK
<1>2. /\ PerMinute \in Nat /\ MinuteTicks \in Nat /\ Burst \in Nat
      /\ \A a, b \in Nat : a * b \in Nat
  BY Constants
<1> QED
  BY <1>1, <1>2 DEF Past, Refill

\* A bucket never holds more than the burst.
LEMMA AvailableType ==
  ASSUME NEW l, bucket[l] \in Bucket, now \in 0..MaxTime, bucket[l].last <= now
  PROVE  Available(l) \in 0..Burst
<1>1. (now - bucket[l].last) * PerMinute \in Nat
  BY Constants, Products DEF Bucket
<1> QED
  BY <1>1, Constants DEF Available, Bucket

\* A tick refills a bucket by PerMinute parts, unless it is full then.
LEMMA AvailableTick ==
  ASSUME NEW l, bucket[l] \in Bucket, now \in 0..MaxTime, bucket[l].last <= now,
         now' = now + 1, bucket' = bucket
  PROVE  Available(l)' = IF Available(l) + PerMinute < Burst
                         THEN Available(l) + PerMinute ELSE Burst
<1> DEFINE d == now - bucket[l].last
<1>1. d \in Nat /\ now' - bucket'[l].last = d + 1
  BY Constants DEF Bucket
<1>2. (d + 1) * PerMinute = d * PerMinute + PerMinute /\ d * PerMinute \in Nat
  <2>1. d \in Nat /\ PerMinute \in Nat
    BY <1>1, Constants
  <2> HIDE DEF d
  <2> QED
    BY <2>1
<1>3. Available(l) = IF bucket[l].tokens + d * PerMinute < Burst
                     THEN bucket[l].tokens + d * PerMinute ELSE Burst
  BY DEF Available
<1>4. Available(l)' = IF bucket[l].tokens + (d + 1) * PerMinute < Burst
                      THEN bucket[l].tokens + (d + 1) * PerMinute ELSE Burst
  BY <1>1 DEF Available
<1> HIDE DEF d
<1> QED
  BY <1>2, <1>3, <1>4, Constants DEF Bucket

LEMMA InitInv == Init => Inv
<1> SUFFICES ASSUME Init PROVE Inv
  OBVIOUS
<1>1. NewLimiter \in Bucket
  BY Constants DEF Init, NewLimiter, Bucket
<1>2. TypeOK
  BY <1>1, Constants DEF Init, TypeOK
<1>3. MinuteTicks * 0 = 0 /\ 0 * Burst = 0 /\ (0 - 0) * PerMinute = 0
  BY Constants
<1>4. \A u \in Users : \A s \in 0..now : MinuteTicks * since[u][s] <= Past(s) + Refill(s)
  BY <1>3, Constants DEF Init, Past, Refill
<1> QED
  BY <1>2, <1>4 DEF Init, Inv, LimitersInv, BalanceInv, InUse

LEMMA StartInv ==
  ASSUME Inv, NEW r \in Requests, NEW u \in Users, Start(r, u)
  PROVE  Inv'
<1>1. TypeOK'
  BY DEF Inv, TypeOK, Start
<1>2. LimitersInv'
  BY DEF Inv, TypeOK, LimitersInv, InUse, Start
<1>3. BalanceInv'
  BY DEF Inv, BalanceInv, Balance, Budget, Past, Refill, Available, Start
<1> QED
  BY <1>1, <1>2, <1>3 DEF Inv

LEMMA RefuseInv ==
  ASSUME Inv, NEW r \in Requests, Refuse(r)
  PROVE  Inv'
<1>1. TypeOK'
  BY DEF Inv, TypeOK, Refuse
<1>2. LimitersInv'
  BY DEF Inv, TypeOK, LimitersInv, InUse, Refuse
<1>3. BalanceInv'
  BY DEF Inv, BalanceInv, Balance, Budget, Past, Refill, Available, Refuse
<1> QED
  BY <1>1, <1>2, <1>3 DEF Inv

\* The limiter of a user who had none is fresh: no one else holds it, and the
\* user has been admitted nothing so far.
LEMMA GetInv ==
  ASSUME Inv, NEW r \in Requests, Get(r)
  PROVE  Inv'
<1> DEFINE u == user[r]
<1>1. /\ user[r] \in Users /\ pc[r] = "get" /\ now \in 0..MaxTime
      /\ pc' = [pc EXCEPT ![r] = "allow"] /\ UNCHANGED <<now, user, since, restarts>>
  BY DEF Inv, TypeOK, Get
<1>2. CASE /\ limiters[user[r]] # NoLimiter
           /\ held' = [held EXCEPT ![r] = limiters[user[r]]]
           /\ UNCHANGED <<limiters, bucket>>
  <2>1. TypeOK'
    BY <1>1, <1>2 DEF Inv, TypeOK
  <2>2. LimitersInv'
    BY <1>1, <1>2 DEF Inv, TypeOK, LimitersInv, InUse
  <2>3. BalanceInv'
    BY <1>1, <1>2 DEF Inv, BalanceInv, Balance, Budget, Past, Refill, Available
  <2> QED
    BY <2>1, <2>2, <2>3 DEF Inv
<1>3. ASSUME limiters[user[r]] = NoLimiter,
             NEW l \in Limiters \ InUse,
             limiters' = [limiters EXCEPT ![user[r]] = l],
             bucket' = [bucket EXCEPT ![l] = NewLimiter],
             held' = [held EXCEPT ![r] = l]
      PROVE  Inv'
  <2>1. /\ NewLimiter \in Bucket /\ l # NoLimiter
        /\ bucket'[l] = [tokens |-> Burst, last |-> now]
        /\ limiters'[user[r]] = l
        /\ \A v \in Users \ {user[r]} : limiters'[v] = limiters[v] /\ limiters[v] # l
        /\ \A m \in Limiters \ {l} : bucket'[m] = bucket[m]
    BY <1>1, <1>3, Constants, ConstantsAssumption DEF Inv, TypeOK, NewLimiter, Bucket, InUse
  <2>2. TypeOK'
    BY <1>1, <1>3, <2>1 DEF Inv, TypeOK
  <2>3. LimitersInv'
    <3>1. \A q \in Requests : pc'[q] = "allow" =>
            limiters'[user'[q]] # NoLimiter /\ held'[q] = limiters'[user'[q]]
      BY <1>1, <1>3, <2>1 DEF Inv, TypeOK, LimitersInv
    <3>2. \A v, w \in Users : limiters'[v] = limiters'[w] /\ limiters'[v] # NoLimiter => v = w
      BY <1>1, <1>3, <2>1 DEF Inv, LimitersInv
    <3>3. \A v \in Users : limiters'[v] # NoLimiter => bucket'[limiters'[v]].last <= now'
      <4> SUFFICES ASSUME NEW v \in Users, limiters'[v] # NoLimiter
                   PROVE  bucket'[limiters'[v]].last <= now
        BY <1>1
      <4>1. CASE v = user[r]
        BY <1>1, <2>1, <4>1
      <4>2. CASE v # user[r]
        BY <2>1, <4>2 DEF Inv, TypeOK, LimitersInv, InUse
      <4> QED
        BY <4>1, <4>2
    <3> QED
      BY <3>1, <3>2, <3>3 DEF LimitersInv, InUse
  <2>4. BalanceInv'
    <3>1. \A v \in Users \ {user[r]} : limiters[v] # NoLimiter =>
            Available(limiters[v])' = Available(limiters[v])
      BY <1>1, <2>1 DEF Inv, TypeOK, Available
    <3>2. Available(l)' = Burst
      <4>1. bucket'[l] \in Bucket /\ bucket'[l].last = now' /\ bucket'[l].tokens = Burst
        BY <1>1, <2>1 DEF NewLimiter
      <4>2. (now' - bucket'[l].last) * PerMinute = 0
        <5>1. now' - bucket'[l].last = 0 /\ 0 * PerMinute = 0
          BY <1>1, <4>1, Constants
        <5> QED
          BY <5>1
      <4> QED
        BY <4>1, <4>2, Constants DEF Available
    <3>3. \A s \in 0..now : MinuteTicks * since[user[r]][s] <= Past(s) + Refill(s)
      BY <1>1, <1>3 DEF Inv, BalanceInv
    <3>4. \A s \in 0..now : Balance(user[r], s)' = MinuteTicks * since[user[r]][s] + Burst
      BY <1>1, <2>1, <3>2 DEF Balance
    <3>5. \A s \in 0..now : Balance(user[r], s)' <= Budget(s)
      <4> SUFFICES ASSUME NEW s \in 0..now PROVE Balance(user[r], s)' <= Budget(s)
        OBVIOUS
      <4>1. /\ Past(s) \in Nat /\ Refill(s) \in Nat
            /\ MinuteTicks * since[user[r]][s] \in Nat
        BY <1>1, TermTypes DEF Inv
      <4> QED
        BY <3>3, <3>4, <4>1, Constants DEF Budget
    <3>6. \E s \in 0..now : Balance(user[r], s)' >= Burst + Refill(s)
      <4>1. PICK s \in 0..now : s = now
        BY <1>1
      <4>2. now - s = 0 /\ 0 * PerMinute = 0
        BY <1>1, <4>1, Constants
      <4>3. MinuteTicks * since[user[r]][s] \in Nat /\ Refill(s) = 0
        BY <1>1, <4>2, TermTypes DEF Inv, Refill
      <4> QED
        BY <3>4, <4>3, Constants
    <3>7. \A s \in 0..now : /\ Budget(s)' = Budget(s) /\ Refill(s)' = Refill(s)
                            /\ Past(s)' = Past(s)
      BY <1>1 DEF Budget, Past, Refill
    <3>8. \A v \in Users \ {user[r]} : limiters[v] # NoLimiter =>
            \A s \in 0..now : Balance(v, s)' = Balance(v, s)
      BY <1>1, <2>1, <3>1 DEF Balance
    <3>9. \A v \in Users : limiters'[v] # NoLimiter =>
            /\ \A s \in 0..now : Balance(v, s)' <= Budget(s)'
            /\ \E s \in 0..now : Balance(v, s)' >= Burst + Refill(s)'
      <4> SUFFICES ASSUME NEW v \in Users, limiters'[v] # NoLimiter
                   PROVE  /\ \A s \in 0..now : Balance(v, s)' <= Budget(s)'
                          /\ \E s \in 0..now : Balance(v, s)' >= Burst + Refill(s)'
        OBVIOUS
      <4>1. CASE v = user[r]
        <5>1. \A s \in 0..now : Balance(v, s)' = Balance(user[r], s)'
          BY <1>1, <4>1 DEF Balance
        <5> QED
          BY <3>5, <3>6, <3>7, <5>1
      <4>2. CASE v # user[r]
        BY <1>1, <2>1, <3>7, <3>8, <4>2 DEF Inv, BalanceInv
      <4> QED
        BY <4>1, <4>2
    <3>10. /\ \A v \in Users : limiters'[v] = NoLimiter =>
                 \A s \in 0..now : MinuteTicks * since'[v][s] <= Past(s)' + Refill(s)'
           /\ \A v \in Users : \A s \in 0..MaxTime : s > now' => since'[v][s] = 0
      BY <1>1, <2>1, <3>7 DEF Inv, BalanceInv
    <3> QED
      BY <1>1, <3>9, <3>10 DEF BalanceInv
  <2> QED
    BY <2>2, <2>3, <2>4 DEF Inv
<1> QED
  BY <1>2, <1>3 DEF Get

\* A token leaves the bucket exactly when the request is counted in every
\* stretch that has begun: the balance of each is kept.
LEMMA AdmitInv ==
  ASSUME Inv, NEW r \in Requests, Admit(r)
  PROVE  Inv'
<1>1. /\ user[r] \in Users /\ pc[r] = "allow" /\ now \in 0..MaxTime
      /\ pc' = [pc EXCEPT ![r] = "idle"] /\ UNCHANGED <<now, limiters, user, held, restarts>>
      /\ since \in [Users -> [0..MaxTime -> Nat]]
      /\ bucket \in [Limiters -> Bucket]
      /\ limiters \in [Users -> Limiters \cup {NoLimiter}]
  BY DEF Inv, TypeOK, Admit
<1> DEFINE l == limiters[user[r]]
<1>2. held[r] = l /\ l \in Limiters /\ l # NoLimiter
  BY <1>1, ConstantsAssumption DEF Inv, LimitersInv
<1>3. bucket[l] \in Bucket /\ bucket[l].last <= now
  BY <1>1, <1>2 DEF Inv, LimitersInv, InUse
<1>4. Available(l) \in 0..Burst /\ Available(l) >= MinuteTicks
  BY <1>1, <1>2, <1>3, AvailableType DEF Admit, Affordable
<1>5. /\ bucket' = [bucket EXCEPT ![l] =
                      [tokens |-> Available(l) - MinuteTicks, last |-> now]]
      /\ since' = [since EXCEPT ![user[r]] =
                     [s \in 0..MaxTime |-> IF s <= now THEN @[s] + 1 ELSE @[s]]]
  BY <1>2 DEF Admit
<1>6. bucket'[l] = [tokens |-> Available(l) - MinuteTicks, last |-> now]
      /\ bucket'[l] \in Bucket
  BY <1>1, <1>2, <1>4, <1>5, Constants DEF Bucket
<1>7. Available(l)' = Available(l) - MinuteTicks
  <2>1. l' = l
    BY <1>1
  <2>2. bucket'[l].tokens = Available(l) - MinuteTicks /\ bucket'[l].last = now
    BY <1>6
  <2>3. (now' - bucket'[l].last) * PerMinute = 0
    <3>1. now - now = 0 /\ 0 * PerMinute = 0
      BY <1>1, Constants
    <3> QED
      BY <1>1, <2>2, <3>1
  <2> QED
    BY <2>1, <2>2, <2>3, <1>4, Constants DEF Available
<1>8. /\ \A s \in 0..now : since'[user[r]][s] = since[user[r]][s] + 1
      /\ \A s \in 0..MaxTime : s > now => since'[user[r]][s] = since[user[r]][s]
      /\ \A v \in Users \ {user[r]} : since'[v] = since[v]
  BY <1>1, <1>5, Constants
<1>9. TypeOK'
  <2>1. since' \in [Users -> [0..MaxTime -> Nat]]
    <3> DEFINE count == since[user[r]]
    <3>1. count \in [0..MaxTime -> Nat]
      BY <1>1
    <3>2. [s \in 0..MaxTime |-> IF s <= now THEN count[s] + 1 ELSE count[s]]
            \in [0..MaxTime -> Nat]
      <4> HIDE DEF count
      <4>1. \A s \in 0..MaxTime : count[s] \in Nat /\ count[s] + 1 \in Nat
        BY <3>1
      <4> QED
        BY <4>1
    <3> QED
      BY <1>1, <1>5, <3>2
  <2>2. bucket' \in [Limiters -> Bucket]
    BY <1>1, <1>5, <1>6
  <2> QED
    BY <1>1, <2>1, <2>2 DEF Inv, TypeOK
<1>10. LimitersInv'
  BY <1>1, <1>2, <1>5, <1>6 DEF Inv, TypeOK, LimitersInv, InUse
<1>11. BalanceInv'
  <2>1. \A v \in Users \ {user[r]} : limiters[v] # NoLimiter =>
          Available(limiters[v])' = Available(limiters[v])
    <3> SUFFICES ASSUME NEW v \in Users \ {user[r]}, limiters[v] # NoLimiter
                 PROVE  Available(limiters[v])' = Available(limiters[v])
      OBVIOUS
    <3>1. limiters[v] # l
      BY <1>1 DEF Inv, LimitersInv
    <3>2. bucket'[limiters[v]] = bucket[limiters[v]]
      BY <1>1, <1>5, <3>1
    <3> QED
      BY <1>1, <3>2 DEF Available
  <2>2. \A s \in 0..now : Balance(user[r], s)' = Balance(user[r], s)
    <3> SUFFICES ASSUME NEW s \in 0..now
                 PROVE  Balance(user[r], s)' = Balance(user[r], s)
      OBVIOUS
    <3>1. since[user[r]][s] \in Nat /\ since'[user[r]][s] = since[user[r]][s] + 1
      <4>1. s \in 0..MaxTime
        BY <1>1, Constants
      <4> QED
        BY <1>1, <1>8, <4>1
    <3>2. MinuteTicks * (since[user[r]][s] + 1)
            = MinuteTicks * since[user[r]][s] + MinuteTicks
      <4>1. \A n \in Nat, m \in Nat : m * (n + 1) = m * n + m
        OBVIOUS
      <4>2. MinuteTicks \in Nat
        BY Constants
      <4> QED
        BY <3>1, <4>1, <4>2
    <3>3. MinuteTicks * since[user[r]][s] \in Nat
      BY <3>1, Constants, Products
    <3>4. Balance(user[r], s)' = MinuteTicks * (since[user[r]][s] + 1)
                                   + (Available(l) - MinuteTicks)
      BY <1>1, <1>7, <3>1 DEF Balance
    <3> HIDE DEF l
    <3>5. Balance(user[r], s) = MinuteTicks * since[user[r]][s] + Available(l)
      BY DEF Balance, l
    <3> QED
      BY <3>2, <3>3, <3>4, <3>5, <1>4, Constants
  <2>3. \A v \in Users \ {user[r]} : limiters[v] # NoLimiter =>
          \A s \in 0..now : Balance(v, s)' = Balance(v, s)
    BY <1>1, <1>8, <2>1 DEF Balance
  <2>4. \A v \in Users : limiters[v] # NoLimiter =>
          \A s \in 0..now : Balance(v, s)' = Balance(v, s)
    <3> SUFFICES ASSUME NEW v \in Users, limiters[v] # NoLimiter, NEW s \in 0..now
                 PROVE  Balance(v, s)' = Balance(v, s)
      OBVIOUS
    <3>1. CASE v = user[r]
      BY <1>1, <2>2, <3>1 DEF Balance
    <3>2. CASE v # user[r]
      BY <2>3, <3>2
    <3> QED
      BY <3>1, <3>2
  <2>5. \A s \in 0..now : /\ Budget(s)' = Budget(s) /\ Refill(s)' = Refill(s)
                          /\ Past(s)' = Past(s)
    BY <1>1 DEF Budget, Past, Refill
  <2>6. \A v \in Users : limiters'[v] # NoLimiter =>
          /\ \A s \in 0..now : Balance(v, s)' <= Budget(s)'
          /\ \E s \in 0..now : Balance(v, s)' >= Burst + Refill(s)'
    BY <1>1, <2>4, <2>5 DEF Inv, BalanceInv
  <2>7. \A v \in Users : limiters'[v] = NoLimiter =>
          \A s \in 0..now : MinuteTicks * since'[v][s] <= Past(s)' + Refill(s)'
    BY <1>1, <1>2, <1>8, <2>5 DEF Inv, BalanceInv
  <2>8. \A v \in Users : \A s \in 0..MaxTime : s > now' => since'[v][s] = 0
    BY <1>1, <1>8 DEF Inv, BalanceInv
  <2> QED
    BY <1>1, <2>6, <2>7, <2>8 DEF BalanceInv
<1> QED
  BY <1>9, <1>10, <1>11 DEF Inv

\* A tick refills at most what it adds to the budget of every stretch that has
\* begun; if the bucket is full then, the stretch that begins now is balanced.
LEMMA TickInv ==
  ASSUME Inv, Tick
  PROVE  Inv'
<1>1. /\ now \in 0..MaxTime /\ now < MaxTime /\ now' = now + 1 /\ now' \in 0..MaxTime
      /\ UNCHANGED <<limiters, bucket, pc, user, held, since, restarts>>
      /\ since \in [Users -> [0..MaxTime -> Nat]]
      /\ bucket \in [Limiters -> Bucket]
      /\ limiters \in [Users -> Limiters \cup {NoLimiter}]
  BY Constants DEF Inv, TypeOK, Tick
<1>2. TypeOK'
  BY <1>1 DEF Inv, TypeOK
<1>3. LimitersInv'
  <2>1. \A l \in InUse \ {NoLimiter} : l \in Limiters /\ bucket[l].last \in Nat
    BY <1>1 DEF InUse, Bucket
  <2>2. \A l \in InUse \ {NoLimiter} : bucket[l].last <= now + 1
    BY <1>1, <2>1 DEF Inv, LimitersInv
  <2> QED
    BY <1>1, <2>2 DEF Inv, LimitersInv, InUse
<1>4. \A s \in 0..now : /\ Refill(s)' = Refill(s) + PerMinute /\ Past(s)' = Past(s)
                        /\ Refill(s) \in Nat /\ Past(s) \in Nat
  <2> SUFFICES ASSUME NEW s \in 0..now
               PROVE  /\ Refill(s)' = Refill(s) + PerMinute /\ Past(s)' = Past(s)
                      /\ Refill(s) \in Nat /\ Past(s) \in Nat
    OBVIOUS
  <2>1. now - s \in Nat /\ now' - s = (now - s) + 1 /\ PerMinute \in Nat
    BY <1>1, Constants
  <2>2. \A n \in Nat, m \in Nat : (n + 1) * m = n * m + m
    OBVIOUS
  <2>3. ((now - s) + 1) * PerMinute = (now - s) * PerMinute + PerMinute
    BY <2>1, <2>2
  <2>4. Refill(s)' = ((now - s) + 1) * PerMinute
    BY <2>1 DEF Refill
  <2> QED
    BY <1>1, <2>3, <2>4, TermTypes DEF Inv, Refill, Past
<1>0. PICK next \in 0..MaxTime : next = now + 1
  BY <1>1
<1>5. Refill(next)' = 0 /\ Past(next)' \in Nat
  <2>1. now' - next = 0 /\ 0 * PerMinute = 0 /\ now' = next
    BY <1>1, <1>0, Constants
  <2>2. restarts[next] \in Nat /\ Burst \in Nat /\ \A a, b \in Nat : a * b \in Nat
    BY Constants DEF Inv, TypeOK
  <2>3. Past(next)' = restarts[next] * Burst
    BY <1>1, <1>0 DEF Past
  <2> QED
    BY <2>1, <2>2, <2>3 DEF Refill
<1>6. \A v \in Users : \A s \in 0..MaxTime : s > now' => since'[v][s] = 0
  BY <1>1 DEF Inv, BalanceInv
<1>7. ASSUME NEW v \in Users, limiters[v] # NoLimiter
      PROVE  /\ \A s \in 0..now' : Balance(v, s)' <= Budget(s)'
             /\ \E s \in 0..now' : Balance(v, s)' >= Burst + Refill(s)'
  <2> DEFINE l == limiters[v]
  <2>1. l \in Limiters /\ bucket[l] \in Bucket /\ bucket[l].last <= now
    BY <1>1, <1>7 DEF Inv, LimitersInv, InUse
  <2>2. Available(l) \in 0..Burst
    BY <1>1, <2>1, AvailableType
  <2>3. Available(limiters[v])' = IF Available(l) + PerMinute < Burst
                                  THEN Available(l) + PerMinute ELSE Burst
    <3>1. \A m : bucket[m] \in Bucket /\ bucket[m].last <= now =>
            Available(m)' = IF Available(m) + PerMinute < Burst
                            THEN Available(m) + PerMinute ELSE Burst
      BY <1>1, AvailableTick
    <3>2. Available(limiters[v])' = Available(l)'
      OBVIOUS
    <3> QED
      BY <1>1, <2>1, <3>1 DEF Available
  <2>4. \A s \in 0..MaxTime : MinuteTicks * since[v][s] \in Nat
    <3>1. \A n \in Nat, m \in Nat : n * m \in Nat
      OBVIOUS
    <3> QED
      BY <1>1, <3>1, Constants
  <2>5. \A s \in 0..MaxTime : Balance(v, s)' = MinuteTicks * since[v][s] + Available(limiters[v])'
    BY <1>1 DEF Balance
  <2>6. \A s \in 0..now : s \in 0..MaxTime /\ Balance(v, s) <= Budget(s)
    BY <1>1, <1>7, Constants DEF Inv, BalanceInv
  <2>7. since[v][next] = 0 /\ MinuteTicks * 0 = 0
    BY <1>1, <1>0, Constants DEF Inv, BalanceInv
  <2>8. Balance(v, next)' = Available(limiters[v])'
    BY <2>2, <2>3, <2>5, <2>7, Constants
  <2> HIDE DEF l
  <2>9. \A s \in 0..now : Balance(v, s)' <= Budget(s)'
    <3> SUFFICES ASSUME NEW s \in 0..now PROVE Balance(v, s)' <= Budget(s)'
      OBVIOUS
    <3>1. Balance(v, s) = MinuteTicks * since[v][s] + Available(l)
      BY DEF Balance, l
    <3> QED
      BY <1>4, <2>2, <2>3, <2>4, <2>5, <2>6, <3>1, Constants DEF Budget
  <2>10. Balance(v, next)' <= Budget(next)'
    BY <1>5, <2>2, <2>3, <2>8, Constants DEF Budget
  <2>11. \A s \in 0..now' : Balance(v, s)' <= Budget(s)'
    <3>1. \A s \in 0..now' : s \in 0..now \/ s = next
      BY <1>1, <1>0
    <3> QED
      BY <2>9, <2>10, <3>1
  <2>12. \E s \in 0..now' : Balance(v, s)' >= Burst + Refill(s)'
    <3>1. CASE Available(l) + PerMinute < Burst
      <4>1. PICK s \in 0..now : Balance(v, s) >= Burst + Refill(s)
        BY <1>7 DEF Inv, BalanceInv
      <4>2. s \in 0..now' /\ s \in 0..MaxTime /\ MinuteTicks * since[v][s] \in Nat
        BY <1>1, <2>4, <2>6
      <4>3. Balance(v, s) = MinuteTicks * since[v][s] + Available(l)
        BY DEF Balance, l
      <4>4. Balance(v, s)' = MinuteTicks * since[v][s] + (Available(l) + PerMinute)
        BY <2>3, <2>5, <3>1, <4>2
      <4>5. Balance(v, s)' >= Burst + Refill(s)'
        BY <1>4, <2>2, <4>1, <4>2, <4>3, <4>4, Constants
      <4> QED
        BY <4>2, <4>5
    <3>2. CASE ~(Available(l) + PerMinute < Burst)
      <4>1. Balance(v, next)' >= Burst + Refill(next)' /\ next \in 0..now'
        BY <1>1, <1>0, <1>5, <2>3, <2>8, <3>2, Constants
      <4> QED
        BY <1>1, <4>1
    <3> QED
      BY <3>1, <3>2
  <2> QED
    BY <2>11, <2>12
<1>8. ASSUME NEW v \in Users, limiters[v] = NoLimiter, NEW s \in 0..now'
      PROVE  MinuteTicks * since[v][s] <= Past(s)' + Refill(s)'
  <2>1. CASE s \in 0..now
    <3>1. MinuteTicks * since[v][s] <= Past(s) + Refill(s)
      BY <1>8, <2>1 DEF Inv, BalanceInv
    <3>2. MinuteTicks * since[v][s] \in Nat
      BY <2>1, TermTypes DEF Inv
    <3> QED
      BY <1>4, <2>1, <3>1, <3>2, Constants
  <2>2. CASE s = next
    <3>1. since[v][s] = 0 /\ MinuteTicks * 0 = 0
      BY <1>1, <1>0, <2>2, Constants DEF Inv, BalanceInv
    <3> QED
      BY <1>5, <2>2, <3>1
  <2> QED
    BY <1>1, <1>0, <2>1, <2>2
<1>9. BalanceInv'
  BY <1>1, <1>6, <1>7, <1>8 DEF Inv, BalanceInv
<1> QED
  BY <1>2, <1>3, <1>9 DEF Inv

\* A restart forgives what the buckets lacked, which the budget of every stretch
\* that has begun is given one burst more for.
LEMMA RestartInv ==
  ASSUME Inv, Restart
  PROVE  Inv'
<1>1. /\ now \in 0..MaxTime /\ UNCHANGED <<now, user, since>>
      /\ limiters' = [u \in Users |-> NoLimiter]
      /\ bucket' = [l \in Limiters |-> NewLimiter]
      /\ pc' = [r \in Requests |-> "idle"]
      /\ held' = [r \in Requests |-> NoLimiter]
      /\ restarts \in [0..MaxTime -> Nat]
      /\ restarts' = [s \in 0..MaxTime |-> IF s <= now THEN restarts[s] + 1 ELSE restarts[s]]
  BY DEF Inv, TypeOK, Restart
<1>2. TypeOK'
  <2>1. NewLimiter \in Bucket
    BY <1>1, Constants DEF NewLimiter, Bucket
  <2>2. restarts' \in [0..MaxTime -> Nat]
    <3>1. \A s \in 0..MaxTime : restarts[s] \in Nat /\ restarts[s] + 1 \in Nat
      BY <1>1
    <3> QED
      BY <1>1, <3>1
  <2> QED
    BY <1>1, <2>1, <2>2 DEF Inv, TypeOK
<1>3. LimitersInv'
  BY <1>1 DEF LimitersInv, InUse
<1>4. ASSUME NEW u \in Users, NEW s \in 0..now
      PROVE  MinuteTicks * since[u][s] <= Past(s)' + Refill(s)'
  <2>1. /\ s \in 0..MaxTime /\ Past(s) \in Nat /\ Refill(s) \in Nat
        /\ MinuteTicks * since[u][s] \in Nat
    BY TermTypes DEF Inv
  <2>2. Past(s)' = Past(s) + Burst
    <3>1. restarts'[s] = restarts[s] + 1 /\ restarts[s] \in Nat /\ Burst \in Nat
      BY <1>1, <2>1, Constants
    <3>2. \A a, b \in Nat : (a + 1) * b = a * b + b
      OBVIOUS
    <3> QED
      BY <3>1, <3>2 DEF Past
  <2>3. Refill(s)' = Refill(s)
    BY <1>1 DEF Refill
  <2>4. CASE limiters[u] = NoLimiter
    <3>1. MinuteTicks * since[u][s] <= Past(s) + Refill(s)
      BY <2>4 DEF Inv, BalanceInv
    <3> QED
      BY <2>1, <2>2, <2>3, <3>1, Constants
  <2>5. CASE limiters[u] # NoLimiter
    <3>1. Balance(u, s) <= Budget(s)
      BY <2>5 DEF Inv, BalanceInv
    <3>2. limiters[u] \in Limiters /\ bucket[limiters[u]] \in Bucket
          /\ bucket[limiters[u]].last <= now
      BY <2>5 DEF Inv, TypeOK, LimitersInv, InUse
    <3>3. Available(limiters[u]) \in 0..Burst
      BY <1>1, <3>2, AvailableType
    <3> QED
      BY <2>1, <2>2, <2>3, <3>1, <3>3, Constants DEF Balance, Budget
  <2> QED
    BY <2>4, <2>5
<1>5. BalanceInv'
  BY <1>1, <1>4 DEF Inv, BalanceInv
<1> QED
  BY <1>2, <1>3, <1>5 DEF Inv

LEMMA NextInv ==
  ASSUME Inv, [Next]_vars
  PROVE  Inv'
<1>1. CASE UNCHANGED vars
  <2>1. TypeOK'
    BY <1>1 DEF vars, Inv, TypeOK
  <2>2. LimitersInv'
    BY <1>1 DEF vars, Inv, LimitersInv, InUse
  <2>3. BalanceInv'
    BY <1>1 DEF vars, Inv, BalanceInv, Balance, Budget, Past, Refill, Available
  <2> QED
    BY <2>1, <2>2, <2>3 DEF Inv
<1>2. CASE Next
  BY <1>2, StartInv, GetInv, AdmitInv, RefuseInv, TickInv, RestartInv DEF Next
<1> QED
  BY <1>1, <1>2

LEMMA Invariance == Spec => []Inv
BY InitInv, NextInv, PTL DEF Spec

-----------------------------------------------------------------------------
\* Every variable keeps its type.
THEOREM TypeCorrect == Spec => []TypeOK
<1>1. Inv => TypeOK
  BY DEF Inv
<1> QED
  BY <1>1, Invariance, PTL

\* However the requests of a user interleave, over every stretch of time they
\* are admitted at most the burst, the stretch's refill, and a burst for each
\* restart: a limiter is never made twice for one user in one process, and a
\* token is never taken twice.
THEOREM AdmissionBounded == Spec => []AdmissionBound
<1>1. ASSUME Inv, NEW u \in Users, NEW s \in 0..now
      PROVE  MinuteTicks * since[u][s] <= (1 + restarts[s]) * Burst + (now - s) * PerMinute
  <2>1. /\ s \in 0..MaxTime /\ Past(s) \in Nat /\ Refill(s) \in Nat
        /\ MinuteTicks * since[u][s] \in Nat
    BY <1>1, TermTypes DEF Inv
  <2>2. (1 + restarts[s]) * Burst = Past(s) + Burst
    <3>1. restarts[s] \in Nat /\ Burst \in Nat
      BY <1>1, <2>1, Constants DEF Inv, TypeOK
    <3>2. \A a, b \in Nat : (1 + a) * b = a * b + b
      OBVIOUS
    <3> QED
      BY <3>1, <3>2 DEF Past
  <2>3. MinuteTicks * since[u][s] <= Past(s) + Burst + Refill(s)
    <3>1. CASE limiters[u] = NoLimiter
      <4>1. MinuteTicks * since[u][s] <= Past(s) + Refill(s)
        BY <1>1, <3>1 DEF Inv, BalanceInv
      <4> QED
        BY <2>1, <4>1, Constants
    <3>2. CASE limiters[u] # NoLimiter
      <4>1. Balance(u, s) <= Budget(s)
        BY <1>1, <3>2 DEF Inv, BalanceInv
      <4>2. limiters[u] \in Limiters /\ bucket[limiters[u]] \in Bucket
            /\ bucket[limiters[u]].last <= now /\ now \in 0..MaxTime
        BY <1>1, <3>2 DEF Inv, TypeOK, LimitersInv, InUse
      <4>3. Available(limiters[u]) \in 0..Burst
        BY <4>2, AvailableType
      <4> QED
        BY <2>1, <4>1, <4>3, Constants DEF Balance, Budget
    <3> QED
      BY <3>1, <3>2
  <2> QED
    BY <2>2, <2>3 DEF Refill
<1>2. Inv => AdmissionBound
  BY <1>1 DEF AdmissionBound
<1> QED
  BY <1>2, Invariance, PTL

\* Nobody is refused for what others have used: a 429 goes only to a user who
\* has had the whole budget of some stretch of time that ends now.
THEOREM RefusalsEarned == Spec => RefusalsAreEarned
<1>1. ASSUME Inv, NEW r \in Requests, Refuse(r)
      PROVE  Exhausted(user[r])
  <2> DEFINE u == user[r]
  <2>1. /\ u \in Users /\ now \in 0..MaxTime /\ since \in [Users -> [0..MaxTime -> Nat]]
        /\ bucket \in [Limiters -> Bucket]
        /\ limiters[u] \in Limiters \cup {NoLimiter}
    BY <1>1 DEF Inv, TypeOK
  <2>2. limiters[u] # NoLimiter /\ held[r] = limiters[u]
    BY <1>1 DEF Inv, LimitersInv, Refuse
  <2>3. ~(Available(limiters[u]) >= MinuteTicks)
    BY <1>1, <2>2 DEF Refuse, Affordable
  <2>4. PICK s \in 0..now : Balance(u, s) >= Burst + Refill(s)
    BY <1>1, <2>1, <2>2 DEF Inv, BalanceInv
  <2>5. Available(limiters[u]) \in 0..Burst
    BY <1>1, <2>1, <2>2, AvailableType DEF Inv, LimitersInv, InUse
  <2>6. since[u][s] \in Nat /\ Refill(s) \in Nat
    BY <1>1, <2>1, TermTypes DEF Inv
  <2>7. /\ MinuteTicks * (since[u][s] + 1) = MinuteTicks * since[u][s] + MinuteTicks
        /\ MinuteTicks * since[u][s] \in Nat
    <3>1. \A n \in Nat, m \in Nat : m * (n + 1) = m * n + m /\ m * n \in Nat
      OBVIOUS
    <3>2. MinuteTicks \in Nat
      BY Constants
    <3> QED
      BY <2>6, <3>1, <3>2
  <2>8. Balance(u, s) = MinuteTicks * since[u][s] + Available(limiters[u])
    BY DEF Balance
  <2> HIDE DEF u
  <2>9. MinuteTicks * (since[u][s] + 1) > Burst + Refill(s)
    BY <2>3, <2>4, <2>5, <2>6, <2>7, <2>8, Constants
  <2> QED
    BY <2>9 DEF Exhausted, Refill, u
<1>2. Inv => \A r \in Requests : Refuse(r) => Exhausted(user[r])
  BY <1>1
<1>3. Inv /\ [Next]_vars => [\A r \in Requests : Refuse(r) => Exhausted(user[r])]_vars
  BY <1>2
<1> QED
  BY <1>3, Invariance, PTL DEF Spec, RefusalsAreEarned
=============================================================================
