------------------------- MODULE TaskListCacheProofs -------------------------
(***************************************************************************)
(* Theorems about TaskListCache, for any number of clients and filters,    *)
(* any TTL, and any number of writes and failures.                         *)
(***************************************************************************)
EXTENDS TaskListCache, TLAPS

\* A slice that is not registered has an excuse: this is what keeps a later
\* write from missing a slice for no reason.
OrphansExcused ==
  \A k \in Keys : Live(k) /\ k \notin registered => excuse[k] # "none"

Inv == TypeOK /\ RegistryOutlivesSlices /\ OrphansExcused /\ StaleIsExplained

\* Redis as it is seen by a step that only moves clients.
LEMMA SameRedis ==
  ASSUME Inv, UNCHANGED <<version, redis>>,
         \A w \in Writers : pc'[w] = pc[w] /\ found'[w] = found[w]
  PROVE  RegistryOutlivesSlices' /\ OrphansExcused' /\ StaleIsExplained'
BY DEF Inv, redis, RegistryOutlivesSlices, OrphansExcused, StaleIsExplained,
       Stale, Live, WillDelete

LEMMA InitInv == Init => Inv
<1> SUFFICES ASSUME Init PROVE Inv
  OBVIOUS
<1>1. TypeOK
  BY ConstantsAssumption DEF Init, TypeOK
<1> QED
  BY <1>1 DEF Init, Inv, RegistryOutlivesSlices, OrphansExcused, StaleIsExplained,
              Stale, Live

\* List's steps but the last, and its errors, leave Redis alone.
LEMMA ReaderInv ==
  ASSUME Inv, NEW r \in Readers,
         \/ \E k \in Keys : List(r, k)
         \/ Authorize(r) \/ Get(r) \/ Select(r) \/ ReaderError(r)
  PROVE  Inv'
<1>1. TypeOK'
  <2> USE DEF Inv, TypeOK, redis, Clients, Goto
  <2>1. CASE \E k \in Keys : List(r, k)
    BY <2>1 DEF List
  <2>2. CASE Authorize(r)
    BY <2>2 DEF Authorize
  <2>3. CASE Get(r)
    BY <2>3 DEF Get
  <2>4. CASE Select(r)
    BY <2>4 DEF Select
  <2>5. CASE ReaderError(r)
    BY <2>5, ConstantsAssumption DEF ReaderError, Error
  <2> QED
    BY <2>1, <2>2, <2>3, <2>4, <2>5
<1>2. UNCHANGED <<version, redis, found>>
  BY DEF List, Authorize, Get, Select, ReaderError, redis
<1>3. \A w \in Writers : pc'[w] = pc[w]
  BY ConstantsAssumption
     DEF Inv, TypeOK, Clients, Goto, List, Authorize, Get, Select, ReaderError
<1> QED
  BY <1>1, <1>2, <1>3, SameRedis DEF Inv

\* A filled slice is registered, lives no longer than the set, and is either
\* up to date or known to be late.
LEMMA SetInv ==
  ASSUME Inv, NEW r \in Readers, Set(r)
  PROVE  Inv'
<1> USE DEF Set, Register, Goto
<1>1. key[r] \in Keys /\ seen[r] \in 0..MaxWrites /\ TTL \in 1..TTL
  BY ConstantsAssumption DEF Inv, TypeOK
<1>2. /\ slice'[key[r]] = [value |-> seen[r], ttl |-> TTL]
      /\ slice'[key[r]] \in Entry
      /\ excuse'[key[r]] = IF seen[r] = version THEN "none" ELSE "late"
      /\ \A k \in Keys \ {key[r]} : slice'[k] = slice[k] /\ excuse'[k] = excuse[k]
      /\ registered' = registered \cup {key[r]} /\ regTTL' = TTL
      /\ UNCHANGED <<version, found>>
  BY <1>1 DEF Inv, TypeOK, Entry
<1>3. TypeOK'
  BY <1>1, <1>2 DEF Inv, TypeOK, Clients
<1>4. RegistryOutlivesSlices'
  BY <1>1, <1>2 DEF Inv, TypeOK, RegistryOutlivesSlices, Live, Entry
<1>5. OrphansExcused'
  BY <1>1, <1>2 DEF Inv, OrphansExcused, Live
<1>6. \A w \in Writers : pc'[w] = pc[w]
  BY ConstantsAssumption DEF Inv, TypeOK, Clients
<1>7. StaleIsExplained'
  BY <1>1, <1>2, <1>6 DEF Inv, StaleIsExplained, Stale, Live, WillDelete
<1> QED
  BY <1>3, <1>4, <1>5, <1>7 DEF Inv

\* A COMMIT makes slices stale, and its writer is about to find them.
LEMMA CommitInv ==
  ASSUME Inv, NEW w \in Writers, Commit(w)
  PROVE  Inv'
<1> USE DEF Commit, Goto, redis
<1>1. TypeOK'
  BY ConstantsAssumption DEF Inv, TypeOK, Clients
<1>2. RegistryOutlivesSlices' /\ OrphansExcused'
  BY DEF Inv, RegistryOutlivesSlices, OrphansExcused, Live
<1>3. pc'[w] = "smembers"
  BY DEF Inv, TypeOK, Clients
<1>4. \A k \in Keys : Live(k)' /\ excuse'[k] = "none" => WillDelete(w, k)'
  BY <1>3 DEF Inv, OrphansExcused, Live, WillDelete
<1> QED
  BY <1>1, <1>2, <1>4 DEF Inv, StaleIsExplained, Stale

LEMMA SMembersInv ==
  ASSUME Inv, NEW w \in Writers, SMembers(w)
  PROVE  Inv'
<1> USE DEF SMembers, Goto, redis
<1>1. TypeOK'
  BY DEF Inv, TypeOK, Clients
<1>2. RegistryOutlivesSlices' /\ OrphansExcused'
  BY DEF Inv, RegistryOutlivesSlices, OrphansExcused, Live
<1>3. \A k \in Keys, v \in Writers : WillDelete(v, k) => WillDelete(v, k)'
  BY DEF Inv, TypeOK, Clients, WillDelete
<1> QED
  BY <1>1, <1>2, <1>3 DEF Inv, StaleIsExplained, Stale, Live

\* A DEL that misses a registered slice orphans it.
LEMMA DelInv ==
  ASSUME Inv, NEW w \in Writers, Del(w)
  PROVE  Inv'
<1> USE DEF Del, Goto
<1>1. /\ \A k \in Keys : slice'[k] = IF k \in found[w] THEN Absent ELSE slice[k]
      /\ \A k \in Keys : excuse'[k] = CASE k \in found[w]              -> "none"
                                       [] k \in registered \ found[w] -> "orphaned"
                                       [] OTHER                       -> excuse[k]
      /\ registered' = {} /\ version' = version
  OBVIOUS
<1>2. TypeOK'
  BY ConstantsAssumption DEF Inv, TypeOK, Clients
<1>3. OrphansExcused'
  BY <1>1 DEF Inv, OrphansExcused, Live
<1>4. StaleIsExplained'
  <2> SUFFICES ASSUME NEW k \in Keys, Stale(k)', excuse'[k] = "none"
               PROVE  \E v \in Writers : WillDelete(v, k)'
    BY DEF StaleIsExplained
  <2>1. k \notin found[w] /\ k \notin registered /\ Live(k) /\ excuse[k] = "none"
    BY <1>1 DEF Stale, Live
  <2> QED
    BY <2>1 DEF Inv, OrphansExcused
<1> QED
  BY <1>1, <1>2, <1>3, <1>4 DEF Inv, RegistryOutlivesSlices

\* What expires with the set has expired before.
LEMMA TickInv ==
  ASSUME Inv, Tick
  PROVE  Inv'
<1> USE DEF Tick
<1>1. /\ \A k \in Keys : slice'[k] = IF Live(k) /\ slice[k].ttl > 1
                                    THEN [slice[k] EXCEPT !.ttl = @ - 1] ELSE Absent
      /\ \A k \in Keys : excuse'[k] = IF slice'[k] = Absent THEN "none" ELSE excuse[k]
      /\ regTTL' = IF regTTL = 0 THEN 0 ELSE regTTL - 1
      /\ registered' = IF regTTL' = 0 THEN {} ELSE registered
      /\ UNCHANGED <<version, pc, found>>
  OBVIOUS
<1>2. ASSUME NEW k \in Keys
      PROVE  /\ slice'[k] \in Entry \cup {Absent}
             /\ Live(k)' => /\ Live(k)
                            /\ slice[k].ttl \in 2..TTL
                            /\ slice'[k].value = slice[k].value
                            /\ slice'[k].ttl = slice[k].ttl - 1
                            /\ excuse'[k] = excuse[k]
  <2>1. slice[k] \in Entry \cup {Absent}
    BY DEF Inv, TypeOK
  <2>2. CASE Live(k) /\ slice[k].ttl > 1
    BY <1>1, <2>1, <2>2, AbsentAssumption, ConstantsAssumption DEF Live, Entry
  <2>3. CASE ~(Live(k) /\ slice[k].ttl > 1)
    BY <1>1, <2>3 DEF Live
  <2> QED
    BY <2>2, <2>3
<1>3. TypeOK'
  <2>1. slice' \in [Keys -> Entry \cup {Absent}]
    BY <1>2
  <2>2. regTTL' \in 0..TTL /\ registered' \subseteq Keys
    BY <1>1, ConstantsAssumption DEF Inv, TypeOK
  <2>3. excuse' \in [Keys -> {"none", "late", "orphaned", "skipped"}]
    BY DEF Inv, TypeOK
  <2> QED
    BY <2>1, <2>2, <2>3 DEF Inv, TypeOK
<1>4. ASSUME NEW k \in registered, Live(k)'
      PROVE  slice'[k].ttl <= regTTL' /\ k \in registered'
  <2>1. k \in Keys /\ regTTL \in 0..TTL
    BY DEF Inv, TypeOK
  <2>2. slice[k].ttl \in 2..TTL /\ slice[k].ttl <= regTTL /\ slice'[k].ttl = slice[k].ttl - 1
    BY <1>2, <1>4, <2>1 DEF Inv, RegistryOutlivesSlices
  <2> QED
    BY <1>1, <2>1, <2>2, ConstantsAssumption
<1>5. RegistryOutlivesSlices'
  BY <1>1, <1>4 DEF RegistryOutlivesSlices
<1>6. OrphansExcused'
  BY <1>2, <1>4 DEF Inv, OrphansExcused
<1>7. StaleIsExplained'
  <2> SUFFICES ASSUME NEW k \in Keys, Stale(k)', excuse'[k] = "none"
               PROVE  \E w \in Writers : WillDelete(w, k)'
    BY DEF StaleIsExplained
  <2>1. Stale(k) /\ excuse[k] = "none" /\ Live(k)'
    BY <1>1, <1>2 DEF Stale
  <2>2. PICK w \in Writers : WillDelete(w, k)
    BY <2>1 DEF Inv, StaleIsExplained
  <2>3. WillDelete(w, k)'
    BY <1>1, <1>4, <2>1, <2>2 DEF WillDelete
  <2> QED
    BY <2>3
<1> QED
  BY <1>3, <1>5, <1>6, <1>7 DEF Inv

\* Every live slice is excused when a committed write does not invalidate.
LEMMA LeaveBehindInv ==
  ASSUME Inv, LeaveBehind, TypeOK'
  PROVE  Inv'
<1>1. \A k \in Keys : Live(k) => Live(k)' /\ excuse'[k] = "skipped"
  BY DEF LeaveBehind, Live
<1>2. \A k \in Keys : Live(k)' => Live(k)
  BY DEF LeaveBehind, Live
<1>3. RegistryOutlivesSlices'
  BY <1>2 DEF LeaveBehind, Inv, RegistryOutlivesSlices, TypeOK
<1> QED
  BY <1>1, <1>2, <1>3 DEF Inv, OrphansExcused, StaleIsExplained, Stale

LEMMA WriterErrorInv ==
  ASSUME Inv, NEW w \in Writers, CommitUnacknowledged(w) \/ InvalidationError(w)
  PROVE  Inv'
<1>1. LeaveBehind
  BY DEF CommitUnacknowledged, InvalidationError
<1>2. excuse' \in [Keys -> {"none", "late", "orphaned", "skipped"}]
  BY <1>1 DEF Inv, TypeOK, LeaveBehind
<1>3. errors' \in 0..MaxErrors
  BY ConstantsAssumption DEF Inv, TypeOK, CommitUnacknowledged, InvalidationError, Error
<1>4. TypeOK'
  BY <1>1, <1>2, <1>3, ConstantsAssumption
     DEF Inv, TypeOK, Clients, Goto, LeaveBehind, CommitUnacknowledged, InvalidationError
<1> QED
  BY <1>1, <1>4, LeaveBehindInv

LEMMA CrashInv ==
  ASSUME Inv, Crash
  PROVE  Inv'
<1>1. excuse' \in [Keys -> {"none", "late", "orphaned", "skipped"}]
  BY DEF Inv, TypeOK, Crash, LeaveBehind, redis
<1>2. errors' \in 0..MaxErrors
  BY ConstantsAssumption DEF Inv, TypeOK, Crash, Error
<1>3. UNCHANGED <<version, slice, registered, regTTL, key, seen>>
  BY DEF Crash, LeaveBehind, redis
<1>4. TypeOK'
  BY <1>1, <1>2, <1>3 DEF Inv, TypeOK, Crash
<1>5. CASE \E w \in Writers : pc[w] # "idle"
  BY <1>4, <1>5, LeaveBehindInv DEF Crash
<1>6. CASE ~\E w \in Writers : pc[w] # "idle"
  <2>1. UNCHANGED <<version, redis>>
    BY <1>6 DEF Crash
  <2>2. ~\E w \in Writers, k \in Keys : WillDelete(w, k)
    BY <1>6 DEF WillDelete
  <2> QED
    BY <1>4, <2>1, <2>2 DEF Inv, redis, RegistryOutlivesSlices, OrphansExcused,
                            StaleIsExplained, Stale, Live
<1> QED
  BY <1>5, <1>6

LEMMA NextInv == Inv /\ [Next]_vars => Inv'
<1> SUFFICES ASSUME Inv, [Next]_vars PROVE Inv'
  OBVIOUS
<1>1. CASE \E r \in Readers : (\E k \in Keys : List(r, k)) \/ Serve(r) \/ ReaderError(r)
  BY <1>1, ReaderInv, SetInv DEF Serve
<1>2. CASE \E w \in Writers : Commit(w) \/ Invalidate(w)
  BY <1>2, CommitInv, SMembersInv, DelInv DEF Invalidate
<1>3. CASE \E w \in Writers : CommitUnacknowledged(w) \/ InvalidationError(w)
  BY <1>3, WriterErrorInv
<1>4. CASE Tick
  BY <1>4, TickInv
<1>5. CASE Crash
  BY <1>5, CrashInv
<1>6. CASE UNCHANGED vars
  <2>1. TypeOK'
    BY <1>6 DEF Inv, TypeOK, vars
  <2> QED
    BY <1>6, <2>1, SameRedis DEF Inv, vars, redis
<1> QED
  BY <1>1, <1>2, <1>3, <1>4, <1>5, <1>6 DEF Next

LEMMA SpecInv == Spec => []Inv
BY InitInv, NextInv, PTL DEF Spec

\* Every variable keeps its type, however many writes and failures there are.
THEOREM TypeCorrect == Spec => []TypeOK
<1>1. Inv => TypeOK
  BY DEF Inv
<1> QED
  BY <1>1, SpecInv, PTL

\* List never serves a stale slice for any reason but the three known ones, and
\* a write in progress.
THEOREM StaleSlicesExplained == Spec => []StaleIsExplained
<1>1. Inv => StaleIsExplained
  BY DEF Inv
<1> QED
  BY <1>1, SpecInv, PTL

\* The team's set lives at least as long as every slice it registers, so that
\* expiry never takes a slice out of the reach of an invalidation.
THEOREM RegistryLifetime == Spec => []RegistryOutlivesSlices
<1>1. Inv => RegistryOutlivesSlices
  BY DEF Inv
<1> QED
  BY <1>1, SpecInv, PTL
=============================================================================
