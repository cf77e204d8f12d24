------------------------- MODULE EmailBreakerProofs -------------------------
(***************************************************************************)
(* Theorems about EmailBreaker, for any number of callers and any          *)
(* configuration of the breaker.                                           *)
(***************************************************************************)
EXTENDS EmailBreaker, FiniteSetTheorems, TLAPS

\* A call that the breaker still listens to is on its way.
CurrentInv == \A c \in current : pc[c] \in {"send", "sent", "failed"}

\* The half-open circuit has let one call through at most, half-open.
ProbeInv ==
  state = "half-open" =>
    /\ requests = 0 => current = {}
    /\ current = {} \/ \E c \in Callers : current = {c} /\ began[c] = "half-open"

\* Every send since the last success has failed and is counted, or is on its way.
StreakInv == streak <= failures + Cardinality(current)

Inv == TypeOK /\ CurrentInv /\ ProbeInv /\ StreakInv

-----------------------------------------------------------------------------
\* uint32 of any threshold is a count, and 3 stands in for none.
LEMMA ThresholdType == Threshold \in Nat \ {0}
<1>1. Wrap \in Nat /\ Wrap > 3 /\ Configured \in Int
  BY ConstantsAssumption
<1>2. Configured % Wrap \in Nat
  BY <1>1
<1> QED
  BY <1>2 DEF Threshold

LEMMA CallersFinite == IsFiniteSet(Callers) /\ Timeout \in Nat \ {0}
BY ConstantsAssumption

\* The size of a set of callers, and what one more or one less makes of it.
LEMMA Sizes ==
  ASSUME NEW S \in SUBSET Callers
  PROVE  /\ IsFiniteSet(S)
         /\ Cardinality(S) \in Nat /\ Cardinality(S) <= Cardinality(Callers)
         /\ \A c \in Callers : c \notin S => Cardinality(S \cup {c}) = Cardinality(S) + 1
         /\ \A c \in S : Cardinality(S \ {c}) = Cardinality(S) - 1
         /\ Cardinality({}) = 0
         /\ \A c : Cardinality({c}) = 1
<1>1. IsFiniteSet(S) /\ Cardinality(S) <= Cardinality(Callers)
  BY CallersFinite, FS_Subset
<1>2. Cardinality(S) \in Nat
  BY <1>1, FS_CardinalityType
<1> QED
  BY <1>1, <1>2, FS_AddElement, FS_RemoveElement, FS_EmptySet, FS_Singleton

LEMMA InitInv == Init => Inv
<1> SUFFICES ASSUME Init PROVE Inv
  OBVIOUS
<1>1. TypeOK
  BY ThresholdType, CallersFinite DEF Init, TypeOK, States, MaxRequests
<1>2. CurrentInv /\ ProbeInv
  BY DEF Init, CurrentInv, ProbeInv
<1>3. StreakInv
  BY FS_EmptySet DEF Init, StreakInv
<1> QED
  BY <1>1, <1>2, <1>3 DEF Inv

-----------------------------------------------------------------------------
(* One step at a time. *)

\* A step of a caller that the breaker does not see, or that sees it unchanged.
LEMMA MoveInv ==
  ASSUME Inv, NEW c \in Callers, UNCHANGED <<breaker, began, streak>>,
         broken' \in BOOLEAN,
         NEW to \in {"idle", "send", "sent", "failed", "unavailable", "done"}, Goto(c, to),
         c \notin current \/ to \in {"sent", "failed"}
  PROVE  Inv'
<1>1. pc \in [Callers -> {"idle", "send", "sent", "failed", "unavailable", "done"}]
  BY DEF Inv, TypeOK
<1>2. TypeOK'
  BY <1>1 DEF Inv, TypeOK, breaker, Goto
<1>3. CurrentInv'
  BY <1>1 DEF Inv, CurrentInv, breaker, Goto
<1>4. ProbeInv' /\ StreakInv'
  BY DEF Inv, ProbeInv, StreakInv, breaker
<1> QED
  BY <1>2, <1>3, <1>4 DEF Inv

LEMMA RefuseInv == ASSUME Inv, NEW c \in Callers, Refuse(c) PROVE Inv'
<1>1. c \notin current /\ broken \in BOOLEAN
  BY DEF Inv, CurrentInv, TypeOK, Refuse
<1> QED
  BY <1>1, MoveInv DEF Refuse

LEMMA SendInv == ASSUME Inv, NEW c \in Callers, Send(c) PROVE Inv'
<1>1. broken \in BOOLEAN
  BY DEF Inv, TypeOK
<1>2. CASE broken
  BY <1>1, <1>2, MoveInv DEF Send
<1>3. CASE ~broken
  BY <1>1, <1>3, MoveInv DEF Send
<1> QED
  BY <1>2, <1>3

LEMMA ReturnInv == ASSUME Inv, NEW c \in Callers, Return(c) PROVE Inv'
<1>1. c \notin current /\ broken \in BOOLEAN
  BY DEF Inv, CurrentInv, TypeOK, Return
<1> QED
  BY <1>1, MoveInv DEF Return

\* Whom the breaker lets through it listens to, and counts in the streak.
LEMMA LetInv == ASSUME Inv, NEW c \in Callers, Let(c) PROVE Inv'
<1>1. /\ pc \in [Callers -> {"idle", "send", "sent", "failed", "unavailable", "done"}]
      /\ began \in [Callers -> States] /\ current \subseteq Callers
      /\ streak \in Nat /\ failures \in Nat /\ failures < Threshold
      /\ state \in States /\ requests \in 0..1 /\ timer \in 0..Timeout /\ broken \in BOOLEAN
  BY DEF Inv, TypeOK, MaxRequests
<1>2. pc[c] = "idle" /\ c \notin current /\ ~Refuses
  BY DEF Inv, CurrentInv, Let
<1>3. /\ pc' = [pc EXCEPT ![c] = "send"]
      /\ began' = [began EXCEPT ![c] = Observed]
      /\ UNCHANGED broken
  BY DEF Let, Goto
<1>4. Observed \in States
  BY <1>1 DEF Observed, States
<1>5. CASE Expired
  <2>1. /\ state' = "half-open" /\ failures' = 0 /\ timer' = 0
        /\ current' = {c} /\ requests' = 1 /\ streak' = 1
    BY <1>5 DEF Let, NewGeneration
  <2>2. TypeOK'
    BY <1>1, <1>3, <1>4, <2>1, ThresholdType, CallersFinite DEF TypeOK, States, MaxRequests
  <2>3. CurrentInv'
    BY <1>1, <1>3, <2>1 DEF CurrentInv
  <2>4. ProbeInv'
    BY <1>1, <1>3, <1>5, <2>1 DEF ProbeInv, Observed
  <2>5. StreakInv'
    BY <2>1, FS_Singleton DEF StreakInv
  <2> QED
    BY <2>2, <2>3, <2>4, <2>5 DEF Inv
<1>6. CASE ~Expired
  <2>1. /\ current' = current \cup {c}
        /\ requests' = IF state = "half-open" THEN requests + 1 ELSE requests
        /\ streak' = streak + 1
        /\ UNCHANGED <<state, failures, timer>>
    BY <1>6 DEF Let
  <2>2. state = "half-open" => requests = 0
    BY <1>1, <1>2, <1>6 DEF Refuses, MaxRequests
  <2>3. TypeOK'
    BY <1>1, <1>3, <1>4, <2>1, <2>2 DEF TypeOK, MaxRequests
  <2>4. CurrentInv'
    BY <1>1, <1>2, <1>3, <2>1 DEF Inv, CurrentInv
  <2>5. ProbeInv'
    <3> SUFFICES ASSUME state = "half-open" PROVE ProbeInv'
      BY <2>1 DEF ProbeInv
    <3>1. current = {} /\ Observed = "half-open"
      BY <1>6, <2>2 DEF Inv, ProbeInv, Observed
    <3> QED
      BY <1>1, <1>3, <2>1, <2>2, <3>1 DEF ProbeInv
  <2>6. StreakInv'
    <3>1. Cardinality(current') = Cardinality(current) + 1 /\ Cardinality(current) \in Nat
      BY <1>1, <1>2, <2>1, Sizes
    <3> QED
      BY <1>1, <2>1, <3>1 DEF Inv, StreakInv
  <2> QED
    BY <2>3, <2>4, <2>5, <2>6 DEF Inv
<1> QED
  BY <1>5, <1>6

\* A new generation listens to nobody.
LEMMA GenerationInv ==
  ASSUME Inv, NEW c \in Callers, NEW to \in States, NewGeneration(to),
         current' = {}, requests' = 0, streak' = 0, Goto(c, "done"),
         UNCHANGED <<broken, began>>
  PROVE  Inv'
<1>1. TypeOK'
  BY ThresholdType, CallersFinite DEF Inv, TypeOK, NewGeneration, Goto, MaxRequests
<1>2. CurrentInv' /\ ProbeInv'
  BY DEF CurrentInv, ProbeInv
<1>3. StreakInv'
  BY FS_EmptySet DEF StreakInv, NewGeneration
<1> QED
  BY <1>1, <1>2, <1>3 DEF Inv

\* A call that has answered, in a generation that goes on.
LEMMA AnswerInv ==
  ASSUME Inv, NEW c \in Callers, c \in current, state # "half-open",
         Goto(c, "done"), current' = current \ {c},
         UNCHANGED <<state, requests, timer, broken, began>>,
         \/ failures' = 0 /\ streak' = 0
         \/ failures' = failures + 1 /\ failures' < Threshold /\ streak' = streak
  PROVE  Inv'
<1>1. TypeOK'
  BY ThresholdType DEF Inv, TypeOK, Goto
<1>2. CurrentInv'
  BY DEF Inv, TypeOK, CurrentInv, Goto
<1>3. ProbeInv'
  BY DEF ProbeInv
<1>4. StreakInv'
  <2>1. /\ Cardinality(current') = Cardinality(current) - 1
        /\ Cardinality(current) \in Nat /\ Cardinality(current') \in Nat
    BY Sizes DEF Inv, TypeOK
  <2>2. streak \in Nat /\ failures \in Nat
    BY DEF Inv, TypeOK
  <2> QED
    BY <2>1, <2>2 DEF Inv, StreakInv
<1> QED
  BY <1>1, <1>2, <1>3, <1>4 DEF Inv

LEMMA IgnoreInv == ASSUME Inv, NEW c \in Callers, Ignore(c) PROVE Inv'
<1>1. CASE Expired
  BY <1>1, GenerationInv DEF Ignore, Observe, States
<1>2. CASE ~Expired
  <2>1. c \notin current /\ broken \in BOOLEAN
    BY <1>2 DEF Ignore, Inv, TypeOK
  <2> QED
    BY <1>2, <2>1, MoveInv DEF Ignore, Observe
<1> QED
  BY <1>1, <1>2

LEMMA SucceedInv == ASSUME Inv, NEW c \in Callers, Succeed(c) PROVE Inv'
<1>1. CASE state = "half-open"
  BY <1>1, GenerationInv DEF Succeed, States
<1>2. CASE state # "half-open"
  BY <1>2, AnswerInv DEF Succeed
<1> QED
  BY <1>1, <1>2

LEMMA FailCallInv == ASSUME Inv, NEW c \in Callers, FailCall(c) PROVE Inv'
<1>1. CASE state = "half-open" \/ ReadyToTrip(failures + 1)
  BY <1>1, GenerationInv DEF FailCall, States
<1>2. CASE state # "half-open" /\ ~ReadyToTrip(failures + 1)
  <2>1. failures + 1 < Threshold
    BY <1>2, ThresholdType DEF ReadyToTrip, Inv, TypeOK
  <2> QED
    BY <1>2, <2>1, AnswerInv DEF FailCall
<1> QED
  BY <1>1, <1>2

LEMMA OutsideInv == ASSUME Inv, Tick \/ Flip \/ UNCHANGED vars PROVE Inv'
<1>1. TypeOK'
  <2> USE DEF Inv, TypeOK, breaker
  <2>1. CASE Tick
    <3>1. timer' \in 0..Timeout
      BY <2>1, CallersFinite DEF Tick
    <3> QED
      BY <2>1, <3>1 DEF Tick
  <2>2. CASE Flip
    <3>1. broken' \in BOOLEAN
      BY <2>2, Zenon DEF Flip
    <3> QED
      BY <2>2, <3>1 DEF Flip
  <2>3. CASE UNCHANGED vars
    BY <2>3 DEF vars
  <2> QED
    BY <2>1, <2>2, <2>3
<1>2. CurrentInv' /\ ProbeInv' /\ StreakInv'
  BY DEF Inv, CurrentInv, ProbeInv, StreakInv, Tick, Flip, vars, breaker
<1> QED
  BY <1>1, <1>2 DEF Inv

LEMMA NextInv == Inv /\ [Next]_vars => Inv'
BY RefuseInv, LetInv, SendInv, IgnoreInv, SucceedInv, FailCallInv, ReturnInv, OutsideInv
   DEF Next, Progress

LEMMA Invariance == Spec => []Inv
BY InitInv, NextInv, PTL DEF Spec

-----------------------------------------------------------------------------
(* The theorems. *)

\* Every variable keeps its type: the circuit never counts as many failures as
\* should have opened it.
THEOREM TypeCorrect == Spec => []TypeOK
<1>1. Inv => TypeOK
  BY DEF Inv
<1> QED
  BY <1>1, Invariance, PTL

\* An outage costs fewer sends than the threshold and the callers before the
\* circuit opens, whatever threshold is configured.
THEOREM OutagesAreBounded == Spec => []OutageIsBounded
<1>1. Inv => OutageIsBounded
  <2> SUFFICES ASSUME Inv PROVE OutageIsBounded
    OBVIOUS
  <2>1. /\ streak \in Nat /\ failures \in Nat /\ failures < Threshold
        /\ current \in SUBSET Callers
    BY DEF Inv, TypeOK
  <2>2. /\ Cardinality(current) \in Nat
        /\ Cardinality(current) <= Cardinality(Callers)
    BY <2>1, Sizes
  <2>3. Cardinality(Callers) \in Nat
    BY CallersFinite, FS_CardinalityType
  <2> QED
    BY <2>1, <2>2, <2>3, ThresholdType DEF Inv, StreakInv, OutageIsBounded
<1> QED
  BY <1>1, Invariance, PTL

\* The half-open circuit listens to one call, which it let through half-open.
THEOREM OneProbeOnly == Spec => []OneProbe
<1>1. Inv => OneProbe
  <2> SUFFICES ASSUME Inv, state = "half-open"
               PROVE  Cardinality(current) <= 1 /\ \A c \in current : began[c] = "half-open"
    BY DEF OneProbe
  <2>1. CASE current = {}
    <3>1. Cardinality(current) = 0
      BY <2>1, FS_EmptySet
    <3> QED
      BY <2>1, <3>1
  <2>2. CASE current # {}
    <3>1. PICK c \in Callers : current = {c} /\ began[c] = "half-open"
      BY <2>2 DEF Inv, ProbeInv
    <3>2. Cardinality(current) = 1
      BY <3>1, FS_Singleton
    <3> QED
      BY <3>1, <3>2
  <2> QED
    BY <2>1, <2>2
<1> QED
  BY <1>1, Invariance, PTL

\* Only that call's result changes the half-open circuit, however late the
\* results of older calls arrive.
THEOREM ProbesDecide == Spec => ProbeDecides
<1> DEFINE Step == state = "half-open" /\ state' # state => \E c \in Callers : Decides(c)
<1>1. Inv /\ [Next]_vars => Step
  <2> SUFFICES ASSUME Inv, [Next]_vars, state = "half-open", state' # state
               PROVE  \E c \in Callers : Decides(c)
    OBVIOUS
  <2>1. ~Expired
    BY DEF Expired
  <2>2. PICK c \in Callers : Succeed(c) \/ FailCall(c)
    BY <2>1 DEF Next, Progress, Refuse, Let, Send, Ignore, Observe, Return, Tick, Flip,
       vars, breaker
  <2>3. c \in current /\ pc[c] \in {"sent", "failed"} /\ Goto(c, "done")
    BY <2>2 DEF Succeed, FailCall
  <2>4. began[c] = "half-open"
    BY <2>3 DEF Inv, ProbeInv
  <2>5. pc'[c] = "done"
    BY <2>3 DEF Goto, Inv, TypeOK
  <2> QED
    BY <2>3, <2>4, <2>5 DEF Decides
<1>2. [Step]_vars <=> Step
  BY DEF vars, breaker
<1> QED
  BY <1>1, Invariance, PTL DEF Spec, ProbeDecides
=============================================================================
