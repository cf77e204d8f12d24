----------------------------- MODULE EmailBreaker -----------------------------
(***************************************************************************)
(* email.Service: every SendInvite goes through one circuit breaker        *)
(* (sony/gobreaker, which is outside the repository), and callers send     *)
(* concurrently.                                                           *)
(*                                                                         *)
(* A call is three steps: beforeRequest, under the breaker's mutex, lets   *)
(* it through or refuses it; the email service is called without the       *)
(* mutex; and afterRequest, under the mutex again, takes its result into   *)
(* account unless the breaker has changed its state since.  gobreaker      *)
(* numbers its generations to tell; the model keeps the set of the calls   *)
(* that were let through in the current one, which is all the numbers say. *)
(***************************************************************************)
EXTENDS Integers, FiniteSets

CONSTANTS
  Callers,      \* goroutines serving Invite, one request after another
  Configured,   \* email.failure_threshold
  Wrap,         \* how many values a uint32 has
  Timeout       \* email.open_timeout, in ticks

ASSUME ConstantsAssumption ==
  /\ IsFiniteSet(Callers)
  /\ Configured \in Int
  /\ Wrap \in Nat /\ Wrap > 3
  /\ Timeout \in Nat \ {0}

\* NewService: uint32(cfg.FailureThreshold), and 3 stands in for 0.
Threshold == IF Configured % Wrap = 0 THEN 3 ELSE Configured % Wrap

\* The calls that may be on their way in a half-open circuit.
MaxRequests == 1

VARIABLES
  state,      \* of the circuit
  failures,   \* Counts.ConsecutiveFailures
  requests,   \* Counts.Requests, which only the half-open circuit reads
  timer,      \* ticks until the open circuit expires
  current,    \* the calls let through in the current generation
  pc,         \* where each call is
  broken,     \* whether the email service fails now
  began,      \* auxiliary: the state that each call was let through in
  streak      \* auxiliary: the sends since one last succeeded or the circuit changed

breaker == <<state, failures, requests, timer, current>>
vars == <<breaker, pc, broken, began, streak>>

Goto(c, phase) == pc' = [pc EXCEPT ![c] = phase]

-----------------------------------------------------------------------------
Init ==
  /\ state = "closed"
  /\ failures = 0
  /\ requests = 0
  /\ timer = 0
  /\ current = {}
  /\ pc = [c \in Callers |-> "idle"]
  /\ broken \in BOOLEAN
  /\ began = [c \in Callers |-> "closed"]
  /\ streak = 0

\* currentState: an open circuit that has expired is half-open.
Expired  == state = "open" /\ timer = 0
Observed == IF Expired THEN "half-open" ELSE state

\* toNewGeneration: the counts are cleared, and the calls on their way no
\* longer matter.
NewGeneration(to) ==
  /\ state' = to
  /\ failures' = 0
  /\ timer' = IF to = "open" THEN Timeout ELSE 0

\* Mutant: the half-open circuit lets every call through.
RefusesOpen == Observed = "open"

\* beforeRequest
Refuses == \/ Observed = "open"
           \/ ~Expired /\ state = "half-open" /\ requests >= MaxRequests

\* ErrOpenState and ErrTooManyRequests: SendInvite answers that the service is
\* unavailable without calling it.
Refuse(c) ==
  /\ pc[c] = "idle"
  /\ Refuses
  /\ Goto(c, "unavailable")
  /\ UNCHANGED <<breaker, broken, began, streak>>

Let(c) ==
  /\ pc[c] = "idle"
  /\ ~Refuses
  /\ IF Expired
     THEN NewGeneration("half-open") /\ current' = {c} /\ requests' = 1
     ELSE /\ current' = current \cup {c}
          /\ requests' = IF state = "half-open" THEN requests + 1 ELSE requests
          /\ UNCHANGED <<state, failures, timer>>
  /\ Goto(c, "send")
  /\ began' = [began EXCEPT ![c] = Observed]
  /\ streak' = IF Expired THEN 1 ELSE streak + 1
  /\ UNCHANGED broken

\* MockClient.send
Send(c) ==
  /\ pc[c] = "send"
  /\ Goto(c, IF broken THEN "failed" ELSE "sent")
  /\ UNCHANGED <<breaker, broken, began, streak>>

\* What afterRequest does first: when the open circuit has expired by now, it
\* turns half-open, and the call is of an older generation.
Observe ==
  IF Expired
  THEN NewGeneration("half-open") /\ current' = {} /\ requests' = 0 /\ streak' = 0
  ELSE UNCHANGED <<breaker, streak>>

\* afterRequest of a call that an earlier generation let through.
Ignore(c) ==
  /\ pc[c] \in {"sent", "failed"}
  /\ Expired \/ c \notin current
  /\ Observe
  /\ Goto(c, "done")
  /\ UNCHANGED <<broken, began>>

\* Mutant: the generation of the call is not compared.
SucceedOfAnyGeneration(c) ==
  /\ pc[c] = "sent"
  /\ ~Expired
  /\ IF state = "half-open"
     THEN NewGeneration("closed") /\ current' = {} /\ requests' = 0
     ELSE /\ failures' = 0
          /\ current' = current \ {c}
          /\ UNCHANGED <<state, requests, timer>>
  /\ streak' = 0
  /\ Goto(c, "done")
  /\ UNCHANGED <<broken, began>>

\* Mutant: one success is not enough to close the circuit.
SucceedHalfOpen(c) ==
  /\ pc[c] = "sent"
  /\ ~Expired /\ c \in current
  /\ failures' = 0
  /\ current' = current \ {c}
  /\ streak' = 0
  /\ Goto(c, "done")
  /\ UNCHANGED <<state, requests, timer, broken, began>>

\* onSuccess: the one success that a half-open circuit waits for closes it.
Succeed(c) ==
  /\ pc[c] = "sent"
  /\ ~Expired /\ c \in current
  /\ IF state = "half-open"
     THEN NewGeneration("closed") /\ current' = {} /\ requests' = 0
     ELSE /\ failures' = 0
          /\ current' = current \ {c}
          /\ UNCHANGED <<state, requests, timer>>
  /\ streak' = 0
  /\ Goto(c, "done")
  /\ UNCHANGED <<broken, began>>

\* Mutant: one failure more than the threshold.
ReadyToTripLate(count) == count > Threshold

ReadyToTrip(count) == count >= Threshold

\* onFailure
FailCall(c) ==
  /\ pc[c] = "failed"
  /\ ~Expired /\ c \in current
  /\ IF state = "half-open" \/ ReadyToTrip(failures + 1)
     THEN NewGeneration("open") /\ current' = {} /\ requests' = 0 /\ streak' = 0
     ELSE /\ failures' = failures + 1
          /\ current' = current \ {c}
          /\ UNCHANGED <<state, requests, timer, streak>>
  /\ Goto(c, "done")
  /\ UNCHANGED <<broken, began>>

\* SendInvite returns, and the goroutine serves another request some time.
Return(c) ==
  /\ pc[c] \in {"unavailable", "done"}
  /\ Goto(c, "idle")
  /\ UNCHANGED <<breaker, broken, began, streak>>

-----------------------------------------------------------------------------
Tick ==
  /\ timer > 0
  /\ timer' = timer - 1
  /\ UNCHANGED <<state, failures, requests, current, pc, broken, began, streak>>

\* The email service breaks down or comes back; one that fails at random
\* (email.fail_rate) does so between any two calls.
Flip ==
  /\ broken' = ~broken
  /\ UNCHANGED <<breaker, pc, began, streak>>

Progress(c) == Send(c) \/ Ignore(c) \/ Succeed(c) \/ FailCall(c) \/ Return(c)

Next ==
  \/ \E c \in Callers : Refuse(c) \/ Let(c) \/ Progress(c)
  \/ Tick
  \/ Flip

Spec == Init /\ [][Next]_vars

\* A goroutine that serves a request runs on, and time passes.
FairSpec == Spec /\ WF_vars(Tick) /\ \A c \in Callers : WF_vars(Progress(c))

-----------------------------------------------------------------------------
(* Properties. *)

States == {"closed", "open", "half-open"}

\* Every variable keeps its type.
TypeOK ==
  /\ state \in States
  /\ failures \in Nat /\ failures < Threshold
  /\ requests \in 0..MaxRequests
  /\ timer \in 0..Timeout
  /\ current \subseteq Callers
  /\ pc \in [Callers -> {"idle", "send", "sent", "failed", "unavailable", "done"}]
  /\ broken \in BOOLEAN
  /\ began \in [Callers -> States]
  /\ streak \in Nat

\* Between two successes the closed circuit lets through at most as many sends
\* as it has failures to wait for and callers to have one each on its way: an
\* outage costs no more before the circuit opens.
OutageIsBounded == streak < Threshold + Cardinality(Callers)

\* While the circuit is half-open one call probes the service, and no other is
\* on its way that the breaker would listen to.
OneProbe ==
  state = "half-open" => Cardinality(current) <= 1 /\ \A c \in current : began[c] = "half-open"

\* Only the probe decides: a half-open circuit closes on the success and opens
\* on the failure of a call that was let through half-open, never on the late
\* result of a call from before it opened.
Decides(c) == pc[c] \in {"sent", "failed"} /\ pc'[c] = "done" /\ began[c] = "half-open"

ProbeDecides == [][state = "half-open" /\ state' # state => \E c \in Callers : Decides(c)]_vars

\* An outage that is over is forgotten: when the service works from some time
\* on and invitations keep coming, the circuit is closed for good at last.
CircuitRecovers ==
  <>[]~broken /\ []<>(\E c \in Callers : pc[c] # "idle") => <>[](state = "closed")
=============================================================================
