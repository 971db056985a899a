---------------------------- MODULE CircuitBreaker ----------------------------
(***************************************************************************)
(* The circuit breaker and the retry loop every outbound call of the       *)
(* gateway layers goes through: CircuitBreaker and retry_async of          *)
(* services/common/resilience.py, as DownstreamClient.request of           *)
(* services/common/http_client.py wires them together.                     *)
(*                                                                         *)
(* One breaker object is shared by all the coroutines that call one        *)
(* dependency.  The event loop switches between coroutines only at an      *)
(* await, so everything between two awaits is one step: before_call and    *)
(* the start of the attempt; the end of an attempt, its report to the      *)
(* breaker and the decision to sleep or to give up.                        *)
(*                                                                         *)
(* Data abstractions.  _failures is counted up to FailureThreshold only:   *)
(* the code does nothing with it but compare it with the threshold.  Time  *)
(* is kept as the age of _opened_at, up to ResetSeconds, for the same      *)
(* reason.  Both make the state space finite without bounding how often    *)
(* requests arrive.                                                        *)
(***************************************************************************)
EXTENDS Integers, FiniteSets

CONSTANTS
  Requests,          \* coroutines that call the dependency concurrently
  AttemptBudgets,    \* values of the "attempts" argument (retries=1, default 3)
  FailureThreshold,  \* circuit_breaker_failure_threshold
  ResetSeconds       \* circuit_breaker_reset_seconds

ASSUME BreakerAssumption ==
  /\ IsFiniteSet(Requests)
  /\ AttemptBudgets \subseteq Nat \ {0}
  /\ FailureThreshold \in Nat \ {0}
  /\ ResetSeconds \in Nat \ {0}

VARIABLES
  state,     \* CircuitBreaker._state
  failures,  \* CircuitBreaker._failures, counted up to FailureThreshold
  openAge,   \* time.time() - CircuitBreaker._opened_at, up to ResetSeconds
  pc,        \* where each request's retry loop is
  made,      \* attempts each request has really sent
  budget,    \* the "attempts" argument of each request
  stragglers \* history: failures reported since the breaker last opened

breakerVars == <<state, failures, openAge>>
vars == <<state, failures, openAge, pc, made, budget, stragglers>>

CircuitState == {"CLOSED", "OPEN", "HALF_OPEN"}

(* How a request can end: the result, a non-transient error that propagates *)
(* at once, the last transient error, or the breaker's refusal.             *)
Finished == {"ok", "rejected", "exhausted", "failfast"}

InFlight == {r \in Requests : pc[r] = "inflight"}

(* The breaker is refusing calls: OPEN, and the reset period not yet over. *)
Refusing == state = "OPEN" /\ openAge < ResetSeconds

TypeOK ==
  /\ state \in CircuitState
  /\ failures \in 0..FailureThreshold
  /\ openAge \in 0..ResetSeconds
  /\ pc \in [Requests -> {"ready", "inflight", "backoff"} \cup Finished]
  /\ made \in [Requests -> Nat]
  /\ budget \in [Requests -> AttemptBudgets]
  /\ stragglers \in Nat

-----------------------------------------------------------------------------
(* The breaker *)

(* The state property: reading it is what turns OPEN into HALF_OPEN. *)
Observed ==
  IF state = "OPEN" /\ openAge >= ResetSeconds THEN "HALF_OPEN" ELSE state

(* Seeded faults: a success takes back one failure only, or none. *)
OnSuccessDecrements ==
  /\ failures' = failures - 1
  /\ state' = "CLOSED"
  /\ UNCHANGED openAge

OnSuccessKeepsCount ==
  /\ state' = "CLOSED"
  /\ UNCHANGED <<failures, openAge>>

OnSuccess ==
  /\ failures' = 0
  /\ state' = "CLOSED"
  /\ UNCHANGED openAge

(* Seeded fault: opens only past the threshold. *)
OnFailureOneTooMany ==
  /\ failures' = IF failures < FailureThreshold THEN failures + 1 ELSE failures
  /\ \/ /\ failures >= FailureThreshold
        /\ state' = "OPEN"
        /\ openAge' = 0
     \/ /\ failures < FailureThreshold
        /\ UNCHANGED <<state, openAge>>

(* A failure that reaches the threshold opens the breaker and stamps the   *)
(* time, also when it is open already.                                     *)
OnFailure ==
  /\ failures' = IF failures < FailureThreshold THEN failures + 1 ELSE failures
  /\ \/ /\ failures' >= FailureThreshold
        /\ state' = "OPEN"
        /\ openAge' = 0
     \/ /\ failures' < FailureThreshold
        /\ UNCHANGED <<state, openAge>>

-----------------------------------------------------------------------------
(* The retry loop *)

(* _opened_at starts at 0.0, so the age of the stamp is past any reset. *)
Init ==
  /\ state = "CLOSED"
  /\ failures = 0
  /\ openAge = ResetSeconds
  /\ pc = [r \in Requests |-> "ready"]
  /\ made = [r \in Requests |-> 0]
  /\ budget \in [Requests -> AttemptBudgets]
  /\ stragglers = 0

(* Seeded fault: the breaker is consulted once per request, outside the    *)
(* retry loop.                                                             *)
AdmitRetryUnchecked(r) ==
  /\ pc[r] \in {"ready", "backoff"}
  /\ pc[r] = "ready" => Observed # "OPEN"
  /\ state' = Observed
  /\ pc' = [pc EXCEPT ![r] = "inflight"]
  /\ made' = [made EXCEPT ![r] = @ + 1]
  /\ UNCHANGED <<failures, openAge, budget, stragglers>>

(* The first attempt, or the next one after a back-off: before_call lets   *)
(* it pass and the HTTP request is sent.                                   *)
Admit(r) ==
  /\ pc[r] \in {"ready", "backoff"}
  /\ Observed # "OPEN"
  /\ state' = Observed
  /\ pc' = [pc EXCEPT ![r] = "inflight"]
  /\ made' = [made EXCEPT ![r] = @ + 1]
  /\ UNCHANGED <<failures, openAge, budget, stragglers>>

(* Seeded fault: a refusal stamps the opening time anew. *)
FailFastRestamps(r) ==
  /\ pc[r] \in {"ready", "backoff"}
  /\ Observed = "OPEN"
  /\ openAge' = 0
  /\ pc' = [pc EXCEPT ![r] = "failfast"]
  /\ UNCHANGED <<state, failures, made, budget, stragglers>>

(* before_call raises outside the try: the refusal is not counted as a     *)
(* failure, not retried, and ends the request.                             *)
FailFast(r) ==
  /\ pc[r] \in {"ready", "backoff"}
  /\ Observed = "OPEN"
  /\ pc' = [pc EXCEPT ![r] = "failfast"]
  /\ UNCHANGED <<state, failures, openAge, made, budget, stragglers>>

Succeed(r) ==
  /\ pc[r] = "inflight"
  /\ OnSuccess
  /\ pc' = [pc EXCEPT ![r] = "ok"]
  /\ UNCHANGED <<made, budget, stragglers>>

(* Seeded faults: one attempt too many, and a loop that never gives up. *)
FailTransientOneMore(r) ==
  /\ pc[r] = "inflight"
  /\ OnFailure
  /\ pc' = [pc EXCEPT ![r] = IF made[r] > budget[r] THEN "exhausted" ELSE "backoff"]
  /\ stragglers' = IF state = "OPEN" THEN stragglers + 1 ELSE 0
  /\ UNCHANGED <<made, budget>>

FailTransientForever(r) ==
  /\ pc[r] = "inflight"
  /\ OnFailure
  /\ pc' = [pc EXCEPT ![r] = "backoff"]
  /\ made' = [made EXCEPT ![r] = 0]
  /\ stragglers' = IF state = "OPEN" THEN stragglers + 1 ELSE 0
  /\ UNCHANGED <<budget>>

(* A timeout, a connection error or a 5xx: reported to the breaker, then   *)
(* either the last attempt is over or the request sleeps.                  *)
FailTransient(r) ==
  /\ pc[r] = "inflight"
  /\ OnFailure
  /\ pc' = [pc EXCEPT ![r] = IF made[r] = budget[r] THEN "exhausted" ELSE "backoff"]
  /\ stragglers' = IF state = "OPEN" THEN stragglers + 1 ELSE 0
  /\ UNCHANGED <<made, budget>>

(* 404, 401/403 or another 4xx (429 included): the exception is not in     *)
(* retry_on, so it leaves the loop and the breaker hears nothing.          *)
Reject(r) ==
  /\ pc[r] = "inflight"
  /\ pc' = [pc EXCEPT ![r] = "rejected"]
  /\ UNCHANGED <<state, failures, openAge, made, budget, stragglers>>

(* GET /health reads every breaker through snapshot(). *)
Snapshot ==
  /\ Observed # state
  /\ state' = Observed
  /\ UNCHANGED <<failures, openAge, pc, made, budget, stragglers>>

(* The next HTTP request handled by this coroutine slot. *)
NewRequest(r) ==
  /\ pc[r] \in Finished
  /\ pc' = [pc EXCEPT ![r] = "ready"]
  /\ made' = [made EXCEPT ![r] = 0]
  /\ \E n \in AttemptBudgets : budget' = [budget EXCEPT ![r] = n]
  /\ UNCHANGED <<state, failures, openAge, stragglers>>

Tick ==
  /\ openAge < ResetSeconds
  /\ openAge' = openAge + 1
  /\ UNCHANGED <<state, failures, pc, made, budget, stragglers>>

Resume(r) == Admit(r) \/ FailFast(r)
Answer(r) == Succeed(r) \/ FailTransient(r) \/ Reject(r)

Next ==
  \/ \E r \in Requests : Resume(r) \/ Answer(r) \/ NewRequest(r)
  \/ Snapshot
  \/ Tick

Spec == Init /\ [][Next]_vars

(* Time passes; the event loop resumes a coroutine whose sleep is over; an *)
(* attempt ends because httpx gives it a timeout.  Nothing makes a client  *)
(* send another request or poll /health.                                   *)
Fairness ==
  /\ WF_vars(Tick)
  /\ \A r \in Requests : WF_vars(Resume(r)) /\ WF_vars(Answer(r))

FairSpec == Spec /\ Fairness

-----------------------------------------------------------------------------
(* Safety *)

(* The breaker is CLOSED exactly when fewer than FailureThreshold failures *)
(* have been counted since the last success: it can neither stay closed at *)
(* the threshold nor be open or half-open below it, whatever order late    *)
(* successes, late failures and lazy reads of the state come in.  Hence a  *)
(* half-open breaker needs one failure only to reopen.                     *)
StateAgreesWithCount == (state = "CLOSED") <=> (failures < FailureThreshold)

(* Each failure reported to an open breaker stamps the opening time anew.  *)
(* Only attempts already in flight when it opened can do so: the failures  *)
(* reported since then and the attempts still in flight never exceed the   *)
(* other requests, so one outage can be prolonged that often and no more.  *)
StragglersBounded ==
  state = "OPEN" => stragglers + Cardinality(InFlight) < Cardinality(Requests)

(* No request sends more attempts than its budget, it reports exhaustion   *)
(* only after sending all of them, and it sleeps or is refused only while  *)
(* it still has some left.                                                 *)
AttemptsAccounted ==
  \A r \in Requests :
    /\ made[r] <= budget[r]
    /\ pc[r] = "exhausted" => made[r] = budget[r]
    /\ pc[r] \in {"ready", "backoff", "failfast"} => made[r] < budget[r]

(* While the breaker stays open the set of attempts in flight only drains: *)
(* neither a new request nor the next attempt of one that slept through    *)
(* the opening reaches the dependency.                                     *)
OpenBreakerDrains ==
  [][state = "OPEN" /\ state' = "OPEN" => InFlight' \subseteq InFlight]_vars

-----------------------------------------------------------------------------
(* Liveness *)

(* Every request ends: with an answer, with its last error or refused. *)
RequestsEnd == \A r \in Requests : pc[r] \notin Finished ~> pc[r] \in Finished

-----------------------------------------------------------------------------
(* The code implements the abstract gate of LoadGate, which reopens by     *)
(* itself when the period is over, although the code only notices when     *)
(* somebody reads the state.                                               *)
Gate == INSTANCE LoadGate WITH
  Callers <- Requests,
  Limit   <- FailureThreshold,
  gate    <- IF Refusing THEN "refusing" ELSE "passing",
  strikes <- failures,
  inside  <- InFlight

(* Every call before_call lets through is one the gate lets in, every      *)
(* refusal falls in a refusing period of the gate, lazy transitions, late  *)
(* reports and health reads included.                                      *)
RefinesGate == Gate!GateSpec

(* ... and the gate's refusals end. *)
RefinesFairGate == Gate!GateFairSpec
=============================================================================
