------------------------- MODULE CircuitBreaker_proofs -------------------------
(***************************************************************************)
(* Proofs about CircuitBreaker for every finite set of requests, every     *)
(* set of budgets, every threshold and every reset period.                 *)
(*                                                                         *)
(* The inductive invariant is the conjunction of the four state            *)
(* predicates the safety run checks.  StateAgreesWithCount is inductive by *)
(* itself; AttemptsAccounted needs only types; StragglersBounded needs the *)
(* cardinality of InFlight before and after each step.                     *)
(***************************************************************************)
EXTENDS CircuitBreaker, FiniteSetTheorems, TLAPS

Inv ==
  /\ TypeOK
  /\ StateAgreesWithCount
  /\ AttemptsAccounted
  /\ StragglersBounded

-----------------------------------------------------------------------------
(* InFlight is a subset of the finite set Requests, so its cardinality is  *)
(* a natural number at most that of Requests.                              *)
LEMMA InFlightFinite ==
  /\ IsFiniteSet(InFlight)
  /\ Cardinality(InFlight) \in Nat
  /\ Cardinality(Requests) \in Nat
  /\ Cardinality(InFlight) <= Cardinality(Requests)
<1>1. InFlight \in SUBSET Requests
  BY DEF InFlight
<1>2. IsFiniteSet(Requests)
  BY BreakerAssumption
<1>. QED
  BY <1>1, <1>2, FS_Subset, FS_CardinalityType

(* The answer to an attempt takes exactly that request out of InFlight. *)
LEMMA AnswerLeavesInFlight ==
  ASSUME TypeOK, NEW r \in Requests, pc[r] = "inflight",
         NEW v \in {"ok", "rejected", "exhausted", "failfast", "backoff"},
         pc' = [pc EXCEPT ![r] = v]
  PROVE  /\ InFlight' = InFlight \ {r}
         /\ Cardinality(InFlight') = Cardinality(InFlight) - 1
<1>1. InFlight' = InFlight \ {r}
  BY DEF InFlight, TypeOK
<1>2. r \in InFlight
  BY DEF InFlight
<1>. QED
  BY <1>1, <1>2, InFlightFinite, FS_RemoveElement

(* A step that starts no attempt can only shrink InFlight. *)
LEMMA ShrinkBound ==
  ASSUME InFlight' \subseteq InFlight
  PROVE  /\ Cardinality(InFlight') \in Nat
         /\ Cardinality(InFlight') <= Cardinality(InFlight)
<1>1. InFlight' \in SUBSET InFlight
  OBVIOUS
<1>. QED
  BY <1>1, InFlightFinite, FS_Subset, FS_CardinalityType

-----------------------------------------------------------------------------
(* No dependency has failed yet: the initial states satisfy Inv. *)
THEOREM InitInv == Init => Inv
<1> SUFFICES ASSUME Init PROVE Inv
  OBVIOUS
<1> USE BreakerAssumption
<1>1. TypeOK
  BY DEF Init, TypeOK, CircuitState
<1>2. StateAgreesWithCount
  BY DEF Init, StateAgreesWithCount
<1>3. ASSUME NEW r \in Requests PROVE AttemptsAccounted!(r)
  <2>1. made[r] = 0 /\ pc[r] = "ready"
    BY DEF Init
  <2>2. budget[r] \in Nat \ {0}
    BY DEF Init
  <2>. QED
    BY <2>1, <2>2
<1>4. StragglersBounded
  BY DEF Init, StragglersBounded
<1>. QED
  BY <1>1, <1>2, <1>3, <1>4 DEF Inv, AttemptsAccounted

(* Every action keeps the types. *)
LEMMA NextTypeOK == TypeOK /\ [Next]_vars => TypeOK'
<1> SUFFICES ASSUME TypeOK, [Next]_vars PROVE TypeOK'
  OBVIOUS
<1> USE BreakerAssumption DEF TypeOK, CircuitState, Finished
<1>1. ASSUME NEW r \in Requests, Admit(r) PROVE TypeOK'
  BY <1>1 DEF Admit, Observed
<1>2. ASSUME NEW r \in Requests, FailFast(r) PROVE TypeOK'
  BY <1>2 DEF FailFast
<1>3. ASSUME NEW r \in Requests, Succeed(r) PROVE TypeOK'
  BY <1>3 DEF Succeed, OnSuccess
<1>4. ASSUME NEW r \in Requests, FailTransient(r) PROVE TypeOK'
  <2>1. /\ state' \in CircuitState
        /\ failures' \in 0..FailureThreshold
        /\ openAge' \in 0..ResetSeconds
    BY <1>4 DEF FailTransient, OnFailure
  <2>2. /\ pc' \in [Requests -> {"ready", "inflight", "backoff"} \cup Finished]
        /\ stragglers' \in Nat
        /\ UNCHANGED <<made, budget>>
    BY <1>4 DEF FailTransient
  <2>. QED
    BY <2>1, <2>2
<1>5. ASSUME NEW r \in Requests, Reject(r) PROVE TypeOK'
  BY <1>5 DEF Reject
<1>6. ASSUME NEW r \in Requests, NewRequest(r) PROVE TypeOK'
  BY <1>6 DEF NewRequest
<1>7. ASSUME Snapshot PROVE TypeOK'
  BY <1>7 DEF Snapshot, Observed
<1>8. ASSUME Tick PROVE TypeOK'
  BY <1>8 DEF Tick
<1>9. ASSUME UNCHANGED vars PROVE TypeOK'
  BY <1>9 DEF vars
<1>. QED
  BY <1>1, <1>2, <1>3, <1>4, <1>5, <1>6, <1>7, <1>8, <1>9
     DEF Next, Resume, Answer

(* The three actions that write the breaker move the state and the count   *)
(* together; a lazy read only exchanges OPEN for HALF_OPEN.                *)
LEMMA NextStateAgreesWithCount ==
  TypeOK /\ StateAgreesWithCount /\ [Next]_vars => StateAgreesWithCount'
<1> SUFFICES ASSUME TypeOK, StateAgreesWithCount, [Next]_vars
             PROVE  StateAgreesWithCount'
  OBVIOUS
<1> USE BreakerAssumption DEF TypeOK, CircuitState, StateAgreesWithCount
<1>1. ASSUME NEW r \in Requests, Admit(r) PROVE StateAgreesWithCount'
  BY <1>1 DEF Admit, Observed
<1>2. ASSUME NEW r \in Requests, Succeed(r) PROVE StateAgreesWithCount'
  BY <1>2 DEF Succeed, OnSuccess
<1>3. ASSUME NEW r \in Requests, FailTransient(r) PROVE StateAgreesWithCount'
  BY <1>3 DEF FailTransient, OnFailure
<1>4. ASSUME Snapshot PROVE StateAgreesWithCount'
  BY <1>4 DEF Snapshot, Observed
<1>5. ASSUME UNCHANGED <<state, failures>> PROVE StateAgreesWithCount'
  BY <1>5
<1>. QED
  BY <1>1, <1>2, <1>3, <1>4, <1>5
     DEF Next, Resume, Answer, vars, FailFast, Reject, NewRequest, Tick

(* Only Admit raises a request's count, and it does so from a place where  *)
(* the count is below the budget.                                          *)
LEMMA NextAttemptsAccounted ==
  TypeOK /\ AttemptsAccounted /\ [Next]_vars => AttemptsAccounted'
<1> SUFFICES ASSUME TypeOK, AttemptsAccounted, [Next]_vars,
                    NEW q \in Requests
             PROVE  AttemptsAccounted!(q)'
  BY DEF AttemptsAccounted
<1>0. /\ made[q] \in Nat /\ budget[q] \in Nat \ {0}
      /\ AttemptsAccounted!(q)
  BY BreakerAssumption DEF TypeOK, AttemptsAccounted
<1> USE <1>0 DEF TypeOK, Finished
<1>1. ASSUME NEW r \in Requests, Admit(r) PROVE AttemptsAccounted!(q)'
  BY <1>1 DEF Admit
<1>2. ASSUME NEW r \in Requests, FailFast(r) PROVE AttemptsAccounted!(q)'
  BY <1>2 DEF FailFast
<1>3. ASSUME NEW r \in Requests, Succeed(r) PROVE AttemptsAccounted!(q)'
  BY <1>3 DEF Succeed
<1>4. ASSUME NEW r \in Requests, FailTransient(r) PROVE AttemptsAccounted!(q)'
  BY <1>4 DEF FailTransient
<1>5. ASSUME NEW r \in Requests, Reject(r) PROVE AttemptsAccounted!(q)'
  BY <1>5 DEF Reject
<1>6. ASSUME NEW r \in Requests, NewRequest(r) PROVE AttemptsAccounted!(q)'
  BY <1>6, BreakerAssumption DEF NewRequest
<1>7. ASSUME UNCHANGED <<pc, made, budget>> PROVE AttemptsAccounted!(q)'
  BY <1>7
<1>. QED
  BY <1>1, <1>2, <1>3, <1>4, <1>5, <1>6, <1>7
     DEF Next, Resume, Answer, vars, Snapshot, Tick

(* While the breaker is OPEN no attempt starts, and each failure moves one *)
(* request from InFlight to the count of stragglers; the failure that      *)
(* opens it is reported by a request that has just left InFlight.          *)
LEMMA NextStragglersBounded ==
  TypeOK /\ StragglersBounded /\ [Next]_vars => StragglersBounded'
<1> SUFFICES ASSUME TypeOK, StragglersBounded, [Next]_vars
             PROVE  StragglersBounded'
  OBVIOUS
<1> USE DEF TypeOK, StragglersBounded
<1>0. /\ Cardinality(Requests) \in Nat
      /\ Cardinality(InFlight) \in Nat
      /\ Cardinality(InFlight) <= Cardinality(Requests)
  BY InFlightFinite
<1>1. ASSUME NEW r \in Requests, Admit(r) PROVE StragglersBounded'
  BY <1>1 DEF Admit, Observed
<1>2. ASSUME NEW r \in Requests, Succeed(r) PROVE StragglersBounded'
  BY <1>2 DEF Succeed, OnSuccess
<1>3. ASSUME NEW r \in Requests, FailTransient(r) PROVE StragglersBounded'
  <2>1. Cardinality(InFlight') = Cardinality(InFlight) - 1
    <3>1. pc[r] = "inflight"
      BY <1>3 DEF FailTransient
    <3>2. CASE made[r] = budget[r]
      <4>1. pc' = [pc EXCEPT ![r] = "exhausted"]
        BY <1>3, <3>2 DEF FailTransient
      <4>. QED
        BY <3>1, <4>1, AnswerLeavesInFlight
    <3>3. CASE made[r] # budget[r]
      <4>1. pc' = [pc EXCEPT ![r] = "backoff"]
        BY <1>3, <3>3 DEF FailTransient
      <4>. QED
        BY <3>1, <4>1, AnswerLeavesInFlight
    <3>. QED
      BY <3>2, <3>3
  <2>2. CASE state = "OPEN"
    <3>1. stragglers' = stragglers + 1
      BY <1>3, <2>2 DEF FailTransient
    <3>. QED
      BY <2>1, <2>2, <3>1, <1>0
  <2>3. CASE state # "OPEN"
    <3>1. stragglers' = 0
      BY <1>3, <2>3 DEF FailTransient
    <3>. QED
      BY <2>1, <3>1, <1>0
  <2>. QED
    BY <2>2, <2>3
<1>4. ASSUME InFlight' \subseteq InFlight, stragglers' = stragglers,
             state' = "OPEN" => state = "OPEN"
      PROVE  StragglersBounded'
  BY <1>4, <1>0, ShrinkBound
<1>5. ASSUME NEW r \in Requests, FailFast(r) \/ Reject(r) \/ NewRequest(r)
      PROVE  StragglersBounded'
  <2>1. InFlight' \subseteq InFlight
    BY <1>5 DEF FailFast, Reject, NewRequest, InFlight, Finished
  <2>. QED
    BY <1>4, <1>5, <2>1 DEF FailFast, Reject, NewRequest
<1>6. ASSUME Snapshot \/ Tick \/ UNCHANGED vars PROVE StragglersBounded'
  <2>1. InFlight' \subseteq InFlight
    BY <1>6 DEF Snapshot, Tick, vars, InFlight
  <2>. QED
    BY <1>4, <1>6, <2>1 DEF Snapshot, Tick, vars, Observed
<1>. QED
  BY <1>1, <1>2, <1>3, <1>5, <1>6 DEF Next, Resume, Answer

LEMMA NextInv == Inv /\ [Next]_vars => Inv'
  BY NextTypeOK, NextStateAgreesWithCount, NextAttemptsAccounted,
     NextStragglersBounded DEF Inv

LEMMA InvInvariant == Spec => []Inv
  BY InitInv, NextInv, PTL DEF Spec

-----------------------------------------------------------------------------
(* resilience.py:37-105.  The variables keep their types. *)
THEOREM TypeCorrect == Spec => []TypeOK
<1>1. Inv => TypeOK
  BY DEF Inv
<1>. QED
  BY <1>1, InvInvariant, PTL

(* resilience.py:54-73.  In every reachable state the breaker is closed    *)
(* exactly when the count of failures is below the threshold.              *)
THEOREM StateCountAgreement == Spec => []StateAgreesWithCount
<1>1. Inv => StateAgreesWithCount
  BY DEF Inv
<1>. QED
  BY <1>1, InvInvariant, PTL

(* resilience.py:88-107.  The attempts of every request stay within its    *)
(* budget.                                                                 *)
THEOREM AttemptAccounting == Spec => []AttemptsAccounted
<1>1. Inv => AttemptsAccounted
  BY DEF Inv
<1>. QED
  BY <1>1, InvInvariant, PTL

(* resilience.py:60-73.  The failures that stamp the opening time of an    *)
(* open breaker anew are fewer than the requests, for any number of them.  *)
THEOREM BoundedStragglers == Spec => []StragglersBounded
<1>1. Inv => StragglersBounded
  BY DEF Inv
<1>. QED
  BY <1>1, InvInvariant, PTL

(* resilience.py:60-63, 91-95.  While the breaker stays open the set of    *)
(* attempts in flight only shrinks.                                        *)
THEOREM OpenDrains == Spec => OpenBreakerDrains
<1>1. TypeOK /\ [Next]_vars =>
        [state = "OPEN" /\ state' = "OPEN" => InFlight' \subseteq InFlight]_vars
  <2> SUFFICES ASSUME TypeOK, Next, state = "OPEN", state' = "OPEN"
               PROVE  InFlight' \subseteq InFlight
    OBVIOUS
  <2> USE DEF TypeOK, InFlight, Finished
  <2>1. ASSUME NEW r \in Requests, Admit(r) PROVE InFlight' \subseteq InFlight
    BY <2>1 DEF Admit, Observed
  <2>2. ASSUME NEW r \in Requests,
               FailFast(r) \/ Succeed(r) \/ FailTransient(r) \/ Reject(r) \/ NewRequest(r)
        PROVE  InFlight' \subseteq InFlight
    BY <2>2 DEF FailFast, Succeed, FailTransient, Reject, NewRequest
  <2>3. ASSUME Snapshot \/ Tick PROVE InFlight' \subseteq InFlight
    BY <2>3 DEF Snapshot, Tick
  <2>. QED
    BY <2>1, <2>2, <2>3 DEF Next, Resume, Answer
<1>. QED
  BY <1>1, TypeCorrect, PTL DEF Spec, OpenBreakerDrains

-----------------------------------------------------------------------------
(* Implementation of LoadGate *)

LEMMA InitGate == Init => Gate!GateInit
  BY BreakerAssumption DEF Init, Gate!GateInit, Refusing, InFlight

(* The end of the reset period is the gate's Elapse wherever it is due to  *)
(* a tick; reading the state, refusing and arriving are invisible.         *)
LEMMA StepGate == Inv /\ [Next]_vars => [Gate!GateNext]_(Gate!gateVars)
<1> SUFFICES ASSUME TypeOK, StateAgreesWithCount, [Next]_vars
             PROVE  [Gate!GateNext]_(Gate!gateVars)
  BY DEF Inv
<1> USE BreakerAssumption DEF TypeOK, Gate!gateVars, Gate!GateNext
<1>1. ASSUME NEW r \in Requests, Admit(r) PROVE Gate!Enter(r)
  <2>1. r \notin InFlight /\ InFlight' = InFlight \cup {r}
    BY <1>1 DEF Admit, InFlight
  <2>2. ~Refusing /\ ~Refusing' /\ failures' = failures
    BY <1>1 DEF Admit, Observed, Refusing, CircuitState
  <2>. QED
    BY <2>1, <2>2 DEF Gate!Enter
<1>2. ASSUME NEW r \in Requests, Succeed(r) PROVE Gate!Clear(r)
  <2>1. r \in InFlight /\ InFlight' = InFlight \ {r}
    BY <1>2 DEF Succeed, InFlight
  <2>2. ~Refusing' /\ failures' = 0
    BY <1>2 DEF Succeed, OnSuccess, Refusing
  <2>. QED
    BY <2>1, <2>2 DEF Gate!Clear
<1>3. ASSUME NEW r \in Requests, FailTransient(r) PROVE Gate!Strike(r)
  <2>1. r \in InFlight /\ InFlight' = InFlight \ {r}
    BY <1>3 DEF FailTransient, InFlight
  <2>2. failures' = IF failures < FailureThreshold THEN failures + 1 ELSE failures
    BY <1>3 DEF FailTransient, OnFailure
  <2>3. CASE failures' = FailureThreshold
    <3>1. Refusing'
      BY <1>3, <2>3 DEF FailTransient, OnFailure, Refusing
    <3>. QED
      BY <2>1, <2>2, <2>3, <3>1 DEF Gate!Strike
  <2>4. CASE failures' # FailureThreshold
    <3>1. state' = state /\ openAge' = openAge
      BY <1>3, <2>2, <2>4 DEF FailTransient, OnFailure
    <3>2. Refusing' <=> Refusing
      BY <3>1 DEF Refusing
    <3>. QED
      BY <2>1, <2>2, <2>4, <3>2 DEF Gate!Strike
  <2>. QED
    BY <2>3, <2>4
<1>4. ASSUME NEW r \in Requests, Reject(r) PROVE Gate!Leave(r)
  <2>1. r \in InFlight /\ InFlight' = InFlight \ {r}
    BY <1>4 DEF Reject, InFlight
  <2>2. (Refusing' <=> Refusing) /\ failures' = failures
    BY <1>4 DEF Reject, Refusing
  <2>. QED
    BY <2>1, <2>2 DEF Gate!Leave
<1>5. ASSUME NEW r \in Requests, FailFast(r) \/ NewRequest(r)
      PROVE  UNCHANGED Gate!gateVars
  <2>1. InFlight' = InFlight
    BY <1>5 DEF FailFast, NewRequest, InFlight, Finished
  <2>2. (Refusing' <=> Refusing) /\ failures' = failures
    BY <1>5 DEF FailFast, NewRequest, Refusing
  <2>. QED
    BY <2>1, <2>2
<1>6. ASSUME Snapshot \/ UNCHANGED vars PROVE UNCHANGED Gate!gateVars
  <2>1. InFlight' = InFlight /\ failures' = failures
    BY <1>6 DEF Snapshot, vars, InFlight
  <2>2. Refusing' <=> Refusing
    BY <1>6 DEF Snapshot, vars, Refusing, Observed, CircuitState
  <2>. QED
    BY <2>1, <2>2
<1>7. ASSUME Tick PROVE Gate!Elapse \/ UNCHANGED Gate!gateVars
  <2>1. InFlight' = InFlight /\ failures' = failures
    BY <1>7 DEF Tick, InFlight
  <2>2. Refusing' => Refusing
    BY <1>7 DEF Tick, Refusing
  <2>. QED
    BY <2>1, <2>2 DEF Gate!Elapse
<1>. QED
  BY <1>1, <1>2, <1>3, <1>4, <1>5, <1>6, <1>7 DEF Next, Resume, Answer

(* resilience.py:54-105 implements the abstract gate: a call reaches the   *)
(* dependency only while the gate passes.                                  *)
THEOREM ImplementsGate == Spec => RefinesGate
<1>1. Spec => Gate!GateInit
  BY InitGate DEF Spec
<1>2. []Inv /\ [][Next]_vars => [][Gate!GateNext]_(Gate!gateVars)
  BY StepGate, PTL
<1>. QED
  BY <1>1, <1>2, InvInvariant, PTL DEF Spec, RefinesGate, Gate!GateSpec

=============================================================================
