----------------------------- MODULE Customer360 -----------------------------
(***************************************************************************)
(* One client request through the gateway: an experience layer             *)
(* (experience_layer.py, store_experience_layer.py) calls the process      *)
(* layer, which assembles the answer from reads of the system layer and,   *)
(* on request, of the AI service.  A layer calls the next one with a       *)
(* time-out per attempt and some attempts; an attempt that timed out is    *)
(* still being served below, so one request can have several runs of the   *)
(* process layer.  Every layer also has a rate limiter before its          *)
(* handlers.  Meanwhile the nightly DAG replaces ANALYTICS.CUSTOMER_360    *)
(* with a DELETE and an INSERT.                                            *)
(*                                                                         *)
(* Time is in ticks.  A read by the process layer stands for all attempts  *)
(* its client makes.  How the breaker and the limiter decide and how a     *)
(* slot of the AI bulkhead is had is in CircuitBreaker, RateLimiter and    *)
(* AiBulkhead.                                                             *)
(***************************************************************************)
EXTENDS Naturals, FiniteSets

CONSTANTS
  Requests,   \* client requests
  Asks,       \* what a request may ask for
  Attempts,   \* max_retry_attempts
  Timeout     \* downstream_timeout_seconds, in ticks

VARIABLES
  ask,        \* the request and the facts about its customer
  try,        \* the experience layer's attempt, 0 before the first
  waited,     \* ticks the attempt has waited
  run,        \* the process layer's run of each attempt
  reply,      \* what the client was told
  rebuilding  \* CUSTOMER_360 is deleted and not inserted yet

vars == <<ask, try, waited, run, reply, rebuilding>>

Soft == {"churn", "orders", "cases"}
Reads == {"core", "list", "ai"} \cup Soft
Sources == {"crm", "oms", "support", "loyalty"}
Kinds == {"360", "insights", "churn", "cohort", "lookup", "recentOrders"} \cup Sources

(* The registered clients and the scopes a token carries. *)
Scopes ==
  [portal      |-> {"customer:read", "insights:read", "ai:invoke"},
   batch       |-> {"customer:read", "insights:read"},
   readonly    |-> {"customer:read"},
   servicedesk |-> {"customer:read", "insights:read", "ai:invoke", "pii:read"},
   store       |-> {"customer:read"}]

(* known, scored: the customer is in CUSTOMER_360 and has a churn score. *)
ASSUME Customer360Assumption ==
  /\ Attempts \in Nat \ {0} /\ Timeout \in Nat
  /\ Asks \subseteq
       [kind : Kinds, client : DOMAIN Scopes, asked : SUBSET STRING, token : STRING,
        orders : BOOLEAN, support : BOOLEAN, ai : BOOLEAN,
        known : BOOLEAN, scored : BOOLEAN,
        fault : {"none", "timeout", "error", "throttle", "flaky"}]

(* No scope asked for grants all; of the asked ones, those of the client. *)
Granted(client, asked) ==
  IF asked = {} THEN Scopes[client] ELSE asked \cap Scopes[client]

Required(kind) ==
  IF kind \in {"insights", "churn", "cohort"} THEN "insights:read" ELSE "customer:read"

(* 0 for a request that may go on. *)
Refused(a) ==
  IF a.token # "valid" THEN 401
  ELSE IF Required(a.kind) \notin Granted(a.client, a.asked) THEN 403 ELSE 0

(* One failure stands for all where _safe makes no difference between them. *)
Failures == {"unavailable", "timeout", "unauthorized", "rejected"}
AnyFailure == "rejected"

(* What an error answers, and what the layer above makes of a status. *)
StatusOf ==
  [norow |-> 404, unavailable |-> 503, timeout |-> 504,
   unauthorized |-> 401, rejected |-> 400]
Relayed(status) ==
  CASE status = 404          -> 404
    [] status \in {401, 403} -> 401
    [] status >= 500         -> 503
    [] OTHER                 -> 400
Retried(status) == status >= 500

-----------------------------------------------------------------------------
(* What the process layer reads for a request. *)

HardRead(a) ==
  CASE a.kind = "insights" -> {}
    [] a.kind = "cohort"   -> {"list"}
    [] OTHER               -> {"core"}

SoftReads(a) ==
  IF a.kind = "cohort" THEN {}
  ELSE {"churn"} \cup (IF a.kind = "recentOrders" \/ (a.kind = "360" /\ a.orders)
                       THEN {"orders"} ELSE {})
                 \cup (IF a.kind = "360" /\ a.support THEN {"cases"} ELSE {})

WantsAi(a) == a.kind = "insights" \/ (a.kind = "360" /\ a.ai)

After(a, stage) ==
  IF stage = "start" /\ HardRead(a) # {} THEN "hard"
  ELSE IF stage \in {"start", "hard"} /\ SoftReads(a) # {} THEN "soft"
  ELSE IF stage # "ai" /\ WantsAi(a) THEN "ai" ELSE "done"

(* value: reads that gave something; deg: class Degradation; wire: history, *)
(* what each read really ended with.                                        *)
NoRun == [at |-> "none", age |-> 0, value |-> {}, deg |-> {},
          wire |-> [p \in Reads |-> "unsent"], status |-> 0]
NewRun(a) == [NoRun EXCEPT !.at = After(a, "start"), !.status = 200]

(* The limiter of the process layer answers before any handler runs. *)
LimitedRun == [NoRun EXCEPT !.at = "done", !.status = 429]

Active(p) == p.at \in {"hard", "soft", "ai"}

(* Every read may use all its attempts, except the AI part of insights. *)
Budget(a, stage) ==
  IF stage = "ai" /\ a.kind = "insights" THEN Timeout ELSE Attempts * Timeout

(* The view behind a read, and how the read can end. *)
Found(a, part) ==
  CASE part = "core"  -> IF a.known /\ ~rebuilding THEN "row" ELSE "norow"
    [] part = "churn" -> IF a.scored THEN "row" ELSE "norow"
    [] OTHER          -> "row"
Outcomes(a, p, part) ==
  {Found(a, part)} \cup
  CASE p.at # "hard"                    -> {AnyFailure}
    [] p.at = "hard" /\ p.age < Timeout -> Failures \ {"timeout"}
    [] OTHER                            -> Failures

-----------------------------------------------------------------------------
NoReply == [status |-> 0, shown |-> {}, named |-> {}, masked |-> {}]
Error(status) == [NoReply EXCEPT !.status = status]

(* The fields that only a token with pii:read shows as they are. *)
Identifiers == {"name", "email", "phone", "birthDate"}
Masked(a) == IF "pii:read" \in Granted(a.client, a.asked) THEN {} ELSE Identifiers

(* The process layer's answer: a profile or none, a score or none, ... *)
Assembled(p) == [shown |-> p.value, named |-> p.deg]

(* The generated insights, if there are any. *)
ShapeAi(up) == up.shown \cap {"ai"}

(* Seeded fault: absent parts and failed ones look alike. *)
AnswerUnnamed(a, p, parts) ==
  [Error(200) EXCEPT !.shown = parts \cap p.value]

(* The part of the process layer's answer a consumer is shown, with the    *)
(* fields that could not be built.                                         *)
Answer(a, p, parts) ==
  LET up == Assembled(p) IN
  [status |-> 200, shown |-> parts \cap ((up.shown \ {"ai"}) \cup ShapeAi(up)),
   named |-> up.named, masked |-> IF "core" \in parts THEN Masked(a) ELSE {}]

Shape360(a, p) == Answer(a, p, {"core", "ai"} \cup SoftReads(a))
ShapeInsights(a, p) == Answer(a, p, {"churn", "ai"})
ShapeChurn(a, p) ==
  IF "churn" \in p.value THEN [Answer(a, p, {"churn"}) EXCEPT !.named = {}]
                         ELSE Error(500)

(* Of the profile a store is shown the name, and no other identifier. *)
ShapeLookup(a, p) == [Answer(a, p, {"core"}) EXCEPT !.masked = @ \cap {"name"}]
ShapeRecentOrders(a, p) == Answer(a, p, {"orders"})
ShapeCohort(a, p) == Answer(a, p, {"list"})

Shape(a, p) ==
  CASE a.kind = "360"          -> Shape360(a, p)
    [] a.kind = "insights"     -> ShapeInsights(a, p)
    [] a.kind = "churn"        -> ShapeChurn(a, p)
    [] a.kind = "lookup"       -> ShapeLookup(a, p)
    [] a.kind = "recentOrders" -> ShapeRecentOrders(a, p)
    [] a.kind = "cohort"       -> ShapeCohort(a, p)

-----------------------------------------------------------------------------
TypeOK ==
  /\ ask \in [Requests -> Asks]
  /\ try \in [Requests -> 0..Attempts]
  /\ waited \in [Requests -> 0..Timeout]
  /\ \A r \in Requests, k \in 1..Attempts :
       /\ run[r][k].at \in {"none", "hard", "soft", "ai", "done", "lost"}
       /\ run[r][k].age \in 0..Budget(ask[r], run[r][k].at)
       /\ run[r][k].value \cup run[r][k].deg \subseteq Reads
       /\ run[r][k].value \cap run[r][k].deg = {}
  /\ \A r \in Requests : reply[r].shown \cap reply[r].named = {}
  /\ rebuilding \in BOOLEAN

Init ==
  /\ ask \in [Requests -> Asks]
  /\ try = [r \in Requests |-> 0]
  /\ waited = [r \in Requests |-> 0]
  /\ run = [r \in Requests |-> [k \in 1..Attempts |-> NoRun]]
  /\ reply = [r \in Requests |-> NoReply]
  /\ rebuilding = FALSE

Waiting(r) == try[r] > 0 /\ reply[r] = NoReply
Tell(r, answer) ==
  /\ reply' = [reply EXCEPT ![r] = answer]
  /\ UNCHANGED <<ask, try, waited, run, rebuilding>>

(* The experience layer's next call of the process layer. *)
Call(r) ==
  /\ try' = [try EXCEPT ![r] = @ + 1]
  /\ waited' = [waited EXCEPT ![r] = 0]
  /\ \E first \in {NewRun(ask[r]), LimitedRun} :
       run' = [run EXCEPT ![r][try[r] + 1] = first]
  /\ UNCHANGED <<ask, reply, rebuilding>>

(* An open breaker refuses the call at once. *)
CallOrFailFast(r) == Call(r) \/ Tell(r, Error(503))

Arrive(r) ==
  /\ try[r] = 0 /\ reply[r] = NoReply /\ ask[r].kind \notin Sources
  /\ IF Refused(ask[r]) = 0 THEN CallOrFailFast(r) ELSE Tell(r, Error(Refused(ask[r])))

(* The limiter of the layer the client calls comes before its token is read. *)
EdgeLimited(r) ==
  /\ try[r] = 0 /\ reply[r] = NoReply
  /\ Tell(r, Error(429))

(* Seeded fault: one attempt too many. *)
AttemptFailsOnceMore(r, status) ==
  \/ try[r] <= Attempts /\ CallOrFailFast(r)
  \/ try[r] > Attempts /\ Tell(r, Error(status))

(* Seeded fault: a lost attempt is made again without being counted. *)
AttemptFailsUncounted(r, status) ==
  /\ waited' = [waited EXCEPT ![r] = 0]
  /\ run' = [run EXCEPT ![r][try[r]] = NewRun(ask[r])]
  /\ UNCHANGED <<ask, try, reply, rebuilding>>

(* The attempt ended with a transient error: again, or its error. *)
AttemptFails(r, status) ==
  \/ try[r] < Attempts /\ CallOrFailFast(r)
  \/ try[r] = Attempts /\ Tell(r, Error(status))

Receive(r) ==
  LET p == run[r][try[r]] IN
  /\ Waiting(r) /\ p.at \in {"done", "lost"}
  /\ CASE p.status = 200     -> Tell(r, Shape(ask[r], p))
       [] Retried(p.status)  -> AttemptFails(r, Relayed(p.status))
       [] OTHER              -> Tell(r, Error(Relayed(p.status)))

TimeOut(r) ==
  /\ Waiting(r) /\ waited[r] = Timeout
  /\ AttemptFails(r, 504)

-----------------------------------------------------------------------------
(* The process layer *)

Progress(r, k, p) ==
  /\ run' = [run EXCEPT ![r][k] = p]
  /\ UNCHANGED <<ask, try, waited, reply, rebuilding>>

Ended(p, part, o) == [p EXCEPT !.wire[part] = o]

EndHard(a, p, part, o) ==
  IF o = "row"
  THEN [Ended(p, part, o) EXCEPT !.value = @ \cup {part}, !.age = 0, !.at = After(a, "hard")]
  ELSE [Ended(p, part, o) EXCEPT !.at = "done", !.status = StatusOf[o]]

(* Seeded fault: a failure of any read fails the run. *)
SafeHard(p, part, o) ==
  IF o \in Failures THEN [Ended(p, part, o) EXCEPT !.at = "done", !.status = StatusOf[o]]
  ELSE [Ended(p, part, o) EXCEPT !.value = IF o = "row" THEN @ \cup {part} ELSE @]

(* Absence is a fact, a failure is recorded. *)
Safe(p, part, o) ==
  CASE o = "row"   -> [Ended(p, part, o) EXCEPT !.value = @ \cup {part}]
    [] o = "norow" -> Ended(p, part, o)
    [] OTHER       -> [Ended(p, part, o) EXCEPT !.deg = @ \cup {part}]

Pending(a, p) == {part \in SoftReads(a) : p.wire[part] = "unsent"}

(* The soft reads run together; the last to end lets the run go on. *)
EndSoft(a, p, part, o) ==
  LET q == Safe(p, part, o) IN
  IF Pending(a, q) = {} /\ Active(q) THEN [q EXCEPT !.at = After(a, "soft"), !.age = 0] ELSE q

EndAi(p, part, o) == [Safe(p, part, o) EXCEPT !.at = "done"]

Awaited(a, p) ==
  CASE p.at = "hard" -> HardRead(a)
    [] p.at = "soft" -> Pending(a, p)
    [] p.at = "ai"   -> {"ai"}
    [] OTHER         -> {}

ReadEnds(r, k, part, o) ==
  LET p == run[r][k] IN
  Progress(r, k, CASE p.at = "hard" -> EndHard(ask[r], p, part, o)
                   [] p.at = "soft" -> EndSoft(ask[r], p, part, o)
                   [] p.at = "ai"   -> EndAi(p, part, o))

Read(r, k) ==
  \E part \in Awaited(ask[r], run[r][k]) :
    \E o \in Outcomes(ask[r], run[r][k], part) : ReadEnds(r, k, part, o)

ReadTimesOut(r, k) ==
  /\ Active(run[r][k]) /\ run[r][k].age = Budget(ask[r], run[r][k].at)
  /\ \E part \in Awaited(ask[r], run[r][k]) :
       ReadEnds(r, k, part, IF run[r][k].at = "hard" THEN "timeout" ELSE AnyFailure)

(* The worker that serves the run dies, or cannot be reached. *)
RunLost(r, k) ==
  /\ Active(run[r][k])
  /\ Progress(r, k, [run[r][k] EXCEPT !.at = "lost", !.status = 503])

-----------------------------------------------------------------------------
(* Lists of orders and cases may be empty; a customer or an account is 404. *)
CrmCustomer(a) == IF a.known THEN "row" ELSE "norow"
OmsOrders(a) == "row"
SupportCases(a) == "row"
LoyaltyAccount(a) == IF a.known THEN "row" ELSE "norow"
SourceRow(a) ==
  CASE a.kind = "crm"     -> CrmCustomer(a)
    [] a.kind = "oms"     -> OmsOrders(a)
    [] a.kind = "support" -> SupportCases(a)
    [] a.kind = "loyalty" -> LoyaltyAccount(a)

(* What a source answers its system API, with the fault a demo asked for. *)
SourceOutcomes(a) ==
  CASE a.fault = "timeout"  -> {"timeout"}
    [] a.fault = "error"    -> {"unavailable"}
    [] a.fault = "throttle" -> {"rejected"}
    [] a.fault = "flaky"    -> {SourceRow(a), "unavailable"}
    [] a.fault = "none"     -> {SourceRow(a), "unavailable", "timeout"}

(* crm_customer, oms_orders, support_cases, loyalty_account: not being      *)
(* enrolled is an answer.                                                   *)
SourceAnswer(a, o) ==
  CASE o = "row"                           -> [Error(200) EXCEPT !.shown = {"core"}]
    [] o = "norow" /\ a.kind = "loyalty"   -> Error(200)
    [] OTHER                               -> Error(StatusOf[o])

SourceRead(r) ==
  /\ ask[r].kind \in Sources /\ reply[r] = NoReply
  /\ \/ Refused(ask[r]) # 0 /\ Tell(r, Error(Refused(ask[r])))
     \/ Refused(ask[r]) = 0
        /\ \E o \in SourceOutcomes(ask[r]) : Tell(r, SourceAnswer(ask[r], o))

(* SP_BUILD_CUSTOMER_360 *)
EmptyCustomer360 ==
  /\ ~rebuilding /\ rebuilding' = TRUE
  /\ UNCHANGED <<ask, try, waited, run, reply>>
FillCustomer360 ==
  /\ rebuilding /\ rebuilding' = FALSE
  /\ UNCHANGED <<ask, try, waited, run, reply>>

(* Nothing waits longer than its client lets it. *)
Tick ==
  /\ \E r \in Requests : Waiting(r) \/ \E k \in 1..Attempts : Active(run[r][k])
  /\ \A r \in Requests : Waiting(r) => waited[r] < Timeout
  /\ \A r \in Requests, k \in 1..Attempts :
       Active(run[r][k]) => run[r][k].age < Budget(ask[r], run[r][k].at)
  /\ waited' = [r \in Requests |-> IF Waiting(r) THEN waited[r] + 1 ELSE waited[r]]
  /\ run' = [r \in Requests |-> [k \in 1..Attempts |->
               IF Active(run[r][k]) THEN [run[r][k] EXCEPT !.age = @ + 1]
                                    ELSE run[r][k]]]
  /\ UNCHANGED <<ask, try, reply, rebuilding>>

-----------------------------------------------------------------------------
Serve(r) ==
  \/ Arrive(r) \/ Receive(r) \/ TimeOut(r) \/ SourceRead(r)
  \/ \E k \in 1..Attempts : ReadTimesOut(r, k)

Next ==
  \/ \E r \in Requests : Serve(r) \/ \E k \in 1..Attempts : Read(r, k) \/ RunLost(r, k)
  \/ \E r \in Requests : EdgeLimited(r)
  \/ EmptyCustomer360 \/ FillCustomer360
  \/ Tick

(* The event loop gets to every step a layer can take by itself; whether a  *)
(* system below ever answers is left open.                                  *)
Fairness == WF_vars(\E r \in Requests : Serve(r)) /\ WF_vars(Tick)
Spec == Init /\ [][Next]_vars /\ Fairness

-----------------------------------------------------------------------------
(* What the client sees of a part agrees with how its read ended two        *)
(* layers below, in the run that made the answer: shown only if read,       *)
(* named as degraded iff it failed, silently empty only if there is         *)
(* nothing.  The churn-risk endpoint shows no degraded fields; its answer   *)
(* is the score.                                                            *)
AnswerHonest ==
  \A r \in Requests :
    reply[r].status = 200 /\ ask[r].kind \notin Sources =>
      LET wire == run[r][try[r]].wire IN
      /\ \A part \in reply[r].shown : wire[part] = "row"
      /\ ask[r].kind # "churn" =>
           reply[r].named = {part \in Reads : wire[part] \in Failures}
      /\ ask[r].kind = "360" =>
           \A part \in SoftReads(ask[r]) \ (reply[r].shown \cup reply[r].named) :
             wire[part] = "norow"

(* How the hard read of the run that r waits for ended. *)
HardEnded(r, o) == \E part \in HardRead(ask[r]) : run[r][try[r]].wire[part] = o

(* What r is told now, if it is told anything, is what its hard read says. *)
Decided(r) ==
  LET told == reply'[r].status IN
  /\ told = 404 => HardEnded(r, "norow")
  /\ told = 401 => HardEnded(r, "unauthorized")
  /\ told = 400 => HardEnded(r, "rejected") \/ run[r][try[r]] = LimitedRun
  /\ HardEnded(r, "norow") /\ waited[r] < Timeout =>
       told = 404 \/ UNCHANGED <<try[r], reply[r]>>

(* Only the hard read of the run at hand decides what a client is refused   *)
(* with: it hears that the customer does not exist, or that its call is     *)
(* wrong, not because of what another read of the same customer met, but    *)
(* because the hard read ended so or, for a 400, because the limiter of the *)
(* process layer refused the attempt before anything was read.  And an      *)
(* absent customer is a 404 when the answer is in time, never a failure     *)
(* that is retried or reported as an outage.                                *)
HardReadDecides ==
  [][\A r \in Requests : try[r] > 0 /\ reply[r] = NoReply => Decided(r)]_vars

(* Every request is answered, whatever is down: every call has a time-out   *)
(* and a bounded number of attempts.                                        *)
RequestsEnd == \A r \in Requests : <>(reply[r] # NoReply)
=============================================================================
