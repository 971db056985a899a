------------------------------ MODULE AiBulkhead ------------------------------
(***************************************************************************)
(* The paths of the process layer that call the AI service, and what they  *)
(* share: the bulkhead and the idempotency store of                        *)
(* services/gateway/process_layer.py, built from services/common/          *)
(* resilience.py.                                                          *)
(*                                                                         *)
(* A request is one HTTP request.  "analysis" is POST .../ai-analysis,     *)
(* the one that honours Idempotency-Key; "insights" is GET .../insights;   *)
(* "customer360" is GET .../360 with includeAi=true, which reaches the AI  *)
(* service through the same bulkhead but with the default number of        *)
(* attempts.  A request begins here when it reaches its AI part: those     *)
(* whose earlier reads fail never do.                                      *)
(*                                                                         *)
(* The AI service is a second actor: its handler serves the asked          *)
(* capabilities one after another, each from a stored insight or with a    *)
(* generation, and goes on to its end whether or not the process layer     *)
(* still waits for the answer (httpx gives up after its timeout; nothing   *)
(* cancels the handler or its model calls).                                *)
(***************************************************************************)
EXTENDS Integers, Sequences, FiniteSets

CONSTANTS
  Requests,
  KindOf,           \* the endpoint each request calls
  KeyOf,            \* its Idempotency-Key, or NoKey
  Keys, NoKey,
  NoAnswer,
  Asked,            \* how many capabilities each request asks for
  BulkheadLimit,    \* Bulkhead(limit=4)
  DefaultAttempts,  \* max_retry_attempts, where retries=1 is not given
  TTL,              \* idempotency_ttl_seconds
  MaxRestarts       \* bound on worker restarts

ASSUME AiBulkheadAssumption ==
  /\ IsFiniteSet(Requests)
  /\ KindOf \in [Requests -> {"analysis", "insights", "customer360"}]
  /\ KeyOf \in [Requests -> Keys \cup {NoKey}]
  /\ NoKey \notin Keys /\ NoAnswer \notin Requests
  /\ Asked \in [Requests -> Nat]
  /\ \A r \in Requests :
       /\ KindOf[r] = "analysis" => Asked[r] = 1
       /\ KindOf[r] = "customer360" => Asked[r] = 2
  /\ BulkheadLimit \in Nat \ {0}
  /\ DefaultAttempts \in Nat \ {0}
  /\ TTL \in Nat /\ MaxRestarts \in Nat

VARIABLES
  pc,          \* where each request is
  permits,     \* Semaphore._value
  waiters,     \* Semaphore._waiters: requests in arrival order
  store,       \* IdempotencyStore._store: whose answer each key holds
  age,         \* seconds since a request's answer was stored, up to TTL + 1
  made,        \* attempts each request has sent to the AI service
  handler,     \* the AI service's handler of each attempt
  left,        \* the capabilities that handler has yet to serve
  started,     \* the generations that handler has started
  reply,       \* the request whose AI answer each request was given
  restarts,
  remembered,  \* history: keyed requests this worker has answered with a 200
  settled      \* history: requests that arrived after such an answer, in time

vars == <<pc, permits, waiters, store, age, made, handler, left, started,
          reply, restarts, remembered, settled>>
bulkheadVars == <<permits, waiters>>
serviceVars == <<handler, left, started>>

Keyed(r) == KindOf[r] = "analysis" /\ KeyOf[r] \in Keys
Attempts == 1..DefaultAttempts

(* Seeded fault: retries=1 is forgotten. *)
AttemptLimitDefault(r) == DefaultAttempts

(* ai_analysis and insights pass retries=1 to the client; customer_360     *)
(* passes nothing.                                                         *)
AttemptLimit(r) == IF KindOf[r] = "customer360" THEN DefaultAttempts ELSE 1

(* The answer, a replayed answer, an error response, a response without    *)
(* its AI part, or no response at all because the worker died.             *)
Finished == {"ok", "replayed", "failed", "degraded", "lost"}

Holding == {"holding", "calling", "backoff"}
Holders == {r \in Requests : pc[r] \in Holding}
Busy == {"open", "running"}

TypeOK ==
  /\ pc \in [Requests -> {"new", "waiting"} \cup Holding \cup Finished]
  /\ permits \in 0..BulkheadLimit
  /\ waiters \in Seq(Requests)
  /\ store \in [Keys -> Requests \cup {NoAnswer}]
  /\ age \in [Requests -> 0..(TTL + 1)]
  /\ made \in [Requests -> 0..DefaultAttempts]
  /\ handler \in [Requests -> [Attempts -> {"none", "over"} \cup Busy]]
  /\ left \in [Requests -> [Attempts -> Nat]]
  /\ started \in [Requests -> [Attempts -> Nat]]
  /\ reply \in [Requests -> Requests \cup {NoAnswer}]
  /\ restarts \in 0..MaxRestarts
  /\ remembered \subseteq Requests
  /\ settled \subseteq Requests

Init ==
  /\ pc = [r \in Requests |-> "new"]
  /\ permits = BulkheadLimit
  /\ waiters = <<>>
  /\ store = [k \in Keys |-> NoAnswer]
  /\ age = [r \in Requests |-> TTL + 1]
  /\ made = [r \in Requests |-> 0]
  /\ handler = [r \in Requests |-> [n \in Attempts |-> "none"]]
  /\ left = [r \in Requests |-> [n \in Attempts |-> 0]]
  /\ started = [r \in Requests |-> [n \in Attempts |-> 0]]
  /\ reply = [r \in Requests |-> NoAnswer]
  /\ restarts = 0
  /\ remembered = {}
  /\ settled = {}

-----------------------------------------------------------------------------
(* The bulkhead: asyncio.Semaphore, whose waiters are served in order.     *)

(* Enter the bulkhead, or queue behind those that already wait. *)
Acquire(r) ==
  \/ /\ permits > 0 /\ waiters = <<>>
     /\ permits' = permits - 1
     /\ pc' = [pc EXCEPT ![r] = "holding"]
     /\ UNCHANGED waiters
  \/ /\ permits = 0 \/ waiters # <<>>
     /\ waiters' = Append(waiters, r)
     /\ pc' = [pc EXCEPT ![r] = "waiting"]
     /\ UNCHANGED permits

(* Seeded fault: the permit given to the first waiter is also returned. *)
ReleaseTwice(r, end) ==
  /\ permits' = permits + 1
  /\ waiters' = IF waiters = <<>> THEN waiters ELSE Tail(waiters)
  /\ pc' = [q \in Requests |->
              IF q = r THEN end
              ELSE IF waiters # <<>> /\ q = Head(waiters) THEN "holding" ELSE pc[q]]

(* Leave the bulkhead and end the request: the permit goes to the first    *)
(* waiter if there is one.                                                 *)
Release(r, end) ==
  \/ /\ waiters = <<>>
     /\ permits' = permits + 1
     /\ pc' = [pc EXCEPT ![r] = end]
     /\ UNCHANGED waiters
  \/ /\ waiters # <<>>
     /\ waiters' = Tail(waiters)
     /\ pc' = [pc EXCEPT ![r] = end, ![Head(waiters)] = "holding"]
     /\ UNCHANGED permits

-----------------------------------------------------------------------------
(* The idempotency store *)

(* Seeded faults: nothing is ever evicted; an entry as old as the TTL is. *)
UnexpiredNever == store

UnexpiredEarly ==
  [k \in Keys |-> IF store[k] # NoAnswer /\ age[store[k]] >= TTL THEN NoAnswer ELSE store[k]]

(* _evict drops every entry whose age exceeds the TTL. *)
Unexpired ==
  [k \in Keys |-> IF store[k] # NoAnswer /\ age[store[k]] > TTL THEN NoAnswer ELSE store[k]]

(* A keyed answer that this worker returned and that is not older than the *)
(* TTL: what a repeated key is promised.                                   *)
AnsweredInTime(k) ==
  \E s \in remembered : KeyOf[s] = k /\ age[s] <= TTL

-----------------------------------------------------------------------------
(* The requests *)

(* A keyed request whose key is in the store is answered from it. *)
Replay(r) ==
  /\ pc[r] = "new"
  /\ Keyed(r)
  /\ store' = Unexpired
  /\ Unexpired[KeyOf[r]] # NoAnswer
  /\ reply' = [reply EXCEPT ![r] = Unexpired[KeyOf[r]]]
  /\ pc' = [pc EXCEPT ![r] = "replayed"]
  /\ settled' = IF AnsweredInTime(KeyOf[r]) THEN settled \cup {r} ELSE settled
  /\ UNCHANGED <<permits, waiters, age, made, restarts, remembered>>
  /\ UNCHANGED serviceVars

(* Any other request goes for the bulkhead; a miss leaves no mark in the   *)
(* store.                                                                  *)
Arrive(r) ==
  /\ pc[r] = "new"
  /\ \/ /\ Keyed(r)
        /\ store' = Unexpired
        /\ Unexpired[KeyOf[r]] = NoAnswer
        /\ settled' = IF AnsweredInTime(KeyOf[r]) THEN settled \cup {r} ELSE settled
     \/ /\ ~Keyed(r)
        /\ UNCHANGED <<store, settled>>
  /\ Acquire(r)
  /\ UNCHANGED <<age, made, reply, restarts, remembered>>
  /\ UNCHANGED serviceVars

(* One attempt: it reaches a handler of the AI service, or it does not     *)
(* (rejected before the handler, lost on the way).                         *)
Send(r) ==
  /\ pc[r] \in {"holding", "backoff"}
  /\ pc' = [pc EXCEPT ![r] = "calling"]
  /\ made' = [made EXCEPT ![r] = @ + 1]
  /\ \/ /\ handler' = [handler EXCEPT ![r][made[r] + 1] = "open"]
        /\ left' = [left EXCEPT ![r][made[r] + 1] = Asked[r]]
        /\ UNCHANGED started
     \/ UNCHANGED serviceVars
  /\ UNCHANGED <<permits, waiters, store, age, reply, restarts, remembered, settled>>

(* The 200: the bulkhead is left first, then a keyed answer is stored,     *)
(* over whatever the key holds by now.                                     *)
Deliver(r) ==
  /\ Release(r, "ok")
  /\ reply' = [reply EXCEPT ![r] = r]
  /\ IF Keyed(r)
     THEN /\ store' = [store EXCEPT ![KeyOf[r]] = r]
          /\ age' = [age EXCEPT ![r] = 0]
          /\ remembered' = remembered \cup {r}
     ELSE UNCHANGED <<store, age, remembered>>

(* How a request ends when its AI call fails: ai_analysis propagates the   *)
(* error, the other two answer without the AI part.                        *)
FailureEnd(r) == IF KindOf[r] = "analysis" THEN "failed" ELSE "degraded"

HandlerEnds(r, n) ==
  /\ handler' = [handler EXCEPT ![r][n] = "over"]
  /\ left' = [left EXCEPT ![r][n] = 0]
  /\ UNCHANGED started

(* Seeded faults: a request that gives up keeps its permit; a retry loop   *)
(* that forgets that it has tried (and, here, what its attempts did).      *)
FailTransientLeaks(r) ==
  /\ pc[r] = "calling"
  /\ pc' = [pc EXCEPT ![r] = IF made[r] < AttemptLimit(r) THEN "backoff" ELSE FailureEnd(r)]
  /\ UNCHANGED bulkheadVars
  /\ UNCHANGED serviceVars
  /\ UNCHANGED <<store, age, made, reply, restarts, remembered, settled>>

FailTransientForever(r) ==
  /\ pc[r] = "calling"
  /\ pc' = [pc EXCEPT ![r] = "backoff"]
  /\ made' = [made EXCEPT ![r] = 0]
  /\ handler' = [handler EXCEPT ![r] = [n \in Attempts |-> "none"]]
  /\ left' = [left EXCEPT ![r] = [n \in Attempts |-> 0]]
  /\ started' = [started EXCEPT ![r] = [n \in Attempts |-> 0]]
  /\ UNCHANGED bulkheadVars
  /\ UNCHANGED <<store, age, reply, restarts, remembered, settled>>

(* A timeout or a connection error (the handler, if any, goes on), or a    *)
(* 5xx of the handler: sleep inside the bulkhead while attempts are left,  *)
(* else leave it.                                                          *)
FailTransient(r) ==
  /\ pc[r] = "calling"
  /\ \/ UNCHANGED serviceVars
     \/ handler[r][made[r]] \in Busy /\ HandlerEnds(r, made[r])
  /\ \/ /\ made[r] < AttemptLimit(r)
        /\ pc' = [pc EXCEPT ![r] = "backoff"]
        /\ UNCHANGED bulkheadVars
     \/ /\ made[r] = AttemptLimit(r)
        /\ Release(r, FailureEnd(r))
  /\ UNCHANGED <<store, age, made, reply, restarts, remembered, settled>>

(* Not retried: the circuit breaker refuses the attempt, or the AI service *)
(* answers 4xx, before the handler or, for an analysis, from inside it.    *)
Refuse(r) ==
  /\ \/ pc[r] \in {"holding", "backoff"} /\ UNCHANGED serviceVars
     \/ pc[r] = "calling" /\ handler[r][made[r]] = "none" /\ UNCHANGED serviceVars
     \/ /\ pc[r] = "calling" /\ handler[r][made[r]] \in Busy
        /\ KindOf[r] = "analysis"
        /\ HandlerEnds(r, made[r])
  /\ Release(r, FailureEnd(r))
  /\ UNCHANGED <<store, age, made, reply, restarts, remembered, settled>>

-----------------------------------------------------------------------------
(* The handlers of the AI service                                          *)

(* The next capability: a stored insight (or one that fails before its     *)
(* completion, which only a list of insights survives), or a generation.   *)
Begin(r, n) ==
  /\ handler[r][n] = "open" /\ left[r][n] > 0
  /\ left' = [left EXCEPT ![r][n] = @ - 1]
  /\ \/ UNCHANGED <<handler, started>>
     \/ /\ handler' = [handler EXCEPT ![r][n] = "running"]
        /\ started' = [started EXCEPT ![r][n] = @ + 1]
  /\ UNCHANGED <<pc, permits, waiters, store, age, made, reply, restarts, remembered, settled>>

(* A generation ends, and the loop over the asked capabilities goes on,    *)
(* whichever way it ended.                                                 *)
Generated(r, n) ==
  /\ handler[r][n] = "running"
  /\ handler' = [handler EXCEPT ![r][n] = "open"]
  /\ UNCHANGED <<pc, permits, waiters, store, age, made, left, started, reply, restarts,
                 remembered, settled>>

(* The process layer still waits for this attempt. *)
Awaited(r, n) == pc[r] = "calling" /\ made[r] = n

(* Every capability is served: the answer goes to the request if it still  *)
(* waits for this attempt; otherwise nobody reads it.                      *)
Answered(r, n) ==
  /\ handler[r][n] = "open" /\ left[r][n] = 0
  /\ HandlerEnds(r, n)
  /\ \/ Awaited(r, n) /\ Deliver(r)
     \/ /\ ~Awaited(r, n)
        /\ UNCHANGED <<pc, permits, waiters, store, age, reply, remembered>>
  /\ UNCHANGED <<made, restarts, settled>>

(* A handler nobody waits for ends in an error. *)
ErrsUnread(r, n) ==
  /\ handler[r][n] \in Busy
  /\ ~Awaited(r, n)
  /\ HandlerEnds(r, n)
  /\ UNCHANGED <<pc, permits, waiters, store, age, made, reply, restarts, remembered, settled>>

-----------------------------------------------------------------------------
(* The worker dies and is started again: its memory is gone, and with it   *)
(* the store; the AI service notices nothing.                              *)
Restart ==
  /\ restarts < MaxRestarts
  /\ restarts' = restarts + 1
  /\ pc' = [r \in Requests |-> IF pc[r] \in {"new"} \cup Finished THEN pc[r] ELSE "lost"]
  /\ permits' = BulkheadLimit
  /\ waiters' = <<>>
  /\ store' = [k \in Keys |-> NoAnswer]
  /\ remembered' = {}
  /\ UNCHANGED <<age, made, reply, settled>>
  /\ UNCHANGED serviceVars

Tick ==
  /\ \E r \in Requests : age[r] <= TTL
  /\ age' = [r \in Requests |-> IF age[r] <= TTL THEN age[r] + 1 ELSE age[r]]
  /\ UNCHANGED <<pc, permits, waiters, store, made, reply, restarts, remembered, settled>>
  /\ UNCHANGED serviceVars

(* Every request served and every handler over. *)
Idle ==
  /\ \A r \in Requests : pc[r] \in Finished
  /\ \A r \in Requests, n \in Attempts : handler[r][n] \notin Busy
  /\ UNCHANGED vars

Request(r) == Replay(r) \/ Arrive(r)
Step(r) == Send(r) \/ FailTransient(r) \/ Refuse(r)
Serve(r, n) == Begin(r, n) \/ Generated(r, n) \/ Answered(r, n) \/ ErrsUnread(r, n)

Next ==
  \/ \E r \in Requests : Request(r) \/ Step(r)
  \/ \E r \in Requests, n \in Attempts : Serve(r, n)
  \/ Restart
  \/ Tick
  \/ Idle

Spec == Init /\ [][Next]_vars

(* The event loop runs every coroutine that can run, and an attempt ends   *)
(* because it has a timeout.  Nothing is assumed of the handlers.          *)
FairSpec == Spec /\ \A r \in Requests : WF_vars(Step(r))

-----------------------------------------------------------------------------
(* Safety *)

(* process_layer.py:154, 262, 285.  Permits are never lost nor multiplied, *)
(* whichever way requests leave the bulkhead, and nobody waits while a     *)
(* permit is free: at most BulkheadLimit requests are inside.              *)
PermitsConserved ==
  /\ permits + Cardinality(Holders) = BulkheadLimit
  /\ waiters # <<>> => permits = 0
  /\ \A r \in Requests : pc[r] = "waiting" <=> \E i \in DOMAIN waiters : waiters[i] = r
  /\ \A i, j \in DOMAIN waiters : waiters[i] = waiters[j] => i = j

(* process_layer.py:257-274.  A keyed request that arrives after this      *)
(* worker has answered the same key, and within the TTL of that answer, is *)
(* never sent to the AI service, whatever other requests with the key did  *)
(* to the store in between.                                                *)
SettledNotSent == \A r \in settled : made[r] = 0 /\ pc[r] = "replayed"

(* process_layer.py:257-260.  A replayed answer is one the AI service gave *)
(* to another request with the same key, at most TTL ago.                  *)
ReplayIsFresh ==
  [][\A r \in Requests :
       pc[r] # "replayed" /\ pc'[r] = "replayed" =>
         /\ reply'[r] \in remembered
         /\ Keyed(reply'[r]) /\ KeyOf[reply'[r]] = KeyOf[r]
         /\ age[reply'[r]] <= TTL]_vars

(* process_layer.py:268-271, 287-288; ai_service/app.py:118-128.  However  *)
(* its calls fail and however long the handlers outlive them, an analysis  *)
(* is generated once at most, and insights at most once per capability     *)
(* asked for; only customer_360 multiplies that by its attempts.           *)
GenerationsBounded ==
  \A r \in Requests :
    /\ Cardinality({n \in Attempts : started[r][n] > 0}) <= AttemptLimit(r)
    /\ \A n \in Attempts : started[r][n] <= Asked[r]
    /\ pc[r] = "backoff" => KindOf[r] = "customer360"

(* process_layer.py:154, 262, 285.  No request stays in the AI part for    *)
(* ever, those that queue for the bulkhead included: each leaves it for    *)
(* good, since none is new again.                                          *)
RequestsEnd ==
  \A r \in Requests : []<>(pc[r] \in {"new"} \cup Finished)

-----------------------------------------------------------------------------
(* What the documentation says and the code does not do                    *)

(* docs/ai-architecture.md:369 "A client retrying on timeout is not billed *)
(* twice": the requests with one key cause one generation.                 *)
BilledOncePerKey ==
  \A k \in Keys :
    Cardinality({g \in Requests \X Attempts :
      Keyed(g[1]) /\ KeyOf[g[1]] = k /\ started[g[1]][g[2]] > 0}) <= 1

=============================================================================
