# Verification of the Enterprise Data & AI Integration Platform

TLA+ models of the parts of this platform whose correctness depends on order,
concurrency, failure or time; TLC configurations that check them on small
instances; and TLAPS proofs that extend the most important results to every
value of the constants. Paths below are relative to `src/`.

## 1. The system

A client request passes three gateway layers, each its own process
(`services/gateway/main.py`): Experience, Process, System. The Process layer also
calls the AI service; the System layer calls the Data API, which fronts the
warehouse, and the source systems. Below the services a warehouse is loaded from
RAW through STAGING to CORE, from which Customer 360, features and churn scores
are built.

```
client -> Experience -> Process -> System -> Data API -> warehouse (RAW>STAGING>CORE>360>AI)
                           |                     ^
                           +--> AI service ------+   grounding, stored insights, audit
```

### 1.1 Inventory

| Component | State it keeps | Operations | Interacts through | What is hard | What makes it correct |
|---|---|---|---|---|---|
| Circuit breaker and retry loop, `services/common/resilience.py`, `http_client.py` | per dependency: state, failure count, time of opening; per call: attempt number | before_call, on_success, on_failure, lazy read of `state`, retry with back-off | one breaker object shared by all coroutines of a process | late reports after the breaker opened, lazy transitions, retries that slept through the opening | state agrees with count; an open breaker only drains; refusals end; attempts stay in budget |
| Bulkhead and idempotency store, `resilience.py`, used in `gateway/process_layer.py` | permits and waiters; answers by key with a time | acquire, release, get with eviction, put | three endpoints share one bulkhead; keyed analyses share the store | lookup and put separated by awaits; time-outs that do not stop a generation; worker restart | permits conserved; an answered key is not sent again; generations per request bounded |
| Rate limiter, `services/common/middleware.py` | one deque of times per key | evict, admit or refuse, headers | one middleware in every layer; keys are client ids or addresses | boundary of the window, rounding of Retry-After, reading the bucket after an await | sliding window, honest headers |
| Customer 360 assembly, `gateway/process_layer.py` | degradation record of the request | core read, concurrent reads, AI part | System layer, AI service | partial failure; which failures are hard; runs that their caller gave up | a degraded field is reported, and only then; only the core read is hard |
| Experience and store layers, `gateway/experience_layer.py`, `store_experience_layer.py` | none | check the token, call, shape, mask, map errors | Process layer | outage against absence; equal time-outs in every layer | what is shown agrees with what was read two layers below; every request is answered |
| System layer, `gateway/system_layer.py` | none | statements, source reads, decoding of results | Data API, source systems | absence against failure; typed values | values survive the wire |
| Data API, `data_api/app.py` | results of asynchronous statements | submit, poll, cancel, named writes | DuckDB connection under a lock | failure half way; write retried by its caller; restart | an acknowledged write is stored, a refused attempt stores nothing; a handle never waits for nothing |
| AI insight pipeline, `ai_service/capabilities.py`, `app.py`, `common/data_platform.py` | rows of AI_CUSTOMER_INSIGHTS, AI_REQUEST_AUDIT | stored-insight lookup, grounding, generate, guardrail, review, persist, audit | Data API, model provider | steps that fail singly, stale stored insights, concurrent misses | every generation audited, unless its audit write failed or its text raised; blocked text never served; review status survives storage |
| Guardrails, evaluation, retrieval, prompts, providers, `ai_service/*` | none (the corpus) | checks and scores of a text, chunking, provider call | insight pipeline | what a pattern does not see; the two limits of a chunk | every number traceable; chunks hold the article whole |
| Security, masking, errors, `common/security.py`, `pii.py`, `errors.py` | none | tokens, scopes, masks, statuses | every layer | what an error becomes one layer up | - |
| Staging and rebuild of CORE, `snowflake/06-transformations`, `local_warehouse/build.py` | RAW, STAGING, CORE tables | delete-and-insert staging; SCD2 close and open; order attribution | Snowpipe lands records at any time | run stopping between statements; late, undated, duplicate records | one open version, unbroken chain, history immutable |
| Scheduled load, `snowflake/05-pipelines/03`, `04`, `04-procedures/01` | stream offset, run log, task | stage, gate, two merges, checks, log | same tables as the rebuild | stream consumed or recreated between passes | a finished run takes away no open version; success means loaded |
| Local build, `local_warehouse/*` | the warehouse file, the errors of the build | scripts in order, loader, rules, corpus | Data API holds the file open | failed steps, kills, unlinked file | success means every table made from complete sources |
| Customer 360, features, churn, `snowflake/07`, `08` | whole tables | delete-and-insert | CORE | build order; readers between DELETE and INSERT | a complete build's tables rest on complete ones |
| Data quality and quarantine, `snowflake/09`, `04-procedures/02`, `dq_runner.py` | rule results, rejected records | run rules, quarantine | RAW, STAGING | rejected twice or not at all | no record disappears |
| Knowledge-base refresh, `snowflake/04-procedures/03` | documents, chunks | merge, delete, re-embed | retrieval | "changed" read off a clock window | chunks agree with documents |
| Warehouse definition and security, `snowflake/00`-`03`, `10` | - | declarations | - | - | - |
| Mule applications, `mule/` | object store for idempotency | flows of the three layers | - | the design the Python services mirror | - |
| Mocks, API specifications, scripts, docs, tests | - | - | - | - | - |

### 1.2 Hazards

`PROJECT.json` lists the hazards by line, each with the properties that would
catch it or the reason nothing does yet.

## 2. Modules

| Module | Models | Rests on |
|---|---|---|
| `CircuitBreaker` | breaker and retry loop of one dependency | refines `LoadGate` |
| `LoadGate` | abstract: what a breaker promises the dependency | - |
| `AiBulkhead` | Process layer's AI calls, bulkhead, store, generations, restart | - |
| `RateLimiter` | the middleware on two tiers | - |
| `Customer360` | a client request through Experience, Process and System layers | - |
| `AiInsights` | generation pipeline of the AI service | - |
| `DataPlatform` | client and server of the SQL API and of the named writes | - |
| `CustomerScd2` | RAW to STAGING to CORE.CUSTOMER, order attribution | - |
| `Scd2Nightly` | task DAG and incremental merges, beside the rebuild | EXTENDS `CustomerScd2` |
| `LocalBuild` | rebuild of the warehouse file, beside the Data API | EXTENDS `KbCorpus` |
| `KbCorpus` | chunking of knowledge articles | - |
| `*_proofs` | theorems of the module they extend | TLAPS |
| `MC*` | instances for TLC | - |

The modules meet where one leaves a choice that another one makes. A read of
`Customer360` ends in any way its dependency can; that the breaker ends refusals is
`CircuitBreaker`, that the AI slot is given back is `AiBulkhead`. `AiBulkhead` has the
generation as an actor that starts and ends; `AiInsights` is what happens in it. A
call of the data platform in `AiInsights` works or fails, and a failed write may have
been stored; `DataPlatform` is why. `Customer360` sees the refresh of its table as a
DELETE and an INSERT; `LocalBuild` has the order of all such scripts.

In every module an operator that begins with the comment "Seeded fault" is not
part of the model: it is a plausible bug, put in place of the operator below it
to show that a property notices it (`PROJECT.json`, "mutants").

### 2.1 CircuitBreaker

The event loop switches coroutines only at an `await`, so the code between two
awaits is one action. `Admit` is the top of the loop in `retry_async`
(`before_call`, then the request is sent); `Succeed`, `FailTransient` and `Reject`
are the ends of an attempt with their report to the breaker and the decision to
sleep or give up; `FailFast` is the exception `before_call` raises; `Snapshot` is
`GET /health`, which turns OPEN into HALF_OPEN by reading it. `Observed` is the
`state` property. A slot of `Requests` serves one HTTP request after another
(`NewRequest`), so nothing bounds how many arrive.

Abstractions: the count stops at the threshold and the age of the opening at the
reset period, since the code only compares them; back-off length and jitter are
left out, a sleeper may wake at any time. The clock does not go back.

### 2.2 AiBulkhead

`Arrive` and `Replay` are `ai_analysis` up to its first `await`, the lookup and its
eviction included; `Acquire` and `Release` are `asyncio.Semaphore` (a released
permit goes to the first waiter); `Send`, `Answered`, `FailTransient` and `Refuse`
are the call and the ways it ends. `Deliver` leaves the bulkhead and then stores, in
one step because nothing awaits in between.

The AI service is a second actor. `Send` opens a handler, or is lost on the way; the
handler serves its capabilities one after another (one for `ai_analysis`, two for
`customer_360`, any number for `insights`, whose loop is
`ai_service/app.py:110-130`): `Begin` takes a stored insight or starts a generation,
`Generated` ends it, well or badly, `Answered` is its response, delivered if the
process layer still waits for this attempt; `ErrsUnread` is its end in an error nobody
reads. A time-out of the caller leaves the handler as it is, so a retry runs beside
it. `Restart` empties the worker's memory and loses its requests, not the handlers.
`remembered` and `settled` are history.

Abstractions: the store's clock is the age of each stored answer up to TTL + 1. The
AI service's own lookup is a choice between answering without generating and
starting a generation. A request is not repeated by its slot: a client's retry is
another request with the same key.

### 2.3 RateLimiter

`Arrive` is `dispatch` of the Experience layer, keyed by `client_id`; `Call` is
`dispatch` of the Process layer, keyed by the address of its only caller, since
`http_client.py:46-86` sends no client id; `Answer` is what follows `call_next`. Time
is in ticks, three to a second, because Retry-After is rounded to seconds and the
window is not. Exempt paths and the eviction of empty deques (there is none) are
left out.

### 2.4 CustomerScd2 and Scd2Nightly

One action per SQL statement, each committed by itself. `EmptyStaging`,
`FillStaging`: `01-raw-to-staging-customer.sql`, latest record per customer and
survivor per match key, ties chosen by the engine. `CloseChanged`, `OpenNew`,
`AttachOrders`: the UPDATE, the INSERT and the version key of orders in
`04-staging-to-core-scd2.sql`. `Stop` ends a run anywhere, `SkipStaging` is
`build.py` going on after a failed statement, `Land` is Snowpipe between any two.
`LoseCore` is the corruption the script's header speaks of.

`Scd2Nightly` adds the task DAG: the stream is an offset, STAGING is replaced as a
whole, so the stream holds all of it or nothing; `RecreateStream`, `MergeClose`,
`MergeOpen` and `ChecksAndLog` are the statements of
`05-pipelines/03-incremental-scd2-merge.sql` and `SP_LOAD_CORE_SCD2`. The rebuild
runs only while the DAG is idle, which is an assumption about the operator.

Abstractions: a record is a business key, a match key, the value of the tracked
hash and an update time. DQ_STATUS is left out because the only rule that fails a
row also keeps it out of STAGING. RAW is only added to.

### 2.5 Customer360

`Arrive` is the token and scope check of an endpoint, `Call`, `Receive` and `TimeOut`
are `DownstreamClient.request` of the Experience layer: each attempt starts a run of the
Process layer, and a run whose caller gave up goes on. A run is at its hard read, at its
soft reads (together, in any order: `asyncio.gather`), at its AI part, or done. `Safe`
is `_safe`: absence is an answer, any other error is recorded. `EndHard` is the one
`await` outside `_safe`. `RunLost` is a worker that dies. `Relayed` is what the next
layer makes of a status. `Shape...` are the answers of the endpoints. `SourceRead` is a
source system's read through the System layer, with the mock's fault injection.
`LimitedRun` is an attempt that the process layer's rate limiter refuses before any
handler starts: its 429 becomes a 400 in `DownstreamClient` (`http_client.py:72-76`), so
nothing was read and the client is told 400. `EdgeLimited` is the Experience layer's own
limiter (429). Both may refuse at any time, since other clients fill the same buckets;
`RateLimiter` is about when. `wire` in a run is history: how each read really ended,
which `AnswerHonest` compares with what the client is shown.

Abstractions: a read of the Process layer stands for all attempts of its own client,
with the time those may take (`Budget`); the other fields of a part are one value;
where `_safe` treats all failures alike one failure stands for them.

### 2.6 AiInsights

One action per `await` of `generate`: `Lookup`, `ReadFacts`, `ReadCases`, `Retrieve`,
`Generate` or `GenerateFails`, `PersistInsight`, `PersistScores`, `Audit`; `Arrive` and
`NextCapability` are `analyse` and the loop of `insights`. A text is the set of its
numbers, those that only close a sentence, the action it names, and whether it leaks.
The local provider is a function of the facts, with the rules of the code; a remote
model may return all it was shown, an invented number or action, a leak, an action
that is no string, or null for its text. The last two raise after the model has
answered and before any write (`Raises`: `evaluation.py:81`, `capabilities.py:325`,
outside the `try` around the provider), so `Generate` then ends the request with a 500
(`Raised`) and nothing is stored or audited.
`Confidence` has the code's weights in ten-thousandths. A write may fail before or
after it is stored. `Nightly` replaces the facts, `Tick` lets stored insights expire.

Abstractions: one customer; numbers up to ten, which no check looks at, are left out;
PII_LEAKAGE always passes, since `generate` calls it with no forbidden values; of
RELEVANCE only the exception is kept, no decision uses its score. `Tick` waits for the
first stored insight, before which the time makes no difference. Retrieval finds nothing
or one article, with a score just above the floor.

### 2.7 DataPlatform

`Write`, `Query`, `TimeOut`, `Hears` are the client; `SubmitSync`, `SubmitAsync`,
`InternalWrite`, `Health`, `Poll` and `Cancel` the handlers of `data_api/app.py`, each
one step because the server holds no await within them. `Limited` is the server's rate
limiter, which refuses an attempt before its handler; the client makes a 400 of the
429 and does not retry. An attempt whose client gave
up may still be served, an answer may be lost (`Hears`' second disjunct), the server
may restart and forget its handles and what it was sent. `stored` counts the copies of
each row: a retried write is stored more than once, which is allowed. A value is a
type and a number in hundredths; `ColumnType` and `Coerce` are the two ends of the
wire; a decimal that is read as FIXED is cut off towards zero.

Abstractions: a body or a service token the server does not accept (422, 401) is refused
on the first attempt as on any other, before anything is stored, and is left out.
Another process locks the file only while the server has it closed; the
server keeps its connection once opened.

### 2.8 LocalBuild and KbCorpus

A build is a walk through `Steps`, the scripts of `build.py` in their order with what
each reads and fills (the scripts' own FROM and INSERT clauses). A table is absent,
empty, made from complete sources, or "part". `StepDone`, `StepFails` are `_run_script`
and the corpus; `BuildAborts` is the loader or the rules raising through `build`;
`Killed` may fall anywhere. A file has an inode: `Start` unlinks the path, and the
Data API may go on with the old file or open the new one early.

`ChunkDocument` is `chunk_document` as a recursive function over the paragraphs with
their lengths. `Whole` does not follow the algorithm: the chunks hold every paragraph
once, in order; a chunk is within the limit but for a paragraph that alone exceeds it
and a short rest that joined; a chunk ends only where the next paragraph would not have
fitted. The run compares the two on 81 articles, the proof on all.

Abstractions: one builder at a time; the tables one script fills are one; every
listed script is portable, so the SKIP branch of `_run_script` is never taken.

## 3. Runs

| Run | Instance | What it shows |
|---|---|---|
| `CircuitBreaker` | 3 requests, 2 attempts each, threshold 2, reset 2 ticks; fairness | the safety properties, the refinement of `LoadGate`, and that requests and refusals end |
| `AiBulkhead` | 2 analyses with one key, Customer 360, 1 permit, TTL 0, 1 restart; fairness | permits are conserved, an answered key is not sent again, replays are fresh, how many generations each request may cause, and that every request leaves |
| `AiBulkhead_BilledOncePerKey` | 3 analyses with one key, Customer 360, 2 permits, no restart | overlapping or timed-out keyed requests generate twice |
| `RateLimiter` | 4 requests, 2 clients, limit 2, window of 3 ticks, 6 ticks | window, Retry-After, Remaining |
| `Customer360` | 1 request out of 25 (every endpoint, token, customer and source fault), 2 attempts, 1 tick; fairness | answers agree with the reads, a refusal has the hard read or a limiter behind it, every request is answered |
| `AiInsights` | 2 requests over 5 capability lists, 3 providers, 2 builds (the second without the customer), threshold 0.60, TTL 1, 1 failing call; fairness | blocked text is not served, review marks survive storage, a generation without an audit row is explained, every request is answered |
| `AiInsights_EveryNumberTraceable` | same, without Cortex | an invented number that closes a sentence is served |
| `DataPlatform` | a read or submitted statement beside a write or health check, 3 attempts, 1 restart | an acknowledged write is stored, a refused attempt has stored nothing, held handles are finished |
| `DataPlatform_ValuesSurvive` | a decimal column that begins with an integral value | the client cuts off the fractions |
| `Scd2Nightly` | 2 customers, 6 records (one undated), 3 loads, 1 loss | the dimension's invariants and immutable history under rebuild and DAG; no scheduled run takes away an open version |
| `Scd2Nightly_SuccessMeansLoaded` | 1 load | the recreated stream is empty: the run succeeds and loads nothing |
| `LocalBuild` | 2 builds, 1 failing step, 81 articles | success means complete, chunks are whole |

**Why the bounds are enough.** Breaker: two failures open it, the third request is the
straggler or the second probe; a budget of two has both a last attempt and one that is
not; two ticks tell a refreshed opening from an old one. Other budgets and thresholds
are covered by the proofs. Bulkhead: one permit makes every request wait for every
other, the second analysis arrives before, while and after the first is answered; more
permits and requests are covered by the proofs. TTL 0 lets an answer be repeated until
the clock moves, and then no longer. Customer 360's handler already loops, over two
capabilities, and is sent twice; an `insights` request is one attempt with such a loop
and no key, and is left to the proof of `BoundedGenerations`, which holds for any mix of
requests and any number of capabilities. Rate limiter: the
limit is passed by three requests of one client, and six ticks hold two windows.
Customer 360: requests share nothing but the table, so one at a time is general; two
attempts have an abandoned run beside the one that counts. AI: two requests for one
capability meet in the store in every order, before and after the facts change and after
expiry; one failing call can be any of the calls. Data platform: three attempts are the
default and hold an abandoned attempt, a lost answer and one that is heard. Dimension:
three loads are open, change, change back, in every order of landing; two customers who
share and leave a match key give every kind of survivor change. Build: the second build
meets whatever the first one and the reader left. Chunks: with the limits 120 and 450, a
rest of 59 is too short, one of 120 or of 59 + 59 + 2 just long enough, 330 + 120 just
within the limit, 500 alone above it. `MaxLoads`, `MaxLosses`, `MaxRestarts`, `Horizon`,
`MaxClock`, `MaxFaults`, `MaxBuilds` and `MaxFailures` are the only bounds on actions;
where the system has then nothing left to do, deadlock is not checked. Symmetry is used
in the rate limiter's run only, among the noisy client's requests.

**Fairness.** Weak fairness of a coroutine that can run (asyncio's ready queue is
first-in first-out), of an attempt's end (httpx has a time-out on every call) and
of time. In `Customer360` it is stated for the steps a layer takes by itself, time-outs
included, and for time, never for a system below to answer; in `AiInsights` for each
request's handler, every call of which ends by its answer or its time-out. None on
clients sending requests, on health reads, on generations ending, on restarts, on
builds. The breaker's refusals end by time alone. `RateLimiter`, `DataPlatform`,
`Scd2Nightly` and `LocalBuild` are checked for safety only.

## 4. Proofs

Every safety property of the runs, the type invariants included, is a theorem for all
values of the constants, with one hypothesis named below; so are the safety part of the
refinement of `LoadGate` and the refinement of the rebuild by the scheduled load.

| Module | Theorems | Argument |
|---|---|---|
| `CircuitBreaker_proofs` | `TypeCorrect`, `StateCountAgreement`, `AttemptAccounting` | inductive together (`Inv`) |
| | `BoundedStragglers`: failures reported to an open breaker are fewer than the requests | `stragglers + |InFlight|` cannot grow while open; finite-set cardinalities |
| | `OpenDrains`: while open, no attempt starts | from `Inv`, by cases on `Next` |
| | `ImplementsGate`: `Spec => RefinesGate` | `passing` iff not (OPEN and period not over); needs `StateAgreesWithCount`: a lazily half-open breaker has the threshold's strikes, as the gate has after `Elapse` |
| `AiBulkhead_proofs` | `TypeCorrect`, `PermitConservation`, `SettledKeys`, `BoundedGenerations`, `FreshReplays` | `Inv` adds `Progress` (what a handler has started and has left never exceeds what it was asked, and the attempts made agree with the request's place) and `StoreCovers` (a keyed answer that is in time is covered by a stored answer at least as young) |
| `RateLimiter_proofs` | `WindowSlides`, `RetryAfterIsRight`, `RemainingIsThere`, `Typed` | the bucket of a key is a suffix of the times its requests were admitted at, and whatever is not in it has left the window (`Bucket`); evicting from the left keeps that (`CurrentPopped`) |
| `Customer360_proofs` | `ClientSeesTheTruth` (`AnswerHonest`), `RefusalsAreExplained` (`HardReadDecides`), `Typed` | `RunHonest`: a run holds as values and as degraded just what its reads ended with, at every stage; `ReplyFromRun`: a reply is made from a run that has ended, and such a run stays as it is. A run refuses for its hard read or because it is `LimitedRun` (`Refusing`) |
| `AiInsights_proofs` | `NothingBlockedIsServed`, `ReviewIsKept`, `EveryGenerationAudited`, `Typed` | a payload is an `Insight` from its making on, wherever it is kept; `Placed` says at which stage a handler holds a generation without an audit row, `KeptAccounted` that nothing stored, scored or answered without one belongs to any other |
| `DataPlatform_proofs` | `AcknowledgedWritesAreStored`, `HeldHandlesHaveFinished`, `Typed` | `Counted`: copies of a row and attempts under way never outnumber the attempts made, less the refused one (`Spent`); an attempt that was served is not served again, so the entry of a handle somebody holds is final |
| `Scd2_proofs` | `OneCurrent`, `LoadCompletes`, `ClosedVersionsStay`, `Typed` | `StagedOnce` and `ClosedFirst`: between UPDATE and INSERT open versions agree with staged rows, so INSERT opens versions only for customers without one |
| | `VersionsFollow`, `ReloadsOpenNothing`, `SurrogateKeysUnique` | `Chained`: each version was opened for a record of its own in RAW and closed at the time of a dated one (`Sourced`); versions follow each other (`Follow`); a staged record is no older than any version (`Newest`), which is what lets the next one join the chain. An injection from versions to records bounds their number |
| | `NightlyIsRebuild`: `NightSpec => Spec` | each step of the DAG is a step of the rebuild or changes none of its tables |
| | `NightTyped`, `CurrentIsKept`, `NightlyKeepsPromises`, `NightlyVersionsFollow` | from `Night` (where the DAG, its stream and the load are together) and by the refinement |
| `LocalBuild_proofs` | `SuccessIsComplete`, `Typed` | `StepOrder`, a lemma on the 26 steps: no step fills a table from one a later step makes, and the last step that makes a table does not only create it. So, while no step failed, every table whose steps are behind the build is full (`FilledSoFar`), in a file that stays at the path |
| | `ChunkerKeepsWhole`: the chunks of an article of any length are `Whole`; `CorpusIsWhole` | `PackedSoFar`: of the paragraphs packed so far the closed chunks and the buffer hold each once, every closed chunk fits and is parted from what follows for want of room. It holds at the start, each paragraph keeps it (`PackingKeeps`), `Flush` ends in `Whole` (`PackingEnds`). `Cut`: a corpus that says it is full has its article's chunks, through every failure, kill and reader |

**Why the invariants need their strengthening.** Without `StoreCovers` a step
from an unreachable store (empty, though an answer is remembered) breaks
`SettledNotSent`. `OneCurrentVersion` alone is not inductive: a state after the UPDATE
with an open version that differs from the staged row would get a second one.
`VersionsChain` alone says nothing of records still to come: a version newer than the
staged record could be closed before it begins. `SlidingWindow` alone lets a bucket
have forgotten an admission that is still in its window. `SuccessMeansComplete` speaks
only of finished builds; the induction is over the prefix of `Steps`. Each invariant
was checked by TLC on the instance of its run as well.

**Induction along an article.** The library's induction theorems take an operator, which
the provers here cannot instantiate. `LocalBuild_proofs` uses sets instead: the numbers
up to k without a property would have a least one (`LeastNumber`, from the well-founded
order of finite sets by inclusion), so a property that holds at 0 and passes to the
next number holds up to k (`UpTo`); a function that starts at a value and goes on by a
step is thereby what the recursion says (`Recursion`).

**Assumptions.** The named `ASSUME`s on the constants, which TLC evaluates on
the instances, and one hypothesis written in the theorems on the chain of versions, their
count and their keys, `OneRecordATime`: no two records of a customer carry one update
time, and at most one carries none. Nothing in the code guarantees it
(`04-staging-to-core-scd2.sql:43` makes the surrogate key of customer and update time);
without it the windows of two versions overlap, or one key stands for two. So
`VersionsChain` says nothing of that overlap, in the run (whose records have distinct
times) as in the proof. One open version, complete loads and immutable history need no
such hypothesis.

**What `NightlyIsRebuild` rests on.** The script recreates the stream it is about to read
(`03-incremental-scd2-merge.sql:33`), so both merges read an empty stream (`MergeIdle`).
The scheduled load therefore breaks nothing because it loads nothing
(`Scd2Nightly_SuccessMeansLoaded`). With the stream kept `NobodyLosesCurrent`
fails (the mutant `StreamKept`): the first pass consumes what the second needs.

**Model-checked only.** Liveness: `RequestsEnd` of four modules and `RefinesFairGate`,
which need fairness and ENABLED. That the counterexamples of the violation runs exist.

## 5. Where code and documents differ

Four differences are runs (`PROJECT.json`, "findings"). Others met while modelling,
without a run:

- `customer_360` calls the AI service without `retries=1`, so an attempt that already
  generated is sent again (`process_layer.py:156`; `docs/resilience-and-dr.md:50`).
  `GenerationsBounded` bounds its generations by its attempts, the other two
  endpoints' by one attempt.
- A null completion, or an action that cannot be hashed, raises after the generation and
  outside the `try`: the request ends in 500 and leaves no audit row
  (`evaluation.py:81`, `capabilities.py:325`; `capabilities.py:405`, "Every generative
  call is audited"). `GenerationsAudited` says that nothing is then stored or served, and
  that only this and a failed audit write leave a generation without its row.
- The churn endpoint answers an absent score with 500, as after a failed read
  (`experience_layer.py:157`; `process_layer.py:98`).

- A half-open breaker lets every caller through, not one probe, and a success of a call
  sent before the breaker opened closes it before the reset period is over
  (`resilience.py:65`; `docs/resilience-and-dr.md:62`).
- `put` overwrites, so after two overlapping requests with one key the store holds
  the later answer (`resilience.py:145`; `docs/api-governance.md:153` "returns the
  first response").
- A permit is given back at the caller's time-out, while its generation runs on: more
  than four can run (`process_layer.py:262`; `docs/resilience-and-dr.md:74`).
- The idempotency store is one worker's memory: a restart forgets its keys, and a
  repeated key then generates again (`resilience.py:124`; `docs/resilience-and-dr.md:82`,
  "An in-memory idempotency store is not an idempotency store"). `SettledNotSent` and
  `ReplayIsFresh` are promises of one worker between restarts.
- A layer that is refused by the limiter of the layer below passes on 400, without the
  Retry-After, instead of 429 (`http_client.py:72`; `docs/api-governance.md:65`, `:72`). To a
  write this may happen after an earlier attempt was stored: the caller is told 400 and
  the rows are there. `AckedIsStored` says only that the refused attempt stored nothing.
- Behind the edge all clients share one bucket of the rate limiter, so a quiet client
  is refused because of a noisy one (`middleware.py:90`; `docs/security-architecture.md:245`).
- Every layer has the same time-out and attempts, so a caller gives up before the call
  below has ended, and that work goes on (`config.py:53`; `docs/resilience-and-dr.md:39`).
- `customer_360`'s docstring has all reads concurrent; the core read is awaited before
  the others start (`process_layer.py:145`, `:124`).
- A handle of an asynchronous statement stays RUNNING for ever, unknown to anyone, if
  the statement ends in an exception that is no PlatformError, and results are never
  removed unless cancelled (`data_api/app.py:219`). `HeldHandlesFinished` is why no
  client waits for one.
- An insight that was blocked is stored, and served from the store until it expires.
- An action off the approved list is replaced in `structured` only: `generatedText` and
  `suppressedAction` still name it (`capabilities.py:228`, `:331`). `BlockedNeverServed`
  is about `structured`, and about the numbers the check can see.
- With AI_HUMAN_REVIEW_THRESHOLD up to 0.60, its default, low confidence sends no text
  to review that passed the checks (`capabilities.py:304`): its groundedness is 1 and its
  confidence at least 0.61. With a higher threshold it may, and `ReviewSurvives` then
  only says that what must be reviewed stays marked.
- `PROACTIVE_SERVICE_CALL`'s text states 120 days, which the check accepts only if the
  article on win-back offers was retrieved; otherwise the local provider's own
  recommendation is blocked.
- A chunk carries the latest heading seen when it is cut, not the heading its first
  paragraph stands under (`rag.py:68`).
- `docker-compose` runs the build again at each start and unlinks the file under a
  running Data API, which goes on with the old one; what it then writes is lost with it.
- A failed or erroring quality rule never changes the exit code of the build.
- After corruption of CORE a rebuild from RAW does not bring closed versions back
  (`04-staging-to-core-scd2.sql:11`), and a failed post-load check neither fails the
  run nor undoes it (`03-incremental-scd2-merge.sql:120`,
  `04-procedures/01-sp-transformations.sql:66`).
- Two undated records of a customer: the old version is closed with CURRENT_TIMESTAMP, the new one
  starts at the creation time, so windows overlap
  (`04-staging-to-core-scd2.sql:23`, `:50`).
- Two updates with one time get one surrogate key (`04-staging-to-core-scd2.sql:43`).
- An order placed before its customer's first loaded update is attached to no
  version (`04-staging-to-core-scd2.sql:50`, `:98`).

## 6. Not modelled, and why

- Text: how a value is masked, a prompt worded, an embedding computed, SQL translated
  between dialects; RELEVANCE scores. The models keep what a decision depends on.
- Endpoints that only read for an operator: token issue of the local mode, governance
  and freshness lists, recent audit, capability list, the mocks' search endpoints.
- Declarations: tables, roles, policies, Snowpipe, API specifications. Which tables of
  the rebuild no scheduled task refreshes is a matter of reading
  (`05-pipelines/04-orchestration-tasks.sql`).
- The refresh procedure of the knowledge base, which nothing in the repository calls.
- The columns of orders, cases, loyalty, products, features and scores: their scripts
  are steps of `LocalBuild`.
- The Mule applications, which state the same design as the Python services.
- Sample data and the scripts that generate it.
- A restart of the rate limiter (all buckets empty), clocks that go backward, and
  unbounded growth of its dictionary and of the Data API's results.

## 7. Plan

The safety properties of the runs are proved. What is left, in order of importance:

1. Abstract specifications above the detailed ones: a register with at-least-once writes
   above `DataPlatform`, a sliding-window admission log above `RateLimiter`, each with its
   refinement, as `LoadGate` is for the breaker.
2. `CustomerScd2` without `OneRecordATime`: what is left of the chain when two records tie.
3. The steps of the liveness arguments that are safety: that each step of a request
   lowers a measure, in `CircuitBreaker` and `AiBulkhead`.

