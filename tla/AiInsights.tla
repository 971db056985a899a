------------------------------ MODULE AiInsights ------------------------------
(***************************************************************************)
(* The generation pipeline of the AI service (services/ai_service): a      *)
(* stored insight or a new one, made from the facts of a customer by a     *)
(* model, checked, scored, routed to review, then stored, evaluated and    *)
(* audited by three writes whose failures are swallowed.  Requests run     *)
(* concurrently over one customer, while the nightly build replaces the    *)
(* facts and the clock runs out on stored insights.                        *)
(*                                                                         *)
(* A text is what the checks can tell of it: the numbers it states and     *)
(* those of them that only close a sentence, the action it recommends,     *)
(* whether it leaks a contact detail or makes a promise, and whether there *)
(* is a text at all.  Numbers up to ten are never checked and are left     *)
(* out.                                                                    *)
(***************************************************************************)
EXTENDS Integers, Sequences, FiniteSets

CONSTANTS
  Requests,
  Wants,       \* what each request may ask: its capabilities, in order
  FactsAt,     \* the customer's facts after each nightly build
  Providers,   \* the values AI_PROVIDER may have: "local", "openai", "cortex"
  Ttl,         \* INSIGHT_TTL_HOURS, in ticks
  ReviewThreshold, \* AI_HUMAN_REVIEW_THRESHOLD, in ten-thousandths
  MaxClock,    \* bound on the clock
  MaxFaults    \* bound on the calls of the data API and the model that fail

VARIABLES
  req,       \* the handler of each request
  insights,  \* AI.AI_CUSTOMER_INSIGHTS
  scores,    \* AI.AI_EVALUATION_RESULT
  audits,    \* AI.AI_REQUEST_AUDIT
  lost,      \* history: generations whose audit write failed
  build,     \* the last nightly build
  clock,
  provider,  \* AI_PROVIDER
  faults     \* calls that have failed

vars == <<req, insights, scores, audits, lost, build, clock, provider, faults>>
tables == <<insights, scores, audits, lost>>

(* One analyse asks for one capability, insights for any list of names.     *)
(* days: days since the last order; numbers: what else the FACTS block      *)
(* states; row: the customer is in CUSTOMER_360.                            *)
ASSUME AiInsightsAssumption ==
  /\ Ttl \in Nat /\ MaxClock \in Nat /\ MaxFaults \in Nat /\ ReviewThreshold \in Nat
  /\ Providers \subseteq {"local", "openai", "cortex"}
  /\ \A r \in Requests : \A w \in Wants[r] :
       /\ w \in [many : BOOLEAN, caps : Seq(STRING), forced : BOOLEAN, question : BOOLEAN]
       /\ ~w.many => Len(w.caps) = 1
  /\ FactsAt # <<>>
  /\ FactsAt \in Seq([days : STRING, numbers : SUBSET STRING, trend : BOOLEAN,
                      band : STRING, openCases : BOOLEAN, enrolled : BOOLEAN,
                      injected : BOOLEAN, row : BOOLEAN])
  /\ \A i \in DOMAIN FactsAt : IsFiniteSet(FactsAt[i].numbers)

(* The templates, by what their prompts are filled with. *)
Templates ==
  [SUMMARY           |-> {"facts"},
   CHURN_EXPLANATION |-> {"facts"},
   NEXT_BEST_ACTION  |-> {"facts", "actions", "knowledge"},
   SENTIMENT         |-> {"facts"},
   GROUNDED_QA       |-> {"facts", "knowledge", "question"}]
Capabilities == DOMAIN Templates
UsesKnowledge == {"NEXT_BEST_ACTION", "GROUNDED_QA"}
ApprovedActions ==
  {"RETENTION_OFFER_15_PCT", "FREE_EXPEDITED_DELIVERY_60D", "DOUBLE_POINTS_MONTH",
   "PROACTIVE_SERVICE_CALL", "RESOLVE_OPEN_CASE", "LOYALTY_TIER_REVIEW", "NO_ACTION"}

-----------------------------------------------------------------------------
(* Facts, knowledge and texts *)

(* The numbers the FACTS block shows; a NULL is NOT AVAILABLE. *)
Windows == {"90", "365"}
RenderFacts(f) == Windows \cup (IF f.days = "never" THEN {} ELSE {f.days}) \cup f.numbers

(* The article on win-back offers states the 120 days. *)
NumbersOf(article) == IF article = "KB-009" THEN {"120"} ELSE {}
FormatContext(chunks) == UNION {NumbersOf(c.article) : c \in chunks}

Plain(said, action) ==
  [said |-> said, closing |-> {}, action |-> action, leaks |-> FALSE, null |-> FALSE]

(* sanitise_input: a case with instruction-like text is withheld. *)
SanitiseInput(f) == f.injected

(* numbers_in: the pattern skips a number followed by a full stop. *)
NumbersIn(text) == text.said \ text.closing

(* LocalProvider: a text for each capability, from the facts alone. *)
LocalSummary(f) == Plain(f.numbers \cup (RenderFacts(f) \ Windows), "none")
LocalChurn(f) == Plain(IF f.trend THEN {"90"} ELSE RenderFacts(f) \ (Windows \cup f.numbers), "none")
LocalSentiment == Plain({}, "none")
LocalNba(f) ==
  LET high == f.band = "HIGH" IN
  CASE f.openCases               -> Plain({}, "RESOLVE_OPEN_CASE")
    [] ~f.openCases /\ high      -> IF f.days \in {"200", "never"}
                                    THEN Plain({f.days} \ {"never"}, "RETENTION_OFFER_15_PCT")
                                    ELSE Plain({"120"}, "PROACTIVE_SERVICE_CALL")
    [] ~f.openCases /\ ~high     -> Plain({}, IF f.enrolled THEN "NO_ACTION"
                                                            ELSE "DOUBLE_POINTS_MONTH")
LocalQa(chunks) == Plain(FormatContext(chunks), "none")

LocalComplete(cap, f, chunks) ==
  CASE cap = "NEXT_BEST_ACTION"  -> LocalNba(f)
    [] cap = "SENTIMENT"         -> LocalSentiment
    [] cap = "CHURN_EXPLANATION" -> LocalChurn(f)
    [] cap = "GROUNDED_QA"       -> LocalQa(chunks)
    [] cap = "SUMMARY"           -> LocalSummary(f)

(* The numbers a filled prompt shows beside those of its fixed text. *)
Prompt(cap, f, chunks) ==
  RenderFacts(f) \cup (IF "knowledge" \in Templates[cap] THEN FormatContext(chunks) ELSE {})

(* A remote model may return anything: all it was shown, an invented number *)
(* or action, an action that is no string, a leak, or null for a text.      *)
RemoteTexts(cap, shown) ==
  {[Plain({}, "none") EXCEPT !.null = TRUE]} \cup
  IF "actions" \in Templates[cap]
  THEN {Plain(shown, "NO_ACTION"), Plain({"777"}, "none"), Plain({}, "invented"),
        Plain({}, "unhashable")}
  ELSE {[Plain(shown \cup {"777"}, "none") EXCEPT !.closing = {"777"}],
        [Plain({}, "none") EXCEPT !.leaks = TRUE]}

Complete(cap, f, chunks) ==
  IF provider = "local" THEN {LocalComplete(cap, f, chunks)}
  ELSE RemoteTexts(cap, Prompt(cap, f, chunks))

-----------------------------------------------------------------------------
(* Checks, scores, review *)

Grounding(f, chunks) == RenderFacts(f) \cup FormatContext(chunks)

(* Seeded fault: the numbers are not checked. *)
CheckOutputNoNumbers(text, grounding) == ~text.leaks /\ ~text.null

(* A null text is an empty generation. *)
CheckOutput(text, grounding) ==
  ~text.leaks /\ ~text.null /\ NumbersIn(text) \subseteq grounding

(* Scores are in ten-thousandths. *)
Groundedness(text, grounding) ==
  IF NumbersIn(text) = {} THEN 10000
  ELSE (10000 * Cardinality(NumbersIn(text) \cap grounding)) \div Cardinality(NumbersIn(text))
Safety(text, grounding) == IF CheckOutput(text, grounding) THEN 10000 ELSE 0
Evaluate(text, grounding) ==
  [GROUNDEDNESS |-> Groundedness(text, grounding), SAFETY |-> Safety(text, grounding),
   PII_LEAKAGE |-> 10000]

AtMost(a, b) == IF a < b THEN a ELSE b

(* Five facts are always there: reference, two windows, date and cases. *)
Populated(f) == 5 + Cardinality(RenderFacts(f) \ Windows) + (IF f.trend THEN 1 ELSE 0)
Retrieval(chunks) ==
  IF chunks = {} THEN 10000
  ELSE AtMost(10000, 250 * (CHOOSE s \in {c.score : c \in chunks} :
                             \A c \in chunks : c.score <= s))
Confidence(groundedness, f, chunks, passed) ==
  LET base == 45 * groundedness + 30 * AtMost(10000, 500 * Populated(f)) + 25 * Retrieval(chunks)
  IN (IF passed THEN 10 * base ELSE 3 * base) \div 1000

ReviewStatus(confidence, passed, injected, cap) ==
  IF ~passed \/ injected \/ cap = "NEXT_BEST_ACTION" \/ confidence < ReviewThreshold
  THEN "PENDING_REVIEW" ELSE "AUTO_APPROVED"

(* An action off the approved list is replaced by NO_ACTION; the text, and  *)
(* a note of what was suppressed, still name it.                            *)
ParseStructured(cap, text) ==
  IF cap # "NEXT_BEST_ACTION" \/ text.action = "none" THEN "none"
  ELSE IF text.action \in ApprovedActions THEN text.action ELSE "NO_ACTION"

(* relevance lowers the text, and _parse_structured looks the action up in  *)
(* a set, before anything is stored: neither exception is a PlatformError.  *)
Raises(cap, text, grounding) ==
  text.null \/ (/\ cap = "NEXT_BEST_ACTION" /\ text.action = "unhashable"
                /\ CheckOutput(text, grounding))

(* The answer for one capability.  asOf, injected and grounding: what the   *)
(* generation really read.                                                  *)
Payload(id, cap, h, text) ==
  LET grounding == Grounding(h.facts, h.chunks)
      passed    == CheckOutput(text, grounding)
  IN [id |-> id, cap |-> cap, passed |-> passed, quality |-> Evaluate(text, grounding),
      said |-> IF passed THEN NumbersIn(text) ELSE {},
      closing |-> IF passed THEN text.closing ELSE {},
      structured |-> IF passed THEN ParseStructured(cap, text) ELSE "none",
      review |-> ReviewStatus(Confidence(Groundedness(text, grounding), h.facts, h.chunks, passed),
                              passed, h.injected, cap),
      injected |-> h.injected, grounding |-> grounding, leaks |-> passed /\ text.leaks]

-----------------------------------------------------------------------------
NoFacts == [days |-> "never", numbers |-> {}, trend |-> FALSE, band |-> "LOW",
            openCases |-> FALSE, enrolled |-> FALSE, injected |-> FALSE, row |-> FALSE]
NoMade == [id |-> <<>>]
Fresh(want) == [want |-> want, at |-> "idle", n |-> 1, facts |-> NoFacts, injected |-> FALSE,
                chunks |-> {}, made |-> NoMade, produced |-> {}, failed |-> {}, status |-> 0]

TypeOK ==
  /\ \A r \in Requests :
       /\ req[r].want \in Wants[r] /\ req[r].n \in 1..Len(req[r].want.caps) + 1
       /\ req[r].at \in {"idle", "next", "lookup", "facts", "cases", "knowledge", "model",
                         "store", "score", "audit", "done"}
       /\ req[r].status \in {0, 200, 400, 404, 500, 502}
       /\ \A p \in req[r].produced : p.cap \in Capabilities
       /\ req[r].status = 200 /\ req[r].want.many =>
            {p.cap : p \in req[r].produced} \cup req[r].failed
              = {req[r].want.caps[i] : i \in DOMAIN req[r].want.caps}
  /\ \A row \in insights : row.made + Ttl = row.expires /\ row.made <= clock
  /\ build \in DOMAIN FactsAt /\ clock \in 0..MaxClock /\ faults \in 0..MaxFaults

Init ==
  /\ req \in [Requests -> UNION {{Fresh(w) : w \in Wants[r]} : r \in Requests}]
  /\ \A r \in Requests : req[r].want \in Wants[r]
  /\ insights = {} /\ scores = {} /\ audits = {} /\ lost = {}
  /\ build = 1 /\ clock = 0 /\ provider \in Providers /\ faults = 0

Cap(h) == h.want.caps[h.n]
Id(r) == <<r, req[r].n>>
Step(r, h) == req' = [req EXCEPT ![r] = h]
Alone(r, h) == Step(r, h) /\ UNCHANGED <<tables, build, clock, provider, faults>>
Fault == faults < MaxFaults /\ faults' = faults + 1
Faulty(r, h) == Fault /\ Step(r, h) /\ UNCHANGED <<tables, build, clock, provider>>

Answered(h, status) == [h EXCEPT !.at = "done", !.status = status]
Raised(h, id) == [h EXCEPT !.made = [id |-> id], !.at = "done", !.status = 500]
Produced(h, p) == [h EXCEPT !.produced = @ \cup {p}, !.n = @ + 1, !.at = "next"]

(* Seeded fault: a failed capability is tried again until it works. *)
FailedRetried(h, status) ==
  IF h.want.many THEN [h EXCEPT !.at = "next"] ELSE Answered(h, status)

(* Seeded fault: a capability that failed is left out of the answer. *)
FailedForgotten(h, status) ==
  IF h.want.many THEN [h EXCEPT !.n = @ + 1, !.at = "next"] ELSE Answered(h, status)

(* insights keeps going after a PlatformError; analyse fails with it. *)
Failed(h, status) ==
  IF h.want.many
  THEN [h EXCEPT !.failed = @ \cup {Cap(h)}, !.n = @ + 1, !.at = "next"]
  ELSE Answered(h, status)

(* analyse, insights *)
Arrive(r) ==
  LET h == req[r] IN
  /\ h.at = "idle"
  /\ Alone(r, IF ~h.want.many /\ (\/ h.want.caps[1] \notin Capabilities
                                  \/ h.want.caps[1] = "GROUNDED_QA" /\ ~h.want.question)
              THEN Answered(h, 400) ELSE [h EXCEPT !.at = "next"])

NextCapability(r) ==
  LET h == req[r] IN
  /\ h.at = "next"
  /\ Alone(r, IF h.n > Len(h.want.caps) THEN Answered(h, 200)
              ELSE IF Cap(h) \notin Capabilities THEN Failed(h, 400)
              ELSE [h EXCEPT !.at = IF h.want.forced THEN "facts" ELSE "lookup",
                             !.facts = NoFacts, !.injected = FALSE, !.chunks = {},
                             !.made = NoMade])

(* Seeded fault: what is served from the store needs no review. *)
CachedInsightApproved(row) == [row.insight EXCEPT !.review = "AUTO_APPROVED"]

CachedInsight(row) == row.insight

(* The latest unexpired row of the customer and the capability. *)
Servable(cap) ==
  LET live == {row \in insights : row.insight.cap = cap /\ row.expires > clock}
  IN {row \in live : \A other \in live : other.made <= row.made}

(* A lookup that fails is a miss. *)
Lookup(r) ==
  LET h == req[r] IN
  /\ h.at = "lookup"
  /\ \/ \E row \in Servable(Cap(h)) : Alone(r, Produced(h, CachedInsight(row)))
     \/ Servable(Cap(h)) = {} /\ Alone(r, [h EXCEPT !.at = "facts"])
     \/ Faulty(r, [h EXCEPT !.at = "facts"])

(* load_grounding: two reads; the facts may be replaced in between.  502   *)
(* stands for every error of a call to the data platform.                  *)
ReadFacts(r) ==
  LET h == req[r] IN
  /\ h.at = "facts"
  /\ \/ FactsAt[build].row /\ Alone(r, [h EXCEPT !.facts = FactsAt[build], !.at = "cases"])
     \/ ~FactsAt[build].row /\ Alone(r, Failed(h, 404))
     \/ Faulty(r, Failed(h, 502))

ReadCases(r) ==
  LET h == req[r]
      after == IF Cap(h) \in UsesKnowledge THEN "knowledge" ELSE "model" IN
  /\ h.at = "cases"
  /\ \/ Alone(r, [h EXCEPT !.injected = SanitiseInput(FactsAt[build]), !.at = after])
     \/ Faulty(r, Failed(h, 502))

(* Nothing above the floor of 0.15, or one chunk just above it.  A failed   *)
(* embedding of a remote provider is no PlatformError.                      *)
Found == {{}, {[article |-> "KB-009", score |-> 15]}}
Retrieve(r) ==
  LET h == req[r] IN
  /\ h.at = "knowledge" /\ provider # "cortex"
  /\ \/ \E found \in Found :
          Alone(r, [h EXCEPT !.chunks = found, !.at = "model"])
     \/ Faulty(r, Failed(h, 502))
     \/ provider = "openai" /\ Faulty(r, Answered(h, 500))

(* build_provider: Cortex is built without its executor, for the query or   *)
(* for the answer: no PlatformError, and no audit.                          *)
NoProvider(r) ==
  /\ req[r].at \in {"knowledge", "model"} /\ provider = "cortex"
  /\ Alone(r, Answered(req[r], 500))

Generate(r) ==
  LET h == req[r] IN
  /\ h.at = "model" /\ provider # "cortex"
  /\ \E text \in Complete(Cap(h), h.facts, h.chunks) :
       IF Raises(Cap(h), text, Grounding(h.facts, h.chunks))
       THEN Alone(r, Raised(h, Id(r)))
       ELSE Alone(r, [h EXCEPT !.made = Payload(Id(r), Cap(h), h, text), !.at = "store"])

(* A write that reports a failure may still have happened. *)
Write(table, row) ==
  \/ table' = table \cup {row} /\ (Fault \/ UNCHANGED faults)
  \/ table' = table /\ Fault

AuditRow(r, outcome) == [id |-> Id(r), cap |-> Cap(req[r]), outcome |-> outcome]

(* Seeded fault: only what was answered is audited. *)
WriteAuditOfAnswer(r, outcome) ==
  IF outcome = "SUCCESS"
  THEN Write(audits, AuditRow(r, outcome))
       /\ lost' = IF AuditRow(r, outcome) \in audits' THEN lost ELSE lost \cup {Id(r)}
  ELSE UNCHANGED <<audits, lost, faults>>

WriteAudit(r, outcome) ==
  /\ Write(audits, AuditRow(r, outcome))
  /\ lost' = IF AuditRow(r, outcome) \in audits' THEN lost ELSE lost \cup {Id(r)}

(* The provider failed or timed out. *)
GenerateFails(r) ==
  /\ req[r].at = "model" /\ provider = "openai"
  /\ WriteAudit(r, "ERROR")
  /\ Step(r, Failed([req[r] EXCEPT !.made = [id |-> Id(r)]], 502))
  /\ UNCHANGED <<insights, scores, build, clock, provider>>

PersistInsight(r) ==
  LET h == req[r] IN
  /\ h.at = "store"
  /\ Write(insights, [insight |-> h.made, made |-> clock, expires |-> clock + Ttl])
  /\ Step(r, [h EXCEPT !.at = "score"])
  /\ UNCHANGED <<scores, audits, lost, build, clock, provider>>

PersistScores(r) ==
  LET h == req[r] IN
  /\ h.at = "score"
  /\ Write(scores, [id |-> h.made.id, quality |-> h.made.quality])
  /\ Step(r, [h EXCEPT !.at = "audit"])
  /\ UNCHANGED <<insights, audits, lost, build, clock, provider>>

Audit(r) ==
  LET h == req[r] IN
  /\ h.at = "audit"
  /\ WriteAudit(r, IF h.made.passed THEN "SUCCESS" ELSE "BLOCKED")
  /\ Step(r, Produced(h, h.made))
  /\ UNCHANGED <<insights, scores, build, clock, provider>>

Nightly ==
  /\ build + 1 \in DOMAIN FactsAt /\ build' = build + 1
  /\ UNCHANGED <<req, tables, clock, provider, faults>>

(* Before anything is stored the time makes no difference. *)
Tick ==
  /\ insights # {} /\ clock < MaxClock /\ clock' = clock + 1
  /\ UNCHANGED <<req, tables, build, provider, faults>>

Handle(r) ==
  \/ Arrive(r) \/ NextCapability(r) \/ Lookup(r) \/ ReadFacts(r) \/ ReadCases(r)
  \/ Retrieve(r) \/ NoProvider(r) \/ Generate(r) \/ GenerateFails(r)
  \/ PersistInsight(r) \/ PersistScores(r) \/ Audit(r)

Next == Nightly \/ Tick \/ \E r \in Requests : Handle(r)

Spec == Init /\ [][Next]_vars /\ \A r \in Requests : WF_vars(Handle(r))

-----------------------------------------------------------------------------
Given == UNION {req[r].produced : r \in Requests}

(* What a client is given, new or stored and whoever asked for it, states   *)
(* no number its own generation was not shown, as far as the check can see  *)
(* numbers, leaks nothing, and its structured part names an approved action *)
(* or none.                                                                 *)
BlockedNeverServed ==
  \A p \in Given : /\ p.said \subseteq p.grounding /\ ~p.leaks
                   /\ p.structured \in ApprovedActions \cup {"none"}

(* An insight that a human has to see keeps saying so: blocked, made from   *)
(* a record with instructions in it, or a recommendation, and also when it  *)
(* is served to another request from the store.  With the default threshold *)
(* of 0.60, or a lower one, no other insight is sent to review.             *)
ReviewSurvives ==
  \A p \in Given :
    LET due == ~p.passed \/ p.injected \/ p.cap = "NEXT_BEST_ACTION" IN
    /\ due => p.review = "PENDING_REVIEW"
    /\ ReviewThreshold <= 6000 /\ p.review = "PENDING_REVIEW" => due

(* Generations that reached the model and ended, well or not. *)
Ended(r) ==
  {p.id : p \in {p \in req[r].produced : p.id[1] = r}} \cup
  (IF req[r].made.id # <<>> /\ req[r].at \in {"next", "done"} THEN {req[r].made.id} ELSE {})

Accounted == lost \cup {a.id : a \in audits}

(* What of the generations is kept: stored, scored, or given to a client. *)
Kept == {row.insight.id : row \in insights} \cup {s.id : s \in scores} \cup
        {p.id : p \in Given}

(* A generation that ended without an audit row is one whose audit write    *)
(* failed, or one whose text made the service raise.  That one ended its    *)
(* whole request with a 500, and nothing of it is kept anywhere.            *)
GenerationsAudited ==
  \A r \in Requests : \A id \in Ended(r) \ Accounted :
    id = req[r].made.id /\ req[r].status = 500 /\ id \notin Kept

(* Every request is answered, whatever fails on the way. *)
RequestsEnd == \A r \in Requests : <>(req[r].at = "done")

(* test_guardrails.py:65, "Every number stated must be traceable to the     *)
(* facts": no text a client is given states a number from nowhere.          *)
EveryNumberTraceable == \A p \in Given : p.said \cup p.closing \subseteq p.grounding
=============================================================================
