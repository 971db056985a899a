--------------------------- MODULE AiInsights_proofs ---------------------------
(***************************************************************************)
(* Proofs about AiInsights for every set of requests, every list of        *)
(* capabilities asked for, every sequence of facts and every model.        *)
(*                                                                         *)
(* What is served and how it is marked is decided when a payload is made,  *)
(* so a payload is an Insight wherever it is kept: in a handler, in the    *)
(* store, in an answer.  The audit is a protocol: Placed says at which     *)
(* stage a handler holds a generation without an audit row, and            *)
(* KeptAccounted that whatever is stored, scored or answered without one   *)
(* belongs to a handler that is about to write it.                         *)
(***************************************************************************)
EXTENDS AiInsights, FiniteSetTheorems, SequenceTheorems, TLAPS

WantType == [many : BOOLEAN, caps : Seq(STRING), forced : BOOLEAN, question : BOOLEAN]

IsFact(f) == IsFiniteSet(f.numbers) /\ f.openCases \in BOOLEAN /\ f.injected \in BOOLEAN

Due(p) == ~p.passed \/ p.injected \/ p.cap = "NEXT_BEST_ACTION"

(* What BlockedNeverServed and ReviewSurvives say of an answer. *)
Insight(p) ==
  /\ p.cap \in Capabilities
  /\ p.said \subseteq p.grounding /\ ~p.leaks
  /\ p.structured \in ApprovedActions \cup {"none"}
  /\ Due(p) => p.review = "PENDING_REVIEW"
  /\ ReviewThreshold <= 6000 /\ p.review = "PENDING_REVIEW" => Due(p)

Reading == {"lookup", "facts", "cases", "knowledge", "model"}
Writing == {"store", "score", "audit"}

(* The record with the fields of Fresh and the values of h. *)
Fields(h) ==
  [want : {h.want}, at : {h.at}, n : {h.n}, facts : {h.facts}, injected : {h.injected},
   chunks : {h.chunks}, made : {h.made}, produced : {h.produced}, failed : {h.failed},
   status : {h.status}]

Handler(h) ==
  /\ h \in Fields(h)
  /\ h.want \in WantType /\ h.n \in Nat \ {0}
  /\ h.at \in {"idle", "next", "done"} \cup Reading \cup Writing
  /\ IsFact(h.facts) /\ h.injected \in BOOLEAN /\ h.chunks \in Found
  /\ \A p \in h.produced : Insight(p)
  /\ h.status \in {0, 200, 400, 404, 500, 502}

Settled(h, audited) == h.made.id = <<>> \/ h.made.id \in audited

(* The capabilities answered are those before the next, found or failed. *)
InOrder(h) ==
  h.want.many =>
    {p.cap : p \in h.produced} \cup h.failed = {h.want.caps[i] : i \in 1..(h.n - 1)}

OwnAudited(r, h, audited) == \A p \in h.produced : p.id[1] = r => p.id \in audited

(* How far a handler is, and what it may hold there. *)
Placed(r, h, audited) ==
  /\ h.want \in Wants[r] /\ h.n <= Len(h.want.caps) + 1
  /\ h.at \in Reading \cup Writing => h.n <= Len(h.want.caps) /\ Cap(h) \in Capabilities
  /\ h.at \in Reading => h.made = NoMade
  /\ h.at \in Writing => Insight(h.made) /\ h.made.id = <<r, h.n>> /\ h.made.cap = Cap(h)
  /\ h.at \in {"idle", "next"} => Settled(h, audited)
  /\ h.at = "done" => Settled(h, audited) \/ (h.status = 500 /\ h.made.id = <<r, h.n>>)
  /\ h.at # "done" => h.status = 0
  /\ h.status = 200 => h.n = Len(h.want.caps) + 1
  /\ InOrder(h) /\ OwnAudited(r, h, audited)

Types ==
  /\ req = [r \in Requests |-> req[r]]
  /\ \A r \in Requests : Handler(req[r])
  /\ build \in DOMAIN FactsAt /\ clock \in 0..MaxClock /\ faults \in 0..MaxFaults
  /\ provider \in Providers

Rows ==
  \A row \in insights :
    /\ Insight(row.insight)
    /\ row.made + Ttl = row.expires /\ row.made \in Nat /\ row.made <= clock

(* What a handler has stored, or is about to, and has not audited yet. *)
Held(h) == IF h.at \in {"score", "audit"} THEN {h.made.id} ELSE {}
InHand == UNION {Held(req[r]) : r \in Requests}
KeptAccounted == Kept \subseteq Accounted \cup InHand

Inv == Types /\ Rows /\ KeptAccounted /\ \A r \in Requests : Placed(r, req[r], Accounted)

-----------------------------------------------------------------------------
(* What a payload is *)

LEMMA FactTypes ==
  /\ IsFact(NoFacts)
  /\ \A i \in DOMAIN FactsAt : IsFact(FactsAt[i])
<1>1. IsFact(NoFacts)
  BY FS_EmptySet DEF NoFacts, IsFact
<1>2. ASSUME NEW i \in DOMAIN FactsAt PROVE IsFact(FactsAt[i])
  <2> DEFINE T == [days : STRING, numbers : SUBSET STRING, trend : BOOLEAN,
                   band : STRING, openCases : BOOLEAN, enrolled : BOOLEAN,
                   injected : BOOLEAN, row : BOOLEAN]
  <2>1. FactsAt \in Seq(T)
    BY AiInsightsAssumption
  <2>2. FactsAt[i] \in T
    <3> HIDE DEF T
    <3> QED
      BY <2>1
  <2>3. IsFiniteSet(FactsAt[i].numbers)
    BY AiInsightsAssumption
  <2> QED
    BY <2>2, <2>3 DEF IsFact
<1> QED
  BY <1>1, <1>2

(* The facts and the articles shown state finitely many numbers.           *)
LEMMA ShownNumbers ==
  ASSUME NEW f, IsFact(f), NEW chunks \in Found
  PROVE  /\ IsFiniteSet(RenderFacts(f)) /\ IsFiniteSet(FormatContext(chunks))
         /\ IsFiniteSet(Windows)
<1>1. \A x : IsFiniteSet({x})
  BY FS_Singleton
<1>2. IsFiniteSet({})
  BY FS_EmptySet
<1>3. IsFiniteSet(Windows)
  <2>1. Windows = {"90"} \cup {"365"}
    BY DEF Windows
  <2> QED
    BY <1>1, <2>1, FS_Union
<1>4. IsFiniteSet(RenderFacts(f))
  <2>1. IsFiniteSet(IF f.days = "never" THEN {} ELSE {f.days})
    BY <1>1, <1>2
  <2> QED
    BY <1>3, <2>1, FS_Union DEF RenderFacts, IsFact
<1>5. IsFiniteSet(FormatContext(chunks))
  <2>1. FormatContext({}) = {}
    BY DEF FormatContext
  <2>2. FormatContext({[article |-> "KB-009", score |-> 15]}) = {"120"}
    BY DEF FormatContext, NumbersOf
  <2> QED
    BY <1>1, <1>2, <2>1, <2>2 DEF Found
<1> QED
  BY <1>3, <1>4, <1>5

(* Whatever a model answers states finitely many numbers.                  *)
LEMMA CompleteTexts ==
  ASSUME NEW cap \in Capabilities, NEW f, IsFact(f), NEW chunks \in Found,
         NEW text \in Complete(cap, f, chunks)
  PROVE  IsFiniteSet(text.said)
<1>1. /\ IsFiniteSet(RenderFacts(f)) /\ IsFiniteSet(FormatContext(chunks))
      /\ IsFiniteSet(Windows) /\ IsFiniteSet(f.numbers)
  BY ShownNumbers DEF IsFact
<1>2. IsFiniteSet({}) /\ \A x : IsFiniteSet({x})
  BY FS_EmptySet, FS_Singleton
<1>3. \A s, act : Plain(s, act).said = s
  BY DEF Plain
<1>4. IsFiniteSet(LocalComplete(cap, f, chunks).said)
  <2>1. IsFiniteSet(LocalSummary(f).said)
    <3>1. IsFiniteSet(RenderFacts(f) \ Windows)
      BY <1>1, FS_Difference
    <3>2. IsFiniteSet(f.numbers \cup (RenderFacts(f) \ Windows))
      BY <1>1, <3>1, FS_Union
    <3> QED
      BY <1>3, <3>2, Zenon DEF LocalSummary
  <2>2. IsFiniteSet(LocalChurn(f).said)
    <3>1. IsFiniteSet(RenderFacts(f) \ (Windows \cup f.numbers))
      BY <1>1, FS_Difference
    <3>2. IsFiniteSet(IF f.trend THEN {"90"} ELSE RenderFacts(f) \ (Windows \cup f.numbers))
      BY <1>2, <3>1
    <3> QED
      BY <1>3, <3>2, Zenon DEF LocalChurn
  <2>3. IsFiniteSet(LocalSentiment.said)
    BY <1>2, <1>3 DEF LocalSentiment
  <2>4. IsFiniteSet(LocalNba(f).said)
    <3>1. IsFiniteSet({f.days} \ {"never"})
      BY <1>2, FS_Difference
    <3>2. \E act : \/ LocalNba(f) = Plain({}, act)
                   \/ LocalNba(f) = Plain({f.days} \ {"never"}, act)
                   \/ LocalNba(f) = Plain({"120"}, act)
      BY DEF LocalNba, IsFact
    <3> QED
      BY <1>2, <1>3, <3>1, <3>2
  <2>5. IsFiniteSet(LocalQa(chunks).said)
    BY <1>1, <1>3 DEF LocalQa
  <2> QED
    BY <2>1, <2>2, <2>3, <2>4, <2>5 DEF LocalComplete, Capabilities, Templates
<1>5. IsFiniteSet(Prompt(cap, f, chunks))
  BY <1>1, <1>2, FS_Union DEF Prompt
<1>6. ASSUME NEW t \in RemoteTexts(cap, Prompt(cap, f, chunks)) PROVE IsFiniteSet(t.said)
  <2> DEFINE p == Prompt(cap, f, chunks)
  <2>1. IsFiniteSet(p \cup {"777"}) /\ IsFiniteSet({"777"})
    BY <1>2, <1>5, FS_Union
  <2>2. [Plain(p \cup {"777"}, "none") EXCEPT !.closing = {"777"}].said = p \cup {"777"}
    BY DEF Plain
  <2>3. [Plain({}, "none") EXCEPT !.leaks = TRUE].said = {}
    BY DEF Plain
  <2>7. [Plain({}, "none") EXCEPT !.null = TRUE].said = {}
    BY DEF Plain
  <2> HIDE DEF p
  <2>4. \/ t \in {Plain(p, "NO_ACTION"), Plain({"777"}, "none"), Plain({}, "invented"),
                 Plain({}, "unhashable")}
        \/ t = [Plain({}, "none") EXCEPT !.null = TRUE]
        \/ t = [Plain(p \cup {"777"}, "none") EXCEPT !.closing = {"777"}]
        \/ t = [Plain({}, "none") EXCEPT !.leaks = TRUE]
    BY <1>6 DEF RemoteTexts, p
  <2>5. IsFiniteSet(p)
    BY <1>5 DEF p
  <2>6. t.said \in {p, {"777"}, {}, p \cup {"777"}}
    BY <1>3, <2>2, <2>3, <2>4, <2>7, ZenonT(60)
  <2> QED
    BY <1>2, <2>1, <2>5, <2>6
<1> QED
  BY <1>4, <1>6 DEF Complete

(* An answer whose numbers were all shown is fully grounded.               *)
LEMMA PassedIsGrounded ==
  ASSUME NEW text, IsFiniteSet(text.said), NEW grounding, CheckOutput(text, grounding)
  PROVE  Groundedness(text, grounding) = 10000
<1> DEFINE s == NumbersIn(text)
<1>1. IsFiniteSet(s)
  BY FS_Difference DEF NumbersIn
<1>2. Cardinality(s) \in Nat
  BY <1>1, FS_CardinalityType
<1>3. s # {} => Cardinality(s) > 0
  BY <1>1, <1>2, FS_EmptySet
<1>4. \A d \in Nat : d > 0 => (10000 * d) \div d = 10000
  OBVIOUS
<1>5. s \cap grounding = s
  BY DEF CheckOutput
<1> QED
  <2> HIDE DEF s
  <2>1. Groundedness(text, grounding) =
          IF s = {} THEN 10000 ELSE (10000 * Cardinality(s)) \div Cardinality(s)
    <3>1. NumbersIn(text) \cap grounding = NumbersIn(text)
      BY <1>5 DEF s
    <3>2. Cardinality(NumbersIn(text) \cap grounding) = Cardinality(NumbersIn(text))
      BY <3>1
    <3> QED
      BY <3>2 DEF Groundedness, s
  <2> QED
    BY <1>2, <1>3, <1>4, <2>1

(* An answer that passed is confident enough not to need a reviewer for    *)
(* that: five facts and any retrieved article already make 0.61.           *)
LEMMA PassedIsConfident ==
  ASSUME NEW f, IsFact(f), NEW chunks \in Found
  PROVE  LET base == 45 * 10000 + 30 * AtMost(10000, 500 * Populated(f)) + 25 * Retrieval(chunks)
         IN (10 * base) \div 1000 \in Int /\ (10 * base) \div 1000 >= 6000
<1>1. Populated(f) \in Nat /\ Populated(f) >= 5
  <2>1. IsFiniteSet(RenderFacts(f) \ Windows)
    BY ShownNumbers, FS_Difference
  <2>2. Cardinality(RenderFacts(f) \ Windows) \in Nat
    BY <2>1, FS_CardinalityType
  <2> QED
    BY <2>2 DEF Populated
<1>2. AtMost(10000, 500 * Populated(f)) \in Nat /\ AtMost(10000, 500 * Populated(f)) >= 2500
  BY <1>1 DEF AtMost
<1>3. Retrieval(chunks) \in Nat /\ Retrieval(chunks) >= 3750
  <2>1. CASE chunks = {}
    BY <2>1 DEF Retrieval
  <2>2. CASE chunks = {[article |-> "KB-009", score |-> 15]}
    <3>1. {c.score : c \in chunks} = {15} /\ \A c \in chunks : c.score <= 15
      BY <2>2
    <3>2. (CHOOSE s \in {c.score : c \in chunks} : \A c \in chunks : c.score <= s) = 15
      BY <3>1
    <3> QED
      BY <2>2, <3>2 DEF Retrieval, AtMost
  <2> QED
    BY <2>1, <2>2 DEF Found
<1> DEFINE a == AtMost(10000, 500 * Populated(f))
           b == Retrieval(chunks)
           c == (10 * (45 * 10000 + 30 * a + 25 * b)) \div 1000
<1>4. c \in Int /\ c >= 6000
  <2> HIDE DEF a, b
  <2>1. a \in Nat /\ a >= 2500 /\ b \in Nat /\ b >= 3750
    BY <1>2, <1>3 DEF a, b
  <2> QED
    BY <2>1
<1> QED
  BY <1>4

(* Whatever the facts, the articles and the model's answer: a payload is an *)
(* insight.                                                                 *)
LEMMA PayloadIsInsight ==
  ASSUME NEW id, NEW cap \in Capabilities, NEW h, Handler(h), NEW text, IsFiniteSet(text.said)
  PROVE  /\ Insight(Payload(id, cap, h, text))
         /\ Payload(id, cap, h, text).id = id /\ Payload(id, cap, h, text).cap = cap
<1> DEFINE grounding == Grounding(h.facts, h.chunks)
           passed == CheckOutput(text, grounding)
           p == Payload(id, cap, h, text)
           confidence == Confidence(Groundedness(text, grounding), h.facts, h.chunks, passed)
<1>1. /\ p.id = id /\ p.cap = cap /\ p.passed = passed /\ p.grounding = grounding
      /\ p.said = (IF passed THEN NumbersIn(text) ELSE {})
      /\ p.structured = (IF passed THEN ParseStructured(cap, text) ELSE "none")
      /\ p.review = ReviewStatus(confidence, passed, h.injected, cap)
      /\ p.injected = h.injected /\ p.leaks = (passed /\ text.leaks)
  BY DEF Payload
<1>2. passed \in BOOLEAN /\ h.injected \in BOOLEAN
  BY DEF CheckOutput, Handler
<1>3. p.said \subseteq p.grounding /\ ~p.leaks
  BY <1>1 DEF CheckOutput
<1>4. p.structured \in ApprovedActions \cup {"none"}
  <2>1. ParseStructured(cap, text) \in ApprovedActions \cup {"none"}
    BY DEF ParseStructured, ApprovedActions
  <2> QED
    BY <1>1, <2>1
<1>5. passed => confidence \in Int /\ confidence >= 6000
  <2> DEFINE base(g) == 45 * g + 30 * AtMost(10000, 500 * Populated(h.facts))
                        + 25 * Retrieval(h.chunks)
  <2>1. passed => Groundedness(text, grounding) = 10000
    BY PassedIsGrounded
  <2>2. IsFact(h.facts) /\ h.chunks \in Found
    BY DEF Handler
  <2>3. (10 * base(10000)) \div 1000 \in Int /\ (10 * base(10000)) \div 1000 >= 6000
    BY <2>2, PassedIsConfident
  <2>4. confidence = (IF passed THEN 10 * base(Groundedness(text, grounding))
                                ELSE 3 * base(Groundedness(text, grounding))) \div 1000
    BY DEF Confidence
  <2> HIDE DEF passed, grounding, confidence, base
  <2> QED
    BY <2>1, <2>3, <2>4
<1> HIDE DEF p, passed, confidence, grounding
<1>6. Due(p) => p.review = "PENDING_REVIEW"
  BY <1>1, <1>2 DEF ReviewStatus, Due
<1>7. ReviewThreshold <= 6000 /\ p.review = "PENDING_REVIEW" => Due(p)
  <2> SUFFICES ASSUME ReviewThreshold <= 6000, ~Due(p) PROVE p.review # "PENDING_REVIEW"
    OBVIOUS
  <2>1. passed /\ ~h.injected /\ cap # "NEXT_BEST_ACTION"
    BY <1>1, <1>2 DEF Due
  <2>2. ~(confidence < ReviewThreshold)
    BY <1>5, <2>1, AiInsightsAssumption
  <2> QED
    BY <1>1, <2>1, <2>2 DEF ReviewStatus
<1> QED
  BY <1>1, <1>3, <1>4, <1>6, <1>7 DEF Insight, p

-----------------------------------------------------------------------------
(* How a capability ends *)

LEMMA CapsSoFar ==
  ASSUME NEW caps, NEW n \in Nat \ {0}
  PROVE  {caps[i] : i \in 1..((n + 1) - 1)} = {caps[i] : i \in 1..(n - 1)} \cup {caps[n]}
<1>1. \A i : i \in 1..((n + 1) - 1) <=> i \in 1..(n - 1) \/ i = n
  OBVIOUS
<1> QED
  BY <1>1

LEMMA AnsweredPlaced ==
  ASSUME NEW r, NEW audited, NEW h, Handler(h), Placed(r, h, audited), h.at # "done",
         Settled(h, audited), NEW status \in {200, 400, 404, 500, 502},
         status = 200 => h.n = Len(h.want.caps) + 1
  PROVE  Handler(Answered(h, status)) /\ Placed(r, Answered(h, status), audited)
         /\ Answered(h, status).produced = h.produced
<1> DEFINE q == Answered(h, status)
<1>1. /\ q.want = h.want /\ q.at = "done" /\ q.n = h.n /\ q.facts = h.facts
      /\ q.injected = h.injected /\ q.chunks = h.chunks /\ q.made = h.made
      /\ q.produced = h.produced /\ q.failed = h.failed /\ q.status = status
      /\ q \in Fields(q)
  <2>1. h \in Fields(h) /\ q = [h EXCEPT !.at = "done", !.status = status]
    BY DEF Handler, Answered
  <2> HIDE DEF q
  <2>2. q \in Fields(q)
    BY ONLY <2>1, ZenonT(60) DEF Fields
  <2> QED
    BY ONLY <2>1, <2>2 DEF Fields
<1> HIDE DEF q
<1>2. Handler(q)
  BY <1>1 DEF Handler
<1>3. InOrder(q) /\ OwnAudited(r, q, audited)
  <2>1. /\ {p.cap : p \in q.produced} = {p.cap : p \in h.produced}
        /\ {q.want.caps[i] : i \in 1..(q.n - 1)} = {h.want.caps[i] : i \in 1..(h.n - 1)}
    BY <1>1
  <2> QED
    BY <1>1, <2>1, Z3T(30) DEF Placed, InOrder, OwnAudited
<1>4. Placed(r, q, audited)
  BY <1>1, <1>3 DEF Placed, Settled, Reading, Writing
<1> QED
  BY <1>1, <1>2, <1>4 DEF q

(* A text that makes the service raise: the generation in hand is lost.    *)
LEMMA RaisedPlaced ==
  ASSUME NEW r, NEW audited, NEW h, Handler(h), Placed(r, h, audited), h.at # "done"
  PROVE  Handler(Raised(h, <<r, h.n>>)) /\ Placed(r, Raised(h, <<r, h.n>>), audited)
         /\ Raised(h, <<r, h.n>>).produced = h.produced
<1> DEFINE q == Raised(h, <<r, h.n>>)
           m == [id |-> <<r, h.n>>]
<1>1. m.id = <<r, h.n>>
  OBVIOUS
<1> HIDE DEF m
<1>2. /\ q.want = h.want /\ q.at = "done" /\ q.n = h.n /\ q.facts = h.facts
      /\ q.injected = h.injected /\ q.chunks = h.chunks /\ q.made = m
      /\ q.produced = h.produced /\ q.failed = h.failed /\ q.status = 500
      /\ q \in Fields(q)
  <2>1. h \in Fields(h) /\ q = [h EXCEPT !.made = m, !.at = "done", !.status = 500]
    BY DEF Handler, Raised, m
  <2> HIDE DEF q
  <2>2. q \in Fields(q)
    BY ONLY <2>1, ZenonT(60) DEF Fields
  <2> QED
    BY ONLY <2>1, <2>2 DEF Fields
<1> HIDE DEF q
<1>3. Handler(q)
  BY <1>2 DEF Handler
<1>4. InOrder(q) /\ OwnAudited(r, q, audited)
  <2>1. /\ {p.cap : p \in q.produced} = {p.cap : p \in h.produced}
        /\ {q.want.caps[i] : i \in 1..(q.n - 1)} = {h.want.caps[i] : i \in 1..(h.n - 1)}
    BY <1>2
  <2> QED
    <3>1. OwnAudited(r, h, audited) /\ InOrder(h)
      BY DEF Placed
    <3>2. OwnAudited(r, q, audited)
      BY ONLY <1>2, <3>1 DEF OwnAudited
    <3>3. q.want.many = h.want.many /\ q.failed = h.failed
      BY ONLY <1>2
    <3>4. InOrder(q)
      BY ONLY <2>1, <3>1, <3>3, Zenon DEF InOrder
    <3> QED
      BY ONLY <3>2, <3>4
<1>5. Placed(r, q, audited)
  BY <1>1, <1>2, <1>4 DEF Placed, Reading, Writing
<1> QED
  BY <1>2, <1>3, <1>5 DEF q

LEMMA FailedPlaced ==
  ASSUME NEW r, NEW audited, NEW h, Handler(h), Placed(r, h, audited),
         h.at # "done", h.n <= Len(h.want.caps), Settled(h, audited),
         NEW status \in {400, 404, 500, 502}
  PROVE  Handler(Failed(h, status)) /\ Placed(r, Failed(h, status), audited)
         /\ Failed(h, status).produced = h.produced
<1>1. CASE h.want.many
  <2> DEFINE q == [h EXCEPT !.failed = @ \cup {Cap(h)}, !.n = @ + 1, !.at = "next"]
  <2>1. Failed(h, status) = q
    BY <1>1 DEF Failed
  <2>2. h.n \in Nat \ {0} /\ h.n + 1 \in Nat \ {0}
    BY DEF Handler
  <2>3. /\ q.want = h.want /\ q.at = "next" /\ q.n = h.n + 1 /\ q.facts = h.facts
        /\ q.injected = h.injected /\ q.chunks = h.chunks /\ q.made = h.made
        /\ q.produced = h.produced /\ q.failed = h.failed \cup {Cap(h)} /\ q.status = h.status
        /\ q \in Fields(q)
    <3>1. /\ h \in Fields(h)
          /\ q = [h EXCEPT !.failed = h.failed \cup {Cap(h)}, !.n = h.n + 1, !.at = "next"]
      BY DEF Handler
    <3> HIDE DEF q
    <3>2. q \in Fields(q)
      BY ONLY <3>1, ZenonT(60) DEF Fields
    <3> QED
      BY ONLY <3>1, <3>2 DEF Fields
  <2> HIDE DEF q
  <2>4. Handler(q)
    BY <2>2, <2>3 DEF Handler
  <2>5. InOrder(q)
    <3>1. {h.want.caps[i] : i \in 1..(q.n - 1)}
            = {h.want.caps[i] : i \in 1..(h.n - 1)} \cup {Cap(h)}
      BY <2>2, <2>3, CapsSoFar DEF Cap
    <3>2. {p.cap : p \in h.produced} \cup h.failed = {h.want.caps[i] : i \in 1..(h.n - 1)}
      BY <1>1 DEF Placed, InOrder
    <3>3. {p.cap : p \in q.produced} = {p.cap : p \in h.produced}
      BY <2>3
    <3>4. {q.want.caps[i] : i \in 1..(q.n - 1)} = {h.want.caps[i] : i \in 1..(q.n - 1)}
      BY <2>3
    <3> QED
      BY <2>3, <3>1, <3>2, <3>3, <3>4, ZenonT(60) DEF InOrder
  <2>6. OwnAudited(r, q, audited)
    BY <2>3 DEF Placed, OwnAudited
  <2>7. Len(h.want.caps) \in Nat
    BY DEF Handler, WantType
  <2>8. Placed(r, q, audited)
    BY <2>2, <2>3, <2>5, <2>6, <2>7 DEF Placed, Settled, Reading, Writing
  <2> QED
    BY <2>1, <2>3, <2>4, <2>8
<1>2. CASE ~h.want.many
  <2>1. Failed(h, status) = Answered(h, status)
    BY <1>2 DEF Failed
  <2> QED
    BY <2>1, AnsweredPlaced
<1> QED
  BY <1>1, <1>2

LEMMA ProducedPlaced ==
  ASSUME NEW r, NEW audited, NEW h, Handler(h), Placed(r, h, audited),
         h.at \in Reading \cup Writing, Settled(h, audited),
         NEW p, Insight(p), p.cap = Cap(h), p.id[1] = r => p.id \in audited
  PROVE  Handler(Produced(h, p)) /\ Placed(r, Produced(h, p), audited)
         /\ Produced(h, p).produced = h.produced \cup {p}
<1> DEFINE q == Produced(h, p)
<1>1. h.n \in Nat \ {0} /\ h.n + 1 \in Nat \ {0} /\ Len(h.want.caps) \in Nat
  BY DEF Handler, WantType
<1>2. /\ q.want = h.want /\ q.at = "next" /\ q.n = h.n + 1 /\ q.facts = h.facts
      /\ q.injected = h.injected /\ q.chunks = h.chunks /\ q.made = h.made
      /\ q.produced = h.produced \cup {p} /\ q.failed = h.failed /\ q.status = h.status
      /\ q \in Fields(q)
  <2>1. /\ h \in Fields(h)
        /\ q = [h EXCEPT !.produced = h.produced \cup {p}, !.n = h.n + 1, !.at = "next"]
    BY DEF Handler, Produced
  <2> HIDE DEF q
  <2>2. q \in Fields(q)
    BY ONLY <2>1 DEF Fields
  <2> QED
    BY ONLY <2>1, <2>2 DEF Fields
<1> HIDE DEF q
<1>3. Handler(q)
  BY <1>1, <1>2 DEF Handler
<1>4. ASSUME h.want.many PROVE InOrder(q)
  <2>1. {h.want.caps[i] : i \in 1..(q.n - 1)}
          = {h.want.caps[i] : i \in 1..(h.n - 1)} \cup {p.cap}
    BY <1>1, <1>2, CapsSoFar, SMTT(30) DEF Cap
  <2>2. {o.cap : o \in h.produced} \cup h.failed = {h.want.caps[i] : i \in 1..(h.n - 1)}
    BY <1>4 DEF Placed, InOrder
  <2>3. {o.cap : o \in q.produced} = {o.cap : o \in h.produced} \cup {p.cap}
    BY <1>2
  <2>4. {q.want.caps[i] : i \in 1..(q.n - 1)} = {h.want.caps[i] : i \in 1..(q.n - 1)}
    BY <1>2
  <2> QED
    BY <1>2, <2>1, <2>2, <2>3, <2>4 DEF InOrder
<1>5. OwnAudited(r, q, audited)
  BY <1>2 DEF Placed, OwnAudited
<1>6. Placed(r, q, audited)
  <2>1. InOrder(q)
    BY <1>2, <1>4 DEF InOrder
  <2> QED
    BY <1>1, <1>2, <1>5, <2>1 DEF Placed, Settled, Reading, Writing
<1> QED
  BY <1>2, <1>3, <1>6 DEF q

(* A handler may go on to read, or to write what it has made.              *)
LEMMA MovedPlaced ==
  ASSUME NEW r, NEW audited, NEW h, Handler(h), Placed(r, h, audited), h.at # "done",
         NEW q, q \in Fields(q), q.want = h.want, q.n = h.n, q.produced = h.produced,
         q.failed = h.failed, q.status = h.status,
         q.at \in {"next"} \cup Reading \cup Writing, IsFact(q.facts),
         q.injected \in BOOLEAN, q.chunks \in Found,
         q.at # "next" => h.n <= Len(h.want.caps) /\ Cap(h) \in Capabilities,
         q.at \in Reading => q.made = NoMade,
         q.at \in Writing =>
           Insight(q.made) /\ q.made.id = <<r, h.n>> /\ q.made.cap = Cap(h),
         q.at = "next" => Settled(q, audited)
  PROVE  Handler(q) /\ Placed(r, q, audited)
<1>1. Handler(q)
  BY DEF Handler
<1>2. InOrder(q) /\ OwnAudited(r, q, audited)
  <2>1. /\ {p.cap : p \in q.produced} = {p.cap : p \in h.produced}
        /\ {q.want.caps[i] : i \in 1..(q.n - 1)} = {h.want.caps[i] : i \in 1..(h.n - 1)}
    OBVIOUS
  <2> QED
    BY <2>1 DEF Placed, InOrder, OwnAudited
<1>3. Cap(q) = Cap(h)
  BY DEF Cap
<1>4. Placed(r, q, audited)
  BY <1>2, <1>3 DEF Placed, Reading, Writing
<1> QED
  BY <1>1, <1>4

-----------------------------------------------------------------------------
(* The steps *)

LEMMA PlacedGrows ==
  ASSUME NEW r, NEW h, NEW a, NEW b, a \subseteq b, Placed(r, h, a)
  PROVE  Placed(r, h, b)
BY DEF Placed, Settled, OwnAudited

LEMMA InitInv == Init => Inv
<1> SUFFICES ASSUME Init PROVE Inv
  OBVIOUS
<1>1. ASSUME NEW r \in Requests PROVE Handler(req[r]) /\ Placed(r, req[r], Accounted)
  <2>1. PICK w : req[r] = Fresh(w) /\ req[r].want \in Wants[r]
    BY DEF Init
  <2> DEFINE h == Fresh(w)
  <2>2. /\ h.want = w /\ h.at = "idle" /\ h.n = 1 /\ h.facts = NoFacts /\ h.injected = FALSE
        /\ h.chunks = {} /\ h.made = NoMade /\ h.produced = {} /\ h.failed = {}
        /\ h.status = 0 /\ h \in Fields(h)
    BY DEF Fresh, Fields
  <2>3. h.want \in Wants[r] /\ h.want \in WantType
    BY <2>1, AiInsightsAssumption DEF WantType
  <2>4. Len(h.want.caps) \in Nat
    BY <2>3 DEF WantType
  <2> HIDE DEF h
  <2>5. Handler(h)
    <3>1. IsFact(h.facts) /\ h.chunks \in Found
      BY <2>2, FactTypes DEF Found
    <3>2. /\ h.n \in Nat \ {0}
          /\ h.at \in {"idle", "next", "done"} \cup Reading \cup Writing
          /\ h.injected \in BOOLEAN
      <4>1. h.n = 1 /\ h.at = "idle" /\ h.injected = FALSE
        BY ONLY <2>2
      <4>2. h.n \in Nat \ {0}
        BY ONLY <4>1
      <4>3. h.at \in {"idle", "next", "done"} \cup Reading \cup Writing
        BY ONLY <4>1
      <4>4. h.injected \in BOOLEAN
        BY ONLY <4>1
      <4> QED
        BY ONLY <4>2, <4>3, <4>4
    <3>3. (\A p \in h.produced : Insight(p)) /\ h.status \in {0, 200, 400, 404, 500, 502}
      BY <2>2
    <3> QED
      BY <2>2, <2>3, <3>1, <3>2, <3>3 DEF Handler
  <2>6. InOrder(h) /\ OwnAudited(r, h, Accounted)
    <3>1. {h.want.caps[i] : i \in 1..(h.n - 1)} = {} /\ {p.cap : p \in h.produced} = {}
      BY <2>2
    <3> QED
      BY <2>2, <3>1 DEF InOrder, OwnAudited
  <2>7. Placed(r, h, Accounted)
    BY <2>2, <2>3, <2>4, <2>6 DEF Placed, Settled, NoMade, Reading, Writing
  <2> QED
    BY <2>1, <2>5, <2>7 DEF h
<1>2. Rows
  BY DEF Init, Rows
<1>4. KeptAccounted
  <2>1. ASSUME NEW r \in Requests PROVE req[r].produced = {}
    BY DEF Init, Fresh
  <2>2. Given = {}
    BY <2>1 DEF Given
  <2> QED
    BY <2>2 DEF Init, KeptAccounted, Kept
<1>3. Types
  <2>1. 1 \in DOMAIN FactsAt
    BY AiInsightsAssumption
  <2> QED
    BY <1>1, <2>1, AiInsightsAssumption DEF Init, Types
<1> QED
  BY <1>1, <1>2, <1>3, <1>4 DEF Inv

(* A step of a handler, which writes the audit of a generation before it    *)
(* forgets it.                                                              *)
LEMMA StepInv ==
  ASSUME Inv, NEW r \in Requests, NEW h, Handler(h), Placed(r, h, Accounted'), Step(r, h),
         Accounted \subseteq Accounted', UNCHANGED <<build, clock, provider>>,
         faults' \in 0..MaxFaults, Rows',
         \A row \in insights' : row \in insights \/ row.insight.id \in Held(h),
         \A s \in scores' : s \in scores \/ s.id \in Held(h),
         \A p \in h.produced : \/ p \in req[r].produced
                               \/ p.id \in Kept \cup Accounted',
         Held(req[r]) \subseteq Held(h) \cup Accounted'
  PROVE  Inv'
<1>1. req = [q \in Requests |-> req[q]]
  BY DEF Inv, Types
<1>2. /\ req' = [q \in Requests |-> req'[q]]
      /\ \A q \in Requests : req'[q] = IF q = r THEN h ELSE req[q]
  <2>1. req' = [req EXCEPT ![r] = h]
    BY DEF Step
  <2> QED
    BY <1>1, <2>1
<1>3. ASSUME NEW q \in Requests PROVE Handler(req'[q]) /\ Placed(q, req'[q], Accounted')
  <2>1. Handler(req[q]) /\ Placed(q, req[q], Accounted')
    BY PlacedGrows DEF Inv, Types
  <2> QED
    BY <1>2, <2>1
<1>4. Types'
  BY <1>2, <1>3 DEF Inv, Types
<1> DEFINE S == Accounted' \cup InHand'
<1>5. Accounted' \subseteq S /\ Held(h) \subseteq S
  BY <1>2 DEF InHand
<1>6. Kept \subseteq S
  <2>1. ASSUME NEW q \in Requests PROVE Held(req[q]) \subseteq S
    <3>1. CASE q = r
      BY <1>5, <3>1
    <3>2. CASE q # r
      BY <1>2, <3>2 DEF InHand
    <3> QED
      BY <3>1, <3>2
  <2>2. InHand \subseteq S
    <3> HIDE DEF S
    <3> QED
      BY <2>1 DEF InHand
  <2> HIDE DEF S
  <2> QED
    BY <1>5, <2>2 DEF Inv, KeptAccounted
<1> HIDE DEF S
<1>7. ASSUME NEW row \in insights' PROVE row.insight.id \in S
  <2>1. row \in insights => row.insight.id \in Kept
    BY DEF Kept
  <2> QED
    BY <1>5, <1>6, <2>1
<1>8. ASSUME NEW s \in scores' PROVE s.id \in S
  <2>1. s \in scores => s.id \in Kept
    BY DEF Kept
  <2> QED
    BY <1>5, <1>6, <2>1
<1>9. ASSUME NEW q \in Requests, NEW p \in req'[q].produced PROVE p.id \in S
  <2>1. \A o \in Requests : \A x \in req[o].produced : x.id \in Kept
    BY DEF Kept, Given
  <2> QED
    BY <1>2, <1>5, <1>6, <2>1
<1>10. KeptAccounted'
  <2>1. Kept' \subseteq S
    BY <1>7, <1>8, <1>9 DEF Kept, Given
  <2> QED
    BY <2>1 DEF KeptAccounted, S
<1> QED
  BY <1>3, <1>4, <1>10 DEF Inv

LEMMA RowsStay == Rows /\ UNCHANGED <<insights, clock>> => Rows'
BY DEF Rows

LEMMA AloneInv ==
  ASSUME Inv, NEW r \in Requests, req[r].at \notin {"score", "audit"},
         NEW h, Handler(h), Placed(r, h, Accounted), Alone(r, h) \/ Faulty(r, h),
         \A p \in h.produced : p \in req[r].produced \/ p.id \in Kept
  PROVE  Inv'
<1>1. Step(r, h) /\ UNCHANGED <<tables, build, clock, provider>> /\ faults' \in 0..MaxFaults
  BY AiInsightsAssumption DEF Alone, Faulty, Fault, Inv, Types
<1>2. Accounted' = Accounted /\ insights' = insights /\ scores' = scores
  BY <1>1 DEF tables, Accounted
<1>3. Rows' /\ Held(req[r]) = {}
  BY <1>1, <1>2, RowsStay DEF Inv, Held
<1> QED
  BY <1>1, <1>2, <1>3, StepInv

LEMMA FailedInv ==
  ASSUME Inv, NEW r \in Requests, req[r].at \in Reading, NEW status \in {400, 404, 500, 502},
         \/ Alone(r, Failed(req[r], status))
         \/ Faulty(r, Failed(req[r], status))
  PROVE  Inv'
<1> DEFINE h == req[r]
<1>1. Handler(h) /\ Placed(r, h, Accounted)
  BY DEF Inv, Types
<1>2. h.at # "done" /\ h.at \notin {"score", "audit"} /\ h.n <= Len(h.want.caps) /\ h.made = NoMade
  BY <1>1 DEF Placed, Reading
<1>3. Settled(h, Accounted)
  BY <1>2 DEF Settled, NoMade
<1>4. Handler(Failed(h, status)) /\ Placed(r, Failed(h, status), Accounted)
      /\ Failed(h, status).produced = h.produced
  BY <1>1, <1>2, <1>3, FailedPlaced, SMTT(30)
<1> QED
  BY <1>2, <1>4, AloneInv

LEMMA ArriveInv ==
  ASSUME Inv, NEW r \in Requests, Arrive(r)
  PROVE  Inv'
<1> DEFINE h == req[r]
<1>1. Handler(h) /\ Placed(r, h, Accounted) /\ h.at = "idle"
  BY DEF Inv, Types, Arrive
<1>2. Settled(h, Accounted)
  BY <1>1 DEF Placed
<1>3. CASE Alone(r, Answered(h, 400))
  <2>1. /\ Handler(Answered(h, 400)) /\ Placed(r, Answered(h, 400), Accounted)
        /\ Answered(h, 400).produced = h.produced
    BY <1>1, <1>2, AnsweredPlaced
  <2> QED
    BY <1>1, <1>3, <2>1, AloneInv
<1>4. CASE Alone(r, [h EXCEPT !.at = "next"])
  <2> DEFINE q == [h EXCEPT !.at = "next"]
  <2>1. h \in Fields(h)
    BY <1>1 DEF Handler
  <2>2. q \in Fields(q)
    BY <2>1 DEF Fields
  <2>3. /\ q.want = h.want /\ q.at = "next" /\ q.n = h.n /\ q.facts = h.facts
        /\ q.injected = h.injected /\ q.chunks = h.chunks /\ q.made = h.made
        /\ q.produced = h.produced /\ q.failed = h.failed /\ q.status = h.status
    BY <2>1 DEF Fields
  <2>4. Settled(q, Accounted)
    BY <1>2, <2>3 DEF Settled
  <2> HIDE DEF q, h
  <2>5. IsFact(q.facts) /\ q.injected \in BOOLEAN /\ q.chunks \in Found
    BY <1>1, <2>3 DEF Handler
  <2>6. Handler(q) /\ Placed(r, q, Accounted)
    BY <1>1, <2>2, <2>3, <2>4, <2>5, MovedPlaced DEF Reading, Writing
  <2>7. req[r].at \notin {"score", "audit"} /\ Alone(r, q) /\ q.produced = req[r].produced
    BY <1>1, <1>4, <2>3 DEF q, h
  <2> QED
    BY <2>6, <2>7, AloneInv
<1> QED
  BY <1>3, <1>4 DEF Arrive

LEMMA NextCapabilityInv ==
  ASSUME Inv, NEW r \in Requests, NextCapability(r)
  PROVE  Inv'
<1> DEFINE h == req[r]
<1>1. Handler(h) /\ Placed(r, h, Accounted) /\ h.at = "next"
  BY DEF Inv, Types, NextCapability
<1>2. Settled(h, Accounted)
  BY <1>1 DEF Placed
<1>3. h.n \in Nat \ {0} /\ Len(h.want.caps) \in Nat /\ h.n <= Len(h.want.caps) + 1
  BY <1>1 DEF Handler, WantType, Placed
<1>4. CASE h.n > Len(h.want.caps)
  <2>1. Alone(r, Answered(h, 200))
    BY <1>4 DEF NextCapability
  <2>2. h.n = Len(h.want.caps) + 1
    BY <1>3, <1>4
  <2>3. Handler(Answered(h, 200)) /\ Placed(r, Answered(h, 200), Accounted)
        /\ Answered(h, 200).produced = h.produced
    BY <1>1, <1>2, <2>2, AnsweredPlaced, SMTT(30)
  <2> QED
    BY <1>1, <2>1, <2>3, AloneInv
<1>5. CASE h.n <= Len(h.want.caps) /\ Cap(h) \notin Capabilities
  <2>1. Alone(r, Failed(h, 400))
    BY <1>3, <1>5 DEF NextCapability
  <2>2. Handler(Failed(h, 400)) /\ Placed(r, Failed(h, 400), Accounted)
        /\ Failed(h, 400).produced = h.produced
    <3>1. h.at # "done"
      BY <1>1
    <3> HIDE DEF h
    <3> QED
      BY ONLY <1>1, <1>2, <1>5, <3>1, FailedPlaced
  <2> QED
    BY <1>1, <2>1, <2>2, AloneInv
<1>6. CASE h.n <= Len(h.want.caps) /\ Cap(h) \in Capabilities
  <2> DEFINE stage == IF h.want.forced THEN "facts" ELSE "lookup"
             q == [h EXCEPT !.at = stage, !.facts = NoFacts, !.injected = FALSE,
                            !.chunks = {}, !.made = NoMade]
  <2>1. Alone(r, q)
    BY <1>3, <1>6 DEF NextCapability
  <2>2. stage \in {"facts", "lookup"} /\ h \in Fields(h)
    BY <1>1 DEF Handler
  <2> HIDE DEF stage
  <2>3. q \in Fields(q)
    BY <2>2 DEF Fields
  <2>4. /\ q.want = h.want /\ q.at = stage /\ q.n = h.n /\ q.facts = NoFacts
        /\ q.injected = FALSE /\ q.chunks = {} /\ q.made = NoMade
        /\ q.produced = h.produced /\ q.failed = h.failed /\ q.status = h.status
    BY <2>2 DEF Fields
  <2> HIDE DEF q
  <2>5. IsFact(q.facts) /\ q.injected \in BOOLEAN /\ q.chunks \in Found
    BY <2>4, FactTypes DEF Found
  <2>6. Handler(q) /\ Placed(r, q, Accounted)
    BY <1>1, <1>6, <2>2, <2>3, <2>4, <2>5, MovedPlaced DEF Reading, Writing
  <2> QED
    BY <1>1, <2>1, <2>4, <2>6, AloneInv
<1> QED
  BY <1>3, <1>4, <1>5, <1>6

(* The five stages before the model answers: the handler goes on with what  *)
(* it has read, and with nothing made.                                      *)
LEMMA ReadOnInv ==
  ASSUME Inv, NEW r \in Requests, req[r].at \in Reading,
         NEW stage \in Reading, NEW f, IsFact(f), NEW i \in BOOLEAN, NEW c \in Found,
         NEW q, q = [req[r] EXCEPT !.at = stage, !.facts = f, !.injected = i, !.chunks = c],
         Alone(r, q) \/ Faulty(r, q)
  PROVE  Inv'
<1> DEFINE h == req[r]
<1>1. Handler(h) /\ Placed(r, h, Accounted) /\ h \in Fields(h) /\ h.at \in Reading
  BY DEF Inv, Types, Handler
<1>2. h.made = NoMade /\ h.n <= Len(h.want.caps) /\ Cap(h) \in Capabilities
  BY <1>1 DEF Placed
<1>3. q \in Fields(q)
  BY <1>1 DEF Fields
<1>4. /\ q.want = h.want /\ q.at = stage /\ q.n = h.n /\ q.facts = f
      /\ q.injected = i /\ q.chunks = c /\ q.made = h.made
      /\ q.produced = h.produced /\ q.failed = h.failed /\ q.status = h.status
  BY <1>1 DEF Fields
<1>5. h.at \notin {"score", "audit"} /\ h.at # "done" /\ q.at \notin Writing /\ q.at # "next"
  BY <1>1, <1>4 DEF Reading, Writing
<1>6. Handler(q) /\ Placed(r, q, Accounted)
  <2>1. IsFact(q.facts) /\ q.injected \in BOOLEAN /\ q.chunks \in Found
    BY <1>4
  <2>2. q.at \in {"next"} \cup Reading \cup Writing
    BY <1>4
  <2>3. q.made = NoMade
    BY <1>2, <1>4
  <2> HIDE DEF h
  <2> QED
    BY ONLY <1>1, <1>2, <1>3, <1>4, <1>5, <2>1, <2>2, <2>3, MovedPlaced
<1> QED
  BY <1>4, <1>5, <1>6, AloneInv

LEMMA LookupInv ==
  ASSUME Inv, NEW r \in Requests, Lookup(r)
  PROVE  Inv'
<1> DEFINE h == req[r]
<1>1. Handler(h) /\ Placed(r, h, Accounted) /\ h.at = "lookup" /\ h \in Fields(h)
  BY DEF Inv, Types, Lookup, Handler
<1>2. CASE \E row \in Servable(Cap(h)) : Alone(r, Produced(h, CachedInsight(row)))
  <2>1. PICK row \in Servable(Cap(h)) : Alone(r, Produced(h, CachedInsight(row)))
    BY <1>2
  <2> DEFINE p == row.insight
  <2>2. row \in insights /\ p.cap = Cap(h) /\ CachedInsight(row) = p
    BY DEF Servable, CachedInsight
  <2>3. Insight(p)
    BY <2>2 DEF Inv, Rows
  <2>7. p.id \in Kept
    BY <2>2 DEF Kept
  <2>4. p.id[1] = r => p.id \in Accounted
    <3> SUFFICES ASSUME p.id[1] = r, p.id \notin Accounted PROVE FALSE
      OBVIOUS
    <3>1. PICK q \in Requests : req[q].at \in {"score", "audit"} /\ p.id = req[q].made.id
      BY <2>7 DEF Inv, KeptAccounted, InHand, Held
    <3>2. req[q].made.id = <<q, req[q].n>>
      BY <3>1 DEF Inv, Placed, Writing
    <3> QED
      BY <1>1, <3>1, <3>2
  <2>5. Settled(h, Accounted)
    BY <1>1 DEF Placed, Settled, NoMade, Reading
  <2> HIDE DEF p
  <2>6. Handler(Produced(h, p)) /\ Placed(r, Produced(h, p), Accounted)
        /\ Produced(h, p).produced = h.produced \cup {p}
    BY <1>1, <2>2, <2>3, <2>4, <2>5, ProducedPlaced DEF Reading
  <2> QED
    BY <1>1, <2>1, <2>2, <2>6, <2>7, AloneInv
<1>3. CASE Alone(r, [h EXCEPT !.at = "facts"]) \/ Faulty(r, [h EXCEPT !.at = "facts"])
  <2>1. [h EXCEPT !.at = "facts"]
          = [h EXCEPT !.at = "facts", !.facts = h.facts, !.injected = h.injected,
                      !.chunks = h.chunks]
    BY <1>1 DEF Fields
  <2>2. IsFact(h.facts) /\ h.injected \in BOOLEAN /\ h.chunks \in Found
    BY <1>1 DEF Handler
  <2> QED
    BY <1>1, <1>3, <2>1, <2>2, ReadOnInv, ZenonT(60) DEF Reading
<1> QED
  BY <1>2, <1>3 DEF Lookup

LEMMA GatherInv ==
  ASSUME Inv, NEW r \in Requests,
         ReadFacts(r) \/ ReadCases(r) \/ Retrieve(r) \/ NoProvider(r)
  PROVE  Inv'
<1> DEFINE h == req[r]
<1>1. Handler(h) /\ Placed(r, h, Accounted) /\ h \in Fields(h) /\ h.at \in Reading
  <2>1. Handler(h) /\ Placed(r, h, Accounted)
    BY DEF Inv, Types
  <2>2. h.at \in {"facts", "cases", "knowledge", "model"}
    BY DEF ReadFacts, ReadCases, Retrieve, NoProvider
  <2> QED
    BY <2>1, <2>2 DEF Handler, Reading
<1>2. IsFact(h.facts) /\ h.injected \in BOOLEAN /\ h.chunks \in Found
  BY <1>1 DEF Handler
<1>3. build \in DOMAIN FactsAt /\ IsFact(FactsAt[build])
  BY FactTypes DEF Inv, Types
<1>5. ASSUME NEW s \in {404, 502}, Alone(r, Failed(h, s)) \/ Faulty(r, Failed(h, s))
      PROVE  Inv'
  BY <1>1, <1>5, FailedInv
<1>6. ASSUME Alone(r, Answered(h, 500)) \/ Faulty(r, Answered(h, 500)) PROVE Inv'
  <2>1. h.at # "done" /\ h.at \notin {"score", "audit"} /\ Settled(h, Accounted)
    BY <1>1 DEF Placed, Settled, NoMade, Reading
  <2>2. Handler(Answered(h, 500)) /\ Placed(r, Answered(h, 500), Accounted)
        /\ Answered(h, 500).produced = h.produced
    BY <1>1, <2>1, AnsweredPlaced, SMTT(30)
  <2> QED
    BY <1>6, <2>1, <2>2, AloneInv
<1>7. CASE ReadFacts(r)
  <2>1. CASE Alone(r, [h EXCEPT !.facts = FactsAt[build], !.at = "cases"])
    <3> DEFINE f == FactsAt[build]
               q == [h EXCEPT !.facts = f, !.at = "cases"]
    <3>1. IsFact(f) /\ Alone(r, q) /\ "cases" \in Reading
      BY <1>3, <2>1 DEF Reading
    <3> HIDE DEF f
    <3>2. q = [req[r] EXCEPT !.at = "cases", !.facts = f, !.injected = h.injected,
                             !.chunks = h.chunks]
      BY <1>1 DEF Fields
    <3> HIDE DEF q
    <3> QED
      BY <1>1, <1>2, <3>1, <3>2, ReadOnInv
  <2> QED
    BY <1>5, <1>7, <2>1 DEF ReadFacts
<1>8. CASE ReadCases(r)
  <2> DEFINE i == SanitiseInput(FactsAt[build])
             after == IF Cap(h) \in UsesKnowledge THEN "knowledge" ELSE "model"
  <2>1. CASE Alone(r, [h EXCEPT !.injected = i, !.at = after])
    <3>1. i \in BOOLEAN /\ after \in Reading
      BY <1>3 DEF SanitiseInput, IsFact, Reading
    <3> HIDE DEF i, after
    <3> DEFINE q == [h EXCEPT !.injected = i, !.at = after]
    <3>2. q = [req[r] EXCEPT !.at = after, !.facts = h.facts, !.injected = i,
                             !.chunks = h.chunks]
      BY <1>1 DEF Fields
    <3>3. Alone(r, q)
      BY <2>1 DEF i, after
    <3> HIDE DEF q
    <3> QED
      BY <1>1, <1>2, <3>1, <3>2, <3>3, ReadOnInv
  <2> QED
    BY <1>5, <1>8, <2>1 DEF ReadCases
<1>9. CASE Retrieve(r)
  <2>1. ASSUME NEW found \in Found, Alone(r, [h EXCEPT !.chunks = found, !.at = "model"])
        PROVE  Inv'
    <3> DEFINE q == [h EXCEPT !.chunks = found, !.at = "model"]
    <3>1. q = [req[r] EXCEPT !.at = "model", !.facts = h.facts, !.injected = h.injected,
                             !.chunks = found]
      BY <1>1 DEF Fields
    <3>2. Alone(r, q) /\ "model" \in Reading
      BY <2>1 DEF Reading
    <3> HIDE DEF q
    <3> QED
      BY <1>1, <1>2, <3>1, <3>2, ReadOnInv
  <2> QED
    BY <1>5, <1>6, <1>9, <2>1, ZenonT(60) DEF Retrieve
<1>10. CASE NoProvider(r)
  BY <1>6, <1>10 DEF NoProvider
<1> QED
  BY <1>7, <1>8, <1>9, <1>10

LEMMA GenerateInv ==
  ASSUME Inv, NEW r \in Requests, Generate(r)
  PROVE  Inv'
<1> DEFINE h == req[r]
<1>1. Handler(h) /\ Placed(r, h, Accounted) /\ h \in Fields(h) /\ h.at = "model"
  BY DEF Inv, Types, Handler, Generate
<1>2. IsFact(h.facts) /\ h.injected \in BOOLEAN /\ h.chunks \in Found
  BY <1>1 DEF Handler
<1>3. h.n <= Len(h.want.caps) /\ Cap(h) \in Capabilities
  BY <1>1 DEF Placed, Reading
<1>4. PICK text \in Complete(Cap(h), h.facts, h.chunks) :
        \/ Alone(r, Raised(h, Id(r)))
        \/ Alone(r, [h EXCEPT !.made = Payload(Id(r), Cap(h), h, text), !.at = "store"])
  BY DEF Generate
<1>10. CASE Alone(r, Raised(h, Id(r)))
  <2>1. Id(r) = <<r, h.n>>
    BY DEF Id
  <2>2. /\ Handler(Raised(h, Id(r))) /\ Placed(r, Raised(h, Id(r)), Accounted)
        /\ Raised(h, Id(r)).produced = h.produced
    BY <1>1, <2>1, RaisedPlaced
  <2> QED
    BY <1>1, <1>10, <2>2, AloneInv
<1> DEFINE p == Payload(Id(r), Cap(h), h, text)
           q == [h EXCEPT !.made = p, !.at = "store"]
<1>5. IsFiniteSet(text.said)
  BY <1>2, <1>3, CompleteTexts
<1>6. Insight(p) /\ p.id = <<r, h.n>> /\ p.cap = Cap(h)
  BY <1>1, <1>3, <1>5, PayloadIsInsight DEF Id
<1> HIDE DEF p
<1>7. q \in Fields(q)
  BY <1>1 DEF Fields
<1>8. /\ q.want = h.want /\ q.at = "store" /\ q.n = h.n /\ q.facts = h.facts
      /\ q.injected = h.injected /\ q.chunks = h.chunks /\ q.made = p
      /\ q.produced = h.produced /\ q.failed = h.failed /\ q.status = h.status
  BY <1>1 DEF Fields
<1> HIDE DEF q
<1>9. Handler(q) /\ Placed(r, q, Accounted)
  BY <1>1, <1>2, <1>3, <1>6, <1>7, <1>8, MovedPlaced DEF Reading, Writing
<1>11. CASE Alone(r, [h EXCEPT !.made = Payload(Id(r), Cap(h), h, text), !.at = "store"])
  BY <1>1, <1>8, <1>9, <1>11, AloneInv DEF p, q
<1> QED
  BY <1>4, <1>10, <1>11

(* An audit row, or the loss of one, for the generation in hand.           *)
LEMMA WriteAuditGrows ==
  ASSUME Inv, NEW r \in Requests, NEW outcome, WriteAudit(r, outcome)
  PROVE  Accounted \subseteq Accounted' /\ Id(r) \in Accounted' /\ faults' \in 0..MaxFaults
<1> DEFINE row == AuditRow(r, outcome)
<1>1. row.id = Id(r)
  BY DEF AuditRow
<1> HIDE DEF row
<1>2. /\ audits' = audits \cup {row} \/ audits' = audits
      /\ lost' = IF row \in audits' THEN lost ELSE lost \cup {Id(r)}
      /\ Fault \/ UNCHANGED faults
  BY DEF WriteAudit, Write, row
<1>3. faults' \in 0..MaxFaults
  BY <1>2, AiInsightsAssumption DEF Fault, Inv, Types
<1>4. audits \subseteq audits' /\ lost \subseteq lost'
  BY <1>2
<1>5. Accounted \subseteq Accounted'
  BY <1>4 DEF Accounted
<1>6. Id(r) \in Accounted'
  <2>1. Id(r) \in lost' \cup {a.id : a \in audits'}
    BY <1>1, <1>2
  <2> QED
    BY <2>1 DEF Accounted
<1> QED
  BY <1>3, <1>5, <1>6

LEMMA GenerateFailsInv ==
  ASSUME Inv, NEW r \in Requests, GenerateFails(r)
  PROVE  Inv'
<1> DEFINE h == req[r]
           made == [id |-> Id(r)]
           g == [h EXCEPT !.made = made]
           q == [g EXCEPT !.at = "next"]
<1>1. /\ Handler(h) /\ Placed(r, h, Accounted) /\ h.at = "model"
      /\ WriteAudit(r, "ERROR") /\ Step(r, Failed(g, 502))
      /\ UNCHANGED <<insights, scores, build, clock, provider>>
  BY DEF Inv, Types, GenerateFails
<1>2. Accounted \subseteq Accounted' /\ Id(r) \in Accounted' /\ faults' \in 0..MaxFaults
  BY <1>1, WriteAuditGrows
<1>3. Placed(r, h, Accounted')
  BY <1>1, <1>2, PlacedGrows
<1>4. made.id \in Accounted' /\ h \in Fields(h)
  BY <1>1, <1>2 DEF Handler
<1>5. h.n <= Len(h.want.caps) /\ Cap(h) \in Capabilities
  BY <1>1 DEF Placed, Reading
<1> HIDE DEF h, made
<1>6. g \in Fields(g)
  BY ONLY <1>4 DEF Fields
<1>7. /\ g.want = h.want /\ g.n = h.n /\ g.facts = h.facts
      /\ g.injected = h.injected /\ g.chunks = h.chunks /\ g.made = made
      /\ g.produced = h.produced /\ g.failed = h.failed /\ g.status = h.status
  BY ONLY <1>4 DEF Fields
<1> HIDE DEF g
<1>8. q \in Fields(q)
  BY ONLY <1>6 DEF Fields
<1>9. /\ q.want = g.want /\ q.n = g.n /\ q.facts = g.facts /\ q.at = "next"
      /\ q.injected = g.injected /\ q.chunks = g.chunks /\ q.made = g.made
      /\ q.produced = g.produced /\ q.failed = g.failed /\ q.status = g.status
  BY ONLY <1>6 DEF Fields
<1>10. Failed(g, 502) = Failed(q, 502)
  <2>1. Cap(g) = Cap(q)
    BY <1>9 DEF Cap
  <2>2. [g EXCEPT !.failed = g.failed \cup {Cap(g)}, !.n = g.n + 1, !.at = "next"]
          = [q EXCEPT !.failed = q.failed \cup {Cap(q)}, !.n = q.n + 1, !.at = "next"]
    BY ONLY <1>6, <2>1 DEF Fields
  <2> HIDE DEF q
  <2> DEFINE x == [g EXCEPT !.at = "done", !.status = 502]
             y == [q EXCEPT !.at = "done", !.status = 502]
  <2>3. x = y
    <3>1. /\ x.want = g.want /\ x.at = "done" /\ x.n = g.n /\ x.facts = g.facts
          /\ x.injected = g.injected /\ x.chunks = g.chunks /\ x.made = g.made
          /\ x.produced = g.produced /\ x.failed = g.failed /\ x.status = 502
      BY ONLY <1>6 DEF Fields
    <3>2. /\ y.want = q.want /\ y.at = "done" /\ y.n = q.n /\ y.facts = q.facts
          /\ y.injected = q.injected /\ y.chunks = q.chunks /\ y.made = q.made
          /\ y.produced = q.produced /\ y.failed = q.failed /\ y.status = 502
      BY ONLY <1>8 DEF Fields
    <3>3. x \in Fields(x)
      BY ONLY <1>6 DEF Fields
    <3>4. y \in Fields(y)
      BY ONLY <1>8 DEF Fields
    <3> HIDE DEF x, y
    <3> QED
      BY ONLY <1>9, <3>1, <3>2, <3>3, <3>4 DEF Fields
  <2> QED
    BY <1>9, <2>2, <2>3 DEF Failed, Answered
<1> HIDE DEF q
<1>11. Settled(q, Accounted')
  BY <1>4, <1>7, <1>9 DEF Settled
<1>12. Handler(q) /\ Placed(r, q, Accounted')
  <2>1. IsFact(q.facts) /\ q.injected \in BOOLEAN /\ q.chunks \in Found
    BY <1>1, <1>7, <1>9 DEF Handler
  <2>2. /\ q.want = h.want /\ q.n = h.n /\ q.produced = h.produced
        /\ q.failed = h.failed /\ q.status = h.status
    BY <1>7, <1>9
  <2>3. q.at \in {"next"} \cup Reading \cup Writing /\ q.at \notin Reading \cup Writing
    BY <1>9 DEF Reading, Writing
  <2> QED
    BY <1>1, <1>3, <1>5, <1>8, <1>9, <1>11, <2>1, <2>2, <2>3, MovedPlaced
<1>13. Handler(Failed(q, 502)) /\ Placed(r, Failed(q, 502), Accounted')
       /\ Failed(q, 502).produced = q.produced
  BY <1>5, <1>7, <1>9, <1>11, <1>12, FailedPlaced, SMTT(30)
<1>14. Held(req[r]) = {} /\ q.produced = req[r].produced
  BY <1>1, <1>7, <1>9 DEF h, Held
<1>15. Rows'
  BY <1>1, RowsStay DEF Inv
<1> QED
  BY <1>1, <1>2, <1>10, <1>13, <1>14, <1>15, StepInv

LEMMA PersistInsightInv ==
  ASSUME Inv, NEW r \in Requests, PersistInsight(r)
  PROVE  Inv'
<1> DEFINE h == req[r]
           q == [h EXCEPT !.at = "score"]
           row == [insight |-> h.made, made |-> clock, expires |-> clock + Ttl]
<1>1. /\ Handler(h) /\ Placed(r, h, Accounted) /\ h.at = "store" /\ Step(r, q)
      /\ UNCHANGED <<scores, audits, lost, build, clock, provider>>
      /\ insights' = insights \cup {row} \/ insights' = insights
      /\ Fault \/ UNCHANGED faults
  BY DEF Inv, Types, PersistInsight, Write
<1>2. h \in Fields(h)
  BY <1>1 DEF Handler
<1>3. /\ Insight(h.made) /\ h.made.id = <<r, h.n>> /\ h.made.cap = Cap(h)
      /\ h.n <= Len(h.want.caps) /\ Cap(h) \in Capabilities
  BY <1>1 DEF Placed, Writing
<1>4. q \in Fields(q)
  BY ONLY <1>2 DEF Fields
<1>5. /\ q.want = h.want /\ q.at = "score" /\ q.n = h.n /\ q.facts = h.facts
      /\ q.injected = h.injected /\ q.chunks = h.chunks /\ q.made = h.made
      /\ q.produced = h.produced /\ q.failed = h.failed /\ q.status = h.status
  BY ONLY <1>2 DEF Fields
<1>6. /\ row.insight = h.made /\ row.made = clock /\ row.expires = clock + Ttl
      /\ clock \in Nat /\ Ttl \in Nat
  BY AiInsightsAssumption DEF Inv, Types
<1>7. faults' \in 0..MaxFaults
  BY <1>1, AiInsightsAssumption DEF Fault, Inv, Types
<1>8. Accounted' = Accounted
  BY <1>1 DEF Accounted
<1> HIDE DEF q, row
<1>9. Handler(q) /\ Placed(r, q, Accounted)
  <2>1. IsFact(q.facts) /\ q.injected \in BOOLEAN /\ q.chunks \in Found
    BY <1>1, <1>5 DEF Handler
  <2>2. q.at \in {"next"} \cup Reading \cup Writing /\ q.at \notin Reading /\ q.at # "next"
    BY <1>5 DEF Reading, Writing
  <2> QED
    BY <1>1, <1>3, <1>4, <1>5, <2>1, <2>2, MovedPlaced
<1>10. Rows'
  <2>1. ASSUME NEW x \in insights'
        PROVE  /\ Insight(x.insight)
               /\ x.made + Ttl = x.expires /\ x.made \in Nat /\ x.made <= clock
    <3>1. CASE x = row
      BY <1>3, <1>6, <3>1
    <3>2. CASE x \in insights
      BY <3>2 DEF Inv, Rows
    <3> QED
      BY <1>1, <3>1, <3>2
  <2> QED
    BY <1>1, <2>1 DEF Rows
<1>11. Held(h) = {} /\ Held(q) = {h.made.id}
  BY <1>1, <1>5 DEF Held
<1>12. \A x \in insights' : x \in insights \/ x.insight.id \in Held(q)
  BY <1>1, <1>6, <1>11
<1> QED
  BY <1>1, <1>5, <1>7, <1>8, <1>9, <1>10, <1>11, <1>12, StepInv

LEMMA PersistScoresInv ==
  ASSUME Inv, NEW r \in Requests, PersistScores(r)
  PROVE  Inv'
<1> DEFINE h == req[r]
           q == [h EXCEPT !.at = "audit"]
           row == [id |-> h.made.id, quality |-> h.made.quality]
<1>1. /\ Handler(h) /\ Placed(r, h, Accounted) /\ h.at = "score" /\ Step(r, q)
      /\ UNCHANGED <<insights, audits, lost, build, clock, provider>>
      /\ scores' = scores \cup {row} \/ scores' = scores
      /\ Fault \/ UNCHANGED faults
  BY DEF Inv, Types, PersistScores, Write
<1>2. h \in Fields(h)
  BY <1>1 DEF Handler
<1>3. /\ Insight(h.made) /\ h.made.id = <<r, h.n>> /\ h.made.cap = Cap(h)
      /\ h.n <= Len(h.want.caps) /\ Cap(h) \in Capabilities
  BY <1>1 DEF Placed, Writing
<1>4. q \in Fields(q)
  BY ONLY <1>2 DEF Fields
<1>5. /\ q.want = h.want /\ q.at = "audit" /\ q.n = h.n /\ q.facts = h.facts
      /\ q.injected = h.injected /\ q.chunks = h.chunks /\ q.made = h.made
      /\ q.produced = h.produced /\ q.failed = h.failed /\ q.status = h.status
  BY ONLY <1>2 DEF Fields
<1>6. faults' \in 0..MaxFaults
  BY <1>1, AiInsightsAssumption DEF Fault, Inv, Types
<1>7. Accounted' = Accounted
  BY <1>1 DEF Accounted
<1>9. row.id = h.made.id
  OBVIOUS
<1> HIDE DEF q, row
<1>8. Handler(q) /\ Placed(r, q, Accounted)
  <2>1. IsFact(q.facts) /\ q.injected \in BOOLEAN /\ q.chunks \in Found
    BY <1>1, <1>5 DEF Handler
  <2>2. q.at \in {"next"} \cup Reading \cup Writing /\ q.at \notin Reading /\ q.at # "next"
    BY <1>5 DEF Reading, Writing
  <2> QED
    BY <1>1, <1>3, <1>4, <1>5, <2>1, <2>2, MovedPlaced
<1>10. Held(h) = {h.made.id} /\ Held(q) = {h.made.id}
  BY <1>1, <1>5 DEF Held
<1>11. \A s \in scores' : s \in scores \/ s.id \in Held(q)
  BY <1>1, <1>9, <1>10
<1>12. Rows'
  BY <1>1, RowsStay DEF Inv
<1> QED
  BY <1>1, <1>5, <1>6, <1>7, <1>8, <1>10, <1>11, <1>12, StepInv

LEMMA AuditInv ==
  ASSUME Inv, NEW r \in Requests, Audit(r)
  PROVE  Inv'
<1> DEFINE h == req[r]
<1>1. /\ Handler(h) /\ Placed(r, h, Accounted) /\ h.at = "audit"
      /\ Step(r, Produced(h, h.made))
      /\ UNCHANGED <<insights, scores, build, clock, provider>>
      /\ WriteAudit(r, IF h.made.passed THEN "SUCCESS" ELSE "BLOCKED")
  BY DEF Inv, Types, Audit
<1>2. Accounted \subseteq Accounted' /\ Id(r) \in Accounted' /\ faults' \in 0..MaxFaults
  BY <1>1, WriteAuditGrows
<1>3. Placed(r, h, Accounted')
  BY <1>1, <1>2, PlacedGrows
<1>4. Insight(h.made) /\ h.made.id = Id(r) /\ h.made.cap = Cap(h)
  BY <1>1 DEF Placed, Writing, Id
<1>5. Settled(h, Accounted') /\ h.at \in Reading \cup Writing
  BY <1>1, <1>2, <1>4 DEF Settled, Writing
<1> DEFINE p == h.made
<1>6. p.id \in Accounted' /\ Insight(p) /\ p.cap = Cap(h) /\ Step(r, Produced(h, p))
  BY <1>1, <1>2, <1>4
<1>7. Held(req[r]) \subseteq Accounted'
  BY <1>2, <1>4 DEF Held
<1>9. Rows'
  BY <1>1, RowsStay DEF Inv
<1>10. h.produced = req[r].produced
  OBVIOUS
<1> HIDE DEF h, p
<1>8. Handler(Produced(h, p)) /\ Placed(r, Produced(h, p), Accounted')
      /\ Produced(h, p).produced = h.produced \cup {p}
  BY <1>1, <1>3, <1>5, <1>6, ProducedPlaced
<1> QED
  BY <1>1, <1>2, <1>6, <1>7, <1>8, <1>9, <1>10, StepInv

LEMMA KeptStays ==
  UNCHANGED <<req, tables>> => Accounted' = Accounted /\ (KeptAccounted => KeptAccounted')
BY DEF tables, Accounted, KeptAccounted, Kept, Given, InHand

LEMMA NextInv == Inv /\ [Next]_vars => Inv'
<1> SUFFICES ASSUME Inv, [Next]_vars PROVE Inv'
  OBVIOUS
<1>1. CASE Nightly
  <2>1. UNCHANGED <<req, tables, clock, provider, faults>> /\ build' \in DOMAIN FactsAt
    BY <1>1 DEF Nightly
  <2>2. Accounted' = Accounted /\ KeptAccounted'
    BY <2>1, KeptStays DEF tables, Inv
  <2>3. Rows'
    BY <2>1, RowsStay DEF tables, Inv
  <2> QED
    BY <2>1, <2>2, <2>3 DEF Inv, Types
<1>2. CASE Tick
  <2>1. UNCHANGED <<req, tables, build, provider, faults>>
        /\ clock' = clock + 1 /\ clock \in 0..MaxClock /\ clock' \in 0..MaxClock
    BY <1>2, AiInsightsAssumption DEF Tick, Inv, Types
  <2>2. Accounted' = Accounted /\ KeptAccounted' /\ Types' /\ insights' = insights
    BY <2>1, KeptStays DEF Inv, Types, tables
  <2>3. ASSUME NEW row \in insights PROVE row.made \in Nat /\ row.made <= clock'
    BY <2>1, AiInsightsAssumption DEF Inv, Rows
  <2>4. Rows'
    BY <2>1, <2>2, <2>3 DEF Inv, Rows
  <2> QED
    BY <2>1, <2>2, <2>4 DEF Inv
<1>3. CASE \E r \in Requests : Handle(r)
  <2>1. PICK r \in Requests : Handle(r)
    BY <1>3
  <2>2. CASE Arrive(r)
    BY <2>2, ArriveInv
  <2>3. CASE NextCapability(r)
    BY <2>3, NextCapabilityInv
  <2>4. CASE Lookup(r)
    BY <2>4, LookupInv
  <2>5. CASE ReadFacts(r) \/ ReadCases(r) \/ Retrieve(r) \/ NoProvider(r)
    BY <2>5, GatherInv
  <2>6. CASE Generate(r)
    BY <2>6, GenerateInv
  <2>7. CASE GenerateFails(r)
    BY <2>7, GenerateFailsInv
  <2>8. CASE PersistInsight(r)
    BY <2>8, PersistInsightInv
  <2>9. CASE PersistScores(r)
    BY <2>9, PersistScoresInv
  <2>10. CASE Audit(r)
    BY <2>10, AuditInv
  <2> QED
    BY <2>1, <2>2, <2>3, <2>4, <2>5, <2>6, <2>7, <2>8, <2>9, <2>10 DEF Handle
<1>4. CASE UNCHANGED vars
  <2>1. UNCHANGED <<req, tables, build, clock, provider, faults>>
    BY <1>4 DEF vars, tables
  <2>2. Accounted' = Accounted /\ KeptAccounted'
    BY <2>1, KeptStays DEF tables, Inv
  <2>3. Rows'
    BY <2>1, RowsStay DEF tables, Inv
  <2> QED
    BY <2>1, <2>2, <2>3 DEF Inv, Types
<1> QED
  BY <1>1, <1>2, <1>3, <1>4 DEF Next

-----------------------------------------------------------------------------
(* What holds in every state of the pipeline.                              *)
THEOREM Invariance == Spec => []Inv
<1>1. Init => Inv
  BY InitInv
<1>2. Inv /\ [Next]_vars => Inv'
  BY NextInv
<1> QED
  BY <1>1, <1>2, PTL DEF Spec

(* Every handler is at one of its stages, has the status of its answer, and *)
(* when it answers 200 every capability asked for is in the answer, as a    *)
(* text or as a failure; every stored insight expires one TTL after it was  *)
(* made (app.py:110-128, capabilities.py:338-395).                         *)
THEOREM Typed == Spec => []TypeOK
<1>1. Inv => TypeOK
  <2> SUFFICES ASSUME Inv PROVE TypeOK
    OBVIOUS
  <2>1. ASSUME NEW r \in Requests
        PROVE  /\ req[r].want \in Wants[r] /\ req[r].n \in 1..Len(req[r].want.caps) + 1
               /\ req[r].at \in {"idle", "next", "lookup", "facts", "cases", "knowledge",
                                 "model", "store", "score", "audit", "done"}
               /\ req[r].status \in {0, 200, 400, 404, 500, 502}
               /\ \A p \in req[r].produced : p.cap \in Capabilities
    <3> DEFINE h == req[r]
    <3>1. Handler(h) /\ Placed(r, h, Accounted)
      BY DEF Inv, Types
    <3>2. h.n \in Nat \ {0} /\ Len(h.want.caps) \in Nat /\ h.n <= Len(h.want.caps) + 1
      BY <3>1 DEF Handler, WantType, Placed
    <3>3. h.n \in 1..Len(h.want.caps) + 1
      BY <3>2
    <3>4. h.want \in Wants[r]
      BY <3>1 DEF Placed
    <3>5. h.at \in {"idle", "next", "lookup", "facts", "cases", "knowledge",
                    "model", "store", "score", "audit", "done"}
      BY <3>1 DEF Handler, Reading, Writing
    <3>6. h.status \in {0, 200, 400, 404, 500, 502}
      BY <3>1 DEF Handler
    <3>7. \A p \in h.produced : p.cap \in Capabilities
      BY <3>1 DEF Handler, Insight
    <3> QED
      BY <3>3, <3>4, <3>5, <3>6, <3>7
  <2>2. ASSUME NEW r \in Requests, req[r].status = 200, req[r].want.many
        PROVE  {p.cap : p \in req[r].produced} \cup req[r].failed
                 = {req[r].want.caps[i] : i \in DOMAIN req[r].want.caps}
    <3> DEFINE h == req[r]
    <3>1. Handler(h) /\ Placed(r, h, Accounted)
      BY DEF Inv, Types
    <3>2. h.n = Len(h.want.caps) + 1 /\ Len(h.want.caps) \in Nat
          /\ DOMAIN h.want.caps = 1..Len(h.want.caps)
      BY <2>2, <3>1 DEF Placed, Handler, WantType
    <3>3. 1..(h.n - 1) = DOMAIN h.want.caps
      BY <3>2
    <3>4. {p.cap : p \in h.produced} \cup h.failed = {h.want.caps[i] : i \in 1..(h.n - 1)}
      BY <2>2, <3>1 DEF Placed, InOrder
    <3> QED
      BY <3>3, <3>4
  <2>3. /\ \A row \in insights : row.made + Ttl = row.expires /\ row.made <= clock
        /\ build \in DOMAIN FactsAt /\ clock \in 0..MaxClock /\ faults \in 0..MaxFaults
    BY DEF Inv, Rows, Types
  <2> QED
    <3>1. \A r \in Requests :
            /\ req[r].want \in Wants[r] /\ req[r].n \in 1..Len(req[r].want.caps) + 1
            /\ req[r].at \in {"idle", "next", "lookup", "facts", "cases", "knowledge",
                              "model", "store", "score", "audit", "done"}
            /\ req[r].status \in {0, 200, 400, 404, 500, 502}
            /\ \A p \in req[r].produced : p.cap \in Capabilities
            /\ req[r].status = 200 /\ req[r].want.many =>
                 {p.cap : p \in req[r].produced} \cup req[r].failed
                   = {req[r].want.caps[i] : i \in DOMAIN req[r].want.caps}
      <4> TAKE r \in Requests
      <4>1. req[r].status = 200 /\ req[r].want.many =>
              {p.cap : p \in req[r].produced} \cup req[r].failed
                = {req[r].want.caps[i] : i \in DOMAIN req[r].want.caps}
        BY ONLY <2>2, r \in Requests, Zenon
      <4>2. /\ req[r].want \in Wants[r] /\ req[r].n \in 1..Len(req[r].want.caps) + 1
            /\ req[r].at \in {"idle", "next", "lookup", "facts", "cases", "knowledge",
                              "model", "store", "score", "audit", "done"}
            /\ req[r].status \in {0, 200, 400, 404, 500, 502}
            /\ \A p \in req[r].produced : p.cap \in Capabilities
        BY ONLY <2>1, r \in Requests
      <4> QED
        BY ONLY <4>1, <4>2, SMTT(30)
    <3> QED
      BY ONLY <2>3, <3>1, Zenon DEF TypeOK
<1> QED
  BY <1>1, Invariance, PTL

(* Whatever the model of the provider returns, and whoever is served from   *)
(* the store, no answer states a number its generation was not shown (as    *)
(* far as the check can see numbers), leaks, or names an action off the     *)
(* approved list (guardrails.py:88-114, capabilities.py:315-333).           *)
THEOREM NothingBlockedIsServed == Spec => []BlockedNeverServed
<1>1. Inv => BlockedNeverServed
  <2> SUFFICES ASSUME Inv, NEW r \in Requests, NEW p \in req[r].produced
               PROVE  /\ p.said \subseteq p.grounding /\ ~p.leaks
                      /\ p.structured \in ApprovedActions \cup {"none"}
    BY DEF BlockedNeverServed, Given
  <2> QED
    BY DEF Inv, Types, Handler, Insight
<1> QED
  BY <1>1, Invariance, PTL

(* An insight that was blocked, made from a record with instructions in it, *)
(* or a recommendation, is marked for review, also when it is served from   *)
(* the store; with a threshold of at most 0.60 no other is, since the       *)
(* confidence of a text that passed is never lower (capabilities.py:275-306, *)
(* 338-395).                                                                *)
THEOREM ReviewIsKept == Spec => []ReviewSurvives
<1>1. Inv => ReviewSurvives
  <2> SUFFICES ASSUME Inv, NEW r \in Requests, NEW p \in req[r].produced
               PROVE  /\ Due(p) => p.review = "PENDING_REVIEW"
                      /\ ReviewThreshold <= 6000 /\ p.review = "PENDING_REVIEW" => Due(p)
    BY DEF ReviewSurvives, Given, Due
  <2> QED
    BY DEF Inv, Types, Handler, Insight
<1> QED
  BY <1>1, Invariance, PTL

(* A generation that reached the model and ended, well, blocked or in an    *)
(* error, has an audit row, or is one whose audit write failed, or its text *)
(* made the service raise (evaluation.py:81, capabilities.py:325): then its *)
(* request ended in a 500, and nothing of it was stored, scored or          *)
(* answered, here or from the store.                                        *)
THEOREM EveryGenerationAudited == Spec => []GenerationsAudited
<1>1. Inv => GenerationsAudited
  <2> SUFFICES ASSUME Inv, NEW r \in Requests, NEW id \in Ended(r), id \notin Accounted
               PROVE  id = req[r].made.id /\ req[r].status = 500 /\ id \notin Kept
    BY DEF GenerationsAudited
  <2>1. Placed(r, req[r], Accounted)
    BY DEF Inv
  <2>2. ~\E p \in req[r].produced : p.id[1] = r /\ id = p.id
    BY <2>1 DEF Placed, OwnAudited
  <2>3. /\ req[r].made.id # <<>> /\ req[r].at \in {"next", "done"}
        /\ id = req[r].made.id
    BY <2>2 DEF Ended
  <2>4. req[r].at = "done" /\ req[r].status = 500 /\ id = <<r, req[r].n>>
    BY <2>1, <2>3 DEF Placed, Settled
  <2>5. id \notin Kept
    <3> SUFFICES ASSUME id \in Kept PROVE FALSE
      OBVIOUS
    <3>1. PICK q \in Requests : req[q].at \in {"score", "audit"} /\ id = req[q].made.id
      BY DEF Inv, KeptAccounted, InHand, Held
    <3>2. req[q].made.id = <<q, req[q].n>>
      BY <3>1 DEF Inv, Placed, Writing
    <3> QED
      BY <2>4, <3>1, <3>2
  <2> QED
    BY <2>3, <2>4, <2>5
<1> QED
  BY <1>1, Invariance, PTL
=============================================================================
