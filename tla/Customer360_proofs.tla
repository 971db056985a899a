-------------------------- MODULE Customer360_proofs --------------------------
(***************************************************************************)
(* Proofs about Customer360 for every set of requests, whatever they ask,  *)
(* every number of attempts and every time-out.                            *)
(*                                                                         *)
(* The client's view is honest because of two facts about the tiers below, *)
(* neither of which the properties mention:                                *)
(*   - RunHonest: a run of the process layer, at every stage, holds as     *)
(*     values exactly what its reads returned and as degraded exactly what *)
(*     its reads failed at, and leaves a stage with nothing pending;       *)
(*   - ReplyFromRun: a reply that is not the gateway's own error is made   *)
(*     from a run that has ended, and a run that has ended stays so.       *)
(***************************************************************************)
EXTENDS Customer360, TLAPS

RunType ==
  [at : {"none", "hard", "soft", "ai", "done", "lost"}, age : Nat,
   value : SUBSET Reads, deg : SUBSET Reads,
   wire : [Reads -> {"unsent", "row", "norow"} \cup Failures], status : Nat]

ReplyType ==
  [status : Nat, shown : SUBSET Reads, named : SUBSET Reads, masked : SUBSET Identifiers]

Types ==
  /\ ask \in [Requests -> Asks]
  /\ try \in [Requests -> 0..Attempts]
  /\ waited \in [Requests -> 0..Timeout]
  /\ run \in [Requests -> [1..Attempts -> RunType]]
  /\ reply \in [Requests -> ReplyType]
  /\ rebuilding \in BOOLEAN

With(p, outcomes) == {part \in Reads : p.wire[part] \in outcomes}

(* What a run knows is what its reads ended with. *)
Truthful(p) ==
  /\ p.value = With(p, {"row"})
  /\ p.deg \subseteq With(p, Failures)
  /\ p.status = 200 => p.deg = With(p, Failures)

(* A stage begins with its reads unsent and ends with none pending. *)
Staged(a, p) ==
  /\ p.at = "hard" => With(p, {"unsent"}) = Reads
  /\ Active(p) => p.wire["ai"] = "unsent" /\ p.status = 200
  /\ p.at = "lost" => p.status = 503
  /\ p.at \in {"ai", "done"} /\ p.status = 200 => Pending(a, p) = {}

(* A hard read that did not give a row fails the run with its own status,  *)
(* and nothing else makes a run refuse.                                    *)
Refusing(a, p) ==
  /\ \A part \in HardRead(a) :
       p.wire[part] \in {"norow"} \cup Failures => p.status = StatusOf[p.wire[part]]
  /\ p.status \in {400, 401, 404} =>
       \E part \in HardRead(a) :
         /\ p.wire[part] \in {"norow"} \cup Failures
         /\ p.status = StatusOf[p.wire[part]]

RunHonest(a, p) ==
  /\ p.age \in 0..Budget(a, p.at)
  /\ Truthful(p) /\ Staged(a, p) /\ Refusing(a, p)
  /\ p.at = "none" <=> p.status = 0
  /\ p.status \in {0, 200, 400, 401, 404, 429, 503, 504}
  /\ p.status = 429 => p = LimitedRun

(* Where a reply comes from. *)
ReplyFromRun(r) ==
  /\ ask[r].kind \in Sources => try[r] = 0
  /\ try[r] = 0 /\ ask[r].kind \notin Sources => reply[r].status \in {0, 401, 403, 429, 503}
  /\ try[r] > 0 => run[r][try[r]].at # "none"
  /\ try[r] > 0 /\ reply[r] # NoReply =>
       LET p == run[r][try[r]] IN
       \/ reply[r].status \in {503, 504} /\ reply[r] = Error(reply[r].status)
       \/ /\ p.at = "done"
          /\ \/ p.status = 200 /\ reply[r] = Shape(ask[r], p)
             \/ p.status \in {400, 401, 404, 429} /\ reply[r] = Error(Relayed(p.status))

Shown(r) == reply[r].shown \cap reply[r].named = {}

Inv ==
  /\ Types
  /\ \A r \in Requests, k \in 1..Attempts : RunHonest(ask[r], run[r][k])
  /\ \A r \in Requests : ReplyFromRun(r) /\ Shown(r)

-----------------------------------------------------------------------------
(* What is asked and what is read *)

LEMMA AskFields ==
  ASSUME NEW a \in Asks
  PROVE  /\ a.kind \in Kinds
         /\ a.orders \in BOOLEAN /\ a.support \in BOOLEAN /\ a.ai \in BOOLEAN
         /\ a.known \in BOOLEAN /\ a.scored \in BOOLEAN
         /\ a.fault \in {"none", "timeout", "error", "throttle", "flaky"}
BY Customer360Assumption

(* Each way a hard read can end badly has a status of its own. *)
LEMMA StatusesAre ==
  /\ StatusOf["norow"] = 404 /\ StatusOf["unavailable"] = 503 /\ StatusOf["timeout"] = 504
  /\ StatusOf["unauthorized"] = 401 /\ StatusOf["rejected"] = 400
BY DEF StatusOf

(* At most one read is hard, it is none of the soft ones, and stages only   *)
(* go forward.                                                              *)
LEMMA Stages ==
  ASSUME NEW a \in Asks
  PROVE  /\ HardRead(a) \in {{}, {"core"}, {"list"}}
         /\ SoftReads(a) \subseteq Soft
         /\ After(a, "start") \in {"hard", "soft", "ai", "done"}
         /\ After(a, "start") = "hard" => HardRead(a) # {}
         /\ After(a, "hard") \in {"soft", "ai", "done"}
         /\ After(a, "soft") \in {"ai", "done"}
         /\ After(a, "start") \in {"ai", "done"} => SoftReads(a) = {}
         /\ After(a, "hard") \in {"ai", "done"} => SoftReads(a) = {}
<1>1. HardRead(a) \in {{}, {"core"}, {"list"}}
  BY DEF HardRead
<1>2. SoftReads(a) \subseteq Soft
  BY DEF SoftReads, Soft
<1>3. /\ After(a, "start") \in {"hard", "soft", "ai", "done"}
      /\ After(a, "start") = "hard" => HardRead(a) # {}
      /\ After(a, "start") \in {"ai", "done"} => SoftReads(a) = {}
  BY DEF After
<1>4. /\ After(a, "hard") \in {"soft", "ai", "done"}
      /\ After(a, "hard") \in {"ai", "done"} => SoftReads(a) = {}
  BY DEF After
<1>5. After(a, "soft") \in {"ai", "done"}
  BY DEF After
<1> QED
  BY <1>1, <1>2, <1>3, <1>4, <1>5

LEMMA Multiple ==
  ASSUME NEW m \in Nat, NEW n \in Nat, m >= 1
  PROVE  m * n \in Nat /\ n <= m * n
<1>1. PICK k \in Nat : m = k + 1
  OBVIOUS
<1>2. m * n = k * n + n /\ k * n \in Nat
  BY <1>1
<1> QED
  BY <1>2

LEMMA Budgets ==
  ASSUME NEW a, NEW at
  PROVE  /\ Budget(a, at) \in Nat
         /\ Budget(a, at) <= Budget(a, "done")
<1>1. Attempts \in Nat /\ Attempts >= 1 /\ Timeout \in Nat
  BY Customer360Assumption
<1>2. Attempts * Timeout \in Nat /\ Timeout <= Attempts * Timeout
  BY <1>1, Multiple
<1> QED
  BY <1>1, <1>2 DEF Budget

LEMMA NewRunHonest ==
  ASSUME NEW a \in Asks
  PROVE  /\ NoRun \in RunType /\ RunHonest(a, NoRun)
         /\ NewRun(a) \in RunType /\ RunHonest(a, NewRun(a)) /\ NewRun(a).at # "none"
         /\ LimitedRun \in RunType /\ RunHonest(a, LimitedRun) /\ LimitedRun.at # "none"
<1>1. NoRun \in RunType
  BY DEF NoRun, RunType
<1>9. \A p \in RunType, at \in {"hard", "soft", "ai", "done"} : [p EXCEPT !.at = at] \in RunType
  BY DEF RunType
<1>10. \A p \in RunType, n \in Nat : [p EXCEPT !.status = n] \in RunType
  BY DEF RunType
<1>2. /\ NewRun(a).at = After(a, "start") /\ NewRun(a).status = 200
      /\ NewRun(a).age = 0 /\ NewRun(a).value = {} /\ NewRun(a).deg = {}
      /\ NewRun(a).wire = [p \in Reads |-> "unsent"]
      /\ NewRun(a) \in RunType
  <2>1. After(a, "start") \in {"hard", "soft", "ai", "done"}
    BY Stages
  <2>2. NewRun(a) \in RunType
    <3> DEFINE p == [NoRun EXCEPT !.at = After(a, "start")]
    <3>1. p \in RunType
      BY <1>1, <1>9, <2>1
    <3>2. NewRun(a) = [p EXCEPT !.status = 200]
      BY Zenon DEF NewRun
    <3> HIDE DEF p
    <3> QED
      BY <1>10, <3>1, <3>2
  <2> QED
    BY <2>2 DEF NewRun, NoRun
<1>3. /\ LimitedRun.at = "done" /\ LimitedRun.status = 429
      /\ LimitedRun.age = 0 /\ LimitedRun.value = {} /\ LimitedRun.deg = {}
      /\ LimitedRun.wire = [p \in Reads |-> "unsent"]
      /\ LimitedRun \in RunType
  <2>1. LimitedRun \in RunType
    <3> DEFINE p == [NoRun EXCEPT !.at = "done"]
    <3>1. p \in RunType
      BY <1>1, <1>9
    <3>2. LimitedRun = [p EXCEPT !.status = 429]
      BY Zenon DEF LimitedRun
    <3> HIDE DEF p
    <3> QED
      BY <1>10, <3>1, <3>2
  <2> QED
    BY <2>1 DEF LimitedRun, NoRun
<1>4. \A p \in {NoRun, NewRun(a), LimitedRun} :
        /\ \A o : With(p, o) = IF "unsent" \in o THEN Reads ELSE {}
        /\ \A part \in Reads : p.wire[part] = "unsent"
  BY <1>2, <1>3 DEF With, NoRun
<1>5. \A p \in {NoRun, NewRun(a), LimitedRun} :
        p.status \in {0, 200, 429} => Refusing(a, p)
  <2>1. HardRead(a) \subseteq Reads
    BY Stages DEF Reads
  <2> QED
    BY <1>4, <2>1 DEF Refusing, Failures
<1>6. RunHonest(a, NoRun)
  <2>1. /\ NoRun.at = "none" /\ NoRun.status = 0 /\ NoRun.age = 0
        /\ NoRun.value = {} /\ NoRun.deg = {}
    BY DEF NoRun
  <2>2. Truthful(NoRun) /\ Staged(a, NoRun)
    BY <1>4, <2>1 DEF Truthful, Staged, Active, Failures
  <2> QED
    BY <1>5, <2>1, <2>2, Budgets DEF RunHonest
<1>7. RunHonest(a, NewRun(a))
  <2>1. Truthful(NewRun(a))
    BY <1>2, <1>4 DEF Truthful, Failures
  <2>2. Staged(a, NewRun(a))
    BY <1>2, <1>4, Stages DEF Staged, Active, Pending, Reads
  <2> QED
    BY <1>2, <1>5, <2>1, <2>2, Stages, Budgets DEF RunHonest
<1>8. RunHonest(a, LimitedRun)
  <2>1. Truthful(LimitedRun) /\ Staged(a, LimitedRun)
    BY <1>3, <1>4 DEF Truthful, Staged, Active, Failures
  <2> QED
    BY <1>3, <1>5, <2>1, Budgets DEF RunHonest
<1> QED
  BY <1>1, <1>2, <1>3, <1>6, <1>7, <1>8, Stages

LEMMA EndedFields ==
  ASSUME NEW p \in RunType, NEW part \in Reads, NEW o \in {"row", "norow"} \cup Failures
  PROVE  /\ Ended(p, part, o) \in RunType
         /\ Ended(p, part, o).wire = [p.wire EXCEPT ![part] = o]
         /\ Ended(p, part, o).at = p.at /\ Ended(p, part, o).age = p.age
         /\ Ended(p, part, o).value = p.value /\ Ended(p, part, o).deg = p.deg
         /\ Ended(p, part, o).status = p.status
BY DEF Ended, RunType

(* A run that has not refused yet refuses for nothing but its hard read. *)
LEMMA RefusingKept ==
  ASSUME NEW a, NEW p, NEW q, Refusing(a, p), p.status = 200,
         q.status \in {200, 503},
         \A part \in HardRead(a) : q.wire[part] = p.wire[part]
  PROVE  Refusing(a, q)
BY DEF Refusing, StatusOf, Failures

(* A run stays honest when a hard read, a soft read or the AI read ends.   *)
LEMMA EndHardHonest ==
  ASSUME NEW a \in Asks, NEW p \in RunType, RunHonest(a, p), p.at = "hard",
         NEW part \in HardRead(a), NEW o \in {"row", "norow"} \cup Failures
  PROVE  /\ EndHard(a, p, part, o) \in RunType
         /\ RunHonest(a, EndHard(a, p, part, o))
         /\ EndHard(a, p, part, o).at # "none"
<1> DEFINE q == EndHard(a, p, part, o)
<1>1. part \in Reads /\ HardRead(a) = {part} /\ part # "ai" /\ part \notin Soft
  BY Stages DEF Reads, Soft
<1>2. /\ q \in RunType
      /\ q.wire = [p.wire EXCEPT ![part] = o] /\ q.deg = p.deg
      /\ o = "row" => /\ q.value = p.value \cup {part} /\ q.age = 0
                      /\ q.at = After(a, "hard") /\ q.status = p.status
      /\ o # "row" => /\ q.value = p.value /\ q.age = p.age
                      /\ q.at = "done" /\ q.status = StatusOf[o]
  <2> DEFINE e == Ended(p, part, o)
  <2>1. /\ e \in RunType /\ e.wire = [p.wire EXCEPT ![part] = o]
        /\ e.at = p.at /\ e.age = p.age /\ e.value = p.value /\ e.deg = p.deg
        /\ e.status = p.status
    BY <1>1, EndedFields, ZenonT(60)
  <2> HIDE DEF e
  <2>2. CASE o = "row"
    <3>1. q = [e EXCEPT !.value = @ \cup {part}, !.age = 0, !.at = After(a, "hard")]
      BY <2>2 DEF EndHard, e
    <3>2. After(a, "hard") \in {"soft", "ai", "done"}
      BY Stages
    <3>3. q.value = e.value \cup {part} /\ q.wire = e.wire /\ q.deg = e.deg
      BY <2>1, <3>1 DEF RunType
    <3>4. q.age = 0 /\ q.at = After(a, "hard") /\ q.status = e.status
      BY <2>1, <3>1 DEF RunType
    <3>5. q \in RunType
      <4>1. e.value \cup {part} \in SUBSET Reads
        BY <1>1, <2>1 DEF RunType
      <4> HIDE DEF q
      <4> QED
        BY <2>1, <3>1, <3>2, <4>1 DEF RunType
    <3> QED
      BY <2>1, <2>2, <3>3, <3>4, <3>5
  <2>3. CASE o # "row"
    <3>1. q = [e EXCEPT !.at = "done", !.status = StatusOf[o]]
      BY <2>3 DEF EndHard, e
    <3>2. StatusOf[o] \in Nat
      BY <2>3 DEF StatusOf, Failures
    <3> QED
      BY <2>1, <2>3, <3>1, <3>2 DEF RunType
  <2> QED
    BY <2>2, <2>3
<1>3. p.wire \in [Reads -> {"unsent", "row", "norow"} \cup Failures]
  BY DEF RunType
<1>4. \A r \in Reads : p.wire[r] = "unsent"
  BY DEF RunHonest, Staged, With
<1>5. p.value = {} /\ p.deg = {} /\ p.status = 200
  BY <1>4 DEF RunHonest, Truthful, Staged, Active, With, Failures
<1>6. o # "row" => q.status \in {400, 401, 404, 503, 504}
  BY <1>2 DEF StatusOf, Failures
<1>7. Truthful(q)
  BY <1>1, <1>2, <1>3, <1>4, <1>5, <1>6 DEF Truthful, With, Failures
<1>8. Staged(a, q)
  BY <1>1, <1>2, <1>3, <1>4, <1>5, <1>6, Stages DEF Staged, Active, Pending, With, Reads
<1>9. Refusing(a, q)
  <2>1. q.wire[part] = o
    BY <1>1, <1>2, <1>3
  <2> QED
    BY <1>1, <1>2, <1>5, <2>1 DEF Refusing, Failures
<1>10. q.age \in 0..Budget(a, q.at)
  BY <1>2, Budgets DEF RunHonest, RunType
<1> QED
  BY <1>2, <1>5, <1>6, <1>7, <1>8, <1>9, <1>10, Stages DEF RunHonest

LEMMA SafeTruthful ==
  ASSUME NEW p \in RunType, Truthful(p), p.status = 200,
         NEW part \in Reads, p.wire[part] = "unsent",
         NEW o \in {"row", "norow"} \cup Failures
  PROVE  /\ Safe(p, part, o) \in RunType /\ Truthful(Safe(p, part, o))
         /\ Safe(p, part, o).wire = [p.wire EXCEPT ![part] = o]
         /\ Safe(p, part, o).at = p.at /\ Safe(p, part, o).age = p.age
         /\ Safe(p, part, o).status = 200
<1> DEFINE q == Safe(p, part, o)
<1>1. /\ q \in RunType
      /\ q.wire = [p.wire EXCEPT ![part] = o]
      /\ q.at = p.at /\ q.age = p.age /\ q.status = 200
      /\ q.value = p.value \cup (IF o = "row" THEN {part} ELSE {})
      /\ q.deg = p.deg \cup (IF o \in Failures THEN {part} ELSE {})
  <2> DEFINE e == Ended(p, part, o)
  <2>1. /\ e \in RunType /\ e.wire = [p.wire EXCEPT ![part] = o]
        /\ e.at = p.at /\ e.age = p.age /\ e.value = p.value /\ e.deg = p.deg
        /\ e.status = p.status
    <3>1. p \in RunType /\ part \in Reads /\ o \in {"row", "norow"} \cup Failures
      OBVIOUS
    <3> QED
      BY ONLY <3>1, EndedFields
  <2> HIDE DEF e
  <2>2. CASE o = "row"
    <3>1. q = [e EXCEPT !.value = @ \cup {part}]
      BY <2>2 DEF Safe, e
    <3> QED
      BY <2>1, <2>2, <3>1 DEF RunType, Failures
  <2>3. CASE o = "norow"
    <3>1. q = e
      BY <2>3 DEF Safe, e
    <3> QED
      BY <2>1, <2>3, <3>1 DEF Failures
  <2>4. CASE o \in Failures
    <3>1. q = [e EXCEPT !.deg = @ \cup {part}]
      BY <2>4 DEF Safe, e, Failures
    <3> QED
      BY <2>1, <2>4, <3>1 DEF RunType, Failures
  <2> QED
    BY <2>2, <2>3, <2>4
<1>2. p.wire \in [Reads -> {"unsent", "row", "norow"} \cup Failures]
  BY DEF RunType
<1>3. With(q, {"row"}) = With(p, {"row"}) \cup (IF o = "row" THEN {part} ELSE {})
  BY <1>1, <1>2 DEF With
<1>4. With(q, Failures) = With(p, Failures) \cup (IF o \in Failures THEN {part} ELSE {})
  BY <1>1, <1>2 DEF With, Failures
<1> QED
  BY <1>1, <1>3, <1>4 DEF Truthful

LEMMA EndSoftHonest ==
  ASSUME NEW a \in Asks, NEW p \in RunType, RunHonest(a, p), p.at = "soft",
         NEW part \in Pending(a, p), NEW o \in {"row", "norow"} \cup Failures
  PROVE  /\ EndSoft(a, p, part, o) \in RunType
         /\ RunHonest(a, EndSoft(a, p, part, o))
         /\ EndSoft(a, p, part, o).at # "none"
<1> DEFINE s == Safe(p, part, o)
           q == EndSoft(a, p, part, o)
<1>1. part \in Reads /\ part # "ai" /\ p.wire[part] = "unsent"
  BY Stages DEF Pending, Reads, Soft
<1>2. Truthful(p) /\ p.status = 200 /\ p.wire["ai"] = "unsent" /\ p.age \in 0..Budget(a, "soft")
  BY DEF RunHonest, Staged, Active
<1>3. /\ s \in RunType /\ Truthful(s) /\ s.wire = [p.wire EXCEPT ![part] = o]
      /\ s.at = "soft" /\ s.age = p.age /\ s.status = 200
  BY <1>1, <1>2, SafeTruthful
<1>4. /\ s.wire["ai"] = "unsent"
      /\ \A h \in HardRead(a) : s.wire[h] = p.wire[h]
  <2>1. part \in Soft /\ HardRead(a) \subseteq Reads \ Soft
    BY Stages DEF Pending, Reads, Soft
  <2> QED
    BY <1>1, <1>2, <1>3, <2>1 DEF RunType, Reads
<1>5. CASE Pending(a, s) = {}
  <2>1. /\ q \in RunType /\ q.at = After(a, "soft") /\ q.age = 0 /\ q.status = 200
        /\ q.wire = s.wire /\ q.value = s.value /\ q.deg = s.deg
    <3>1. q = [s EXCEPT !.at = After(a, "soft"), !.age = 0]
      BY <1>3, <1>5 DEF EndSoft, Active
    <3>2. After(a, "soft") \in {"ai", "done"}
      BY Stages
    <3> HIDE DEF s, q
    <3> QED
      BY <1>3, <3>1, <3>2 DEF RunType
  <2>2. Truthful(q) /\ Pending(a, q) = {}
    <3>1. \A o2 : With(q, o2) = With(s, o2)
      BY <2>1 DEF With
    <3>2. Pending(a, q) = Pending(a, s)
      BY <2>1 DEF Pending
    <3> QED
      BY <1>3, <1>5, <2>1, <3>1, <3>2 DEF Truthful
  <2>3. Refusing(a, q)
    BY <1>2, <1>4, <2>1, RefusingKept DEF RunHonest
  <2>4. Staged(a, q)
    BY <1>4, <2>1, <2>2, Stages DEF Staged
  <2> QED
    BY <2>1, <2>2, <2>3, <2>4, Stages, Budgets DEF RunHonest
<1>6. CASE Pending(a, s) # {}
  <2>1. q = s
    BY <1>6 DEF EndSoft
  <2> QED
    <3>1. s.age \in 0..Budget(a, s.at)
      BY <1>2, <1>3
    <3>2. Staged(a, s)
      BY <1>3, <1>4 DEF Staged
    <3>3. Refusing(a, s)
      <4>1. Refusing(a, p)
        BY DEF RunHonest
      <4>2. p.status = 200 /\ s.status = 200
        BY <1>2, <1>3
      <4>3. \A h \in HardRead(a) : s.wire[h] = p.wire[h]
        BY <1>4
      <4> HIDE DEF s
      <4> QED
        BY ONLY <4>1, <4>2, <4>3 DEF Refusing, StatusOf, Failures
    <3> QED
      BY <1>3, <2>1, <3>1, <3>2, <3>3 DEF RunHonest
<1> QED
  BY <1>5, <1>6

LEMMA EndAiHonest ==
  ASSUME NEW a \in Asks, NEW p \in RunType, RunHonest(a, p), p.at = "ai",
         NEW o \in {"row", "norow"} \cup Failures
  PROVE  /\ EndAi(p, "ai", o) \in RunType
         /\ RunHonest(a, EndAi(p, "ai", o))
         /\ EndAi(p, "ai", o).at # "none"
<1> DEFINE s == Safe(p, "ai", o)
           q == EndAi(p, "ai", o)
<1>1. /\ Truthful(p) /\ p.status = 200 /\ p.wire["ai"] = "unsent"
      /\ Pending(a, p) = {} /\ p.age \in 0..Budget(a, "ai")
  BY DEF RunHonest, Staged, Active
<1>2. /\ s \in RunType /\ Truthful(s) /\ s.wire = [p.wire EXCEPT !["ai"] = o]
      /\ s.age = p.age /\ s.status = 200
  <2>1. "ai" \in Reads
    BY DEF Reads
  <2> QED
    BY <1>1, <2>1, SafeTruthful
<1>3. /\ q \in RunType /\ q.at = "done" /\ q.age = p.age /\ q.status = 200
      /\ q.wire = s.wire /\ q.value = s.value /\ q.deg = s.deg
  <2>1. q = [s EXCEPT !.at = "done"]
    BY DEF EndAi
  <2> HIDE DEF s, q
  <2> QED
    BY <1>2, <2>1 DEF RunType
<1>4. Truthful(q) /\ Pending(a, q) = {}
  <2>1. \A o2 : With(q, o2) = With(s, o2)
    BY <1>3 DEF With
  <2>2. "ai" \notin SoftReads(a)
    BY Stages DEF Soft
  <2>3. \A part \in SoftReads(a) : q.wire[part] = p.wire[part]
    BY <1>2, <1>3, <2>2, Stages DEF RunType, Soft, Reads
  <2> QED
    BY <1>1, <1>2, <1>3, <2>1, <2>3 DEF Truthful, Pending
<1>5. p.age \in 0..Budget(a, "done")
  BY <1>1, Budgets DEF RunType
<1>6. Refusing(a, q)
  <2>1. \A h \in HardRead(a) : q.wire[h] = p.wire[h]
    BY <1>2, <1>3, Stages DEF RunType, Reads
  <2> QED
    BY <1>1, <1>3, <2>1, RefusingKept DEF RunHonest
<1>7. Staged(a, q)
  BY <1>3, <1>4 DEF Staged, Active
<1> HIDE DEF q
<1>8. RunHonest(a, q)
  BY <1>3, <1>4, <1>5, <1>6, <1>7 DEF RunHonest
<1> QED
  BY <1>3, <1>8 DEF q

(* ReadEnds as a step of one run. *)
AfterRead(a, p, part, o) ==
  CASE p.at = "hard" -> EndHard(a, p, part, o)
    [] p.at = "soft" -> EndSoft(a, p, part, o)
    [] p.at = "ai"   -> EndAi(p, part, o)

LEMMA AfterReadHonest ==
  ASSUME NEW a \in Asks, NEW p \in RunType, RunHonest(a, p),
         NEW part \in Awaited(a, p), NEW o \in {"row", "norow"} \cup Failures
  PROVE  /\ Active(p)
         /\ AfterRead(a, p, part, o) \in RunType
         /\ RunHonest(a, AfterRead(a, p, part, o))
         /\ AfterRead(a, p, part, o).at # "none"
<1>1. CASE p.at = "hard"
  <2>1. part \in HardRead(a) /\ AfterRead(a, p, part, o) = EndHard(a, p, part, o)
    BY <1>1 DEF Awaited, AfterRead
  <2> QED
    BY <1>1, <2>1, EndHardHonest DEF Active
<1>2. CASE p.at = "soft"
  <2>1. part \in Pending(a, p) /\ AfterRead(a, p, part, o) = EndSoft(a, p, part, o)
    BY <1>2 DEF Awaited, AfterRead
  <2> QED
    BY <1>2, <2>1, EndSoftHonest DEF Active
<1>3. CASE p.at = "ai"
  <2>1. part = "ai" /\ AfterRead(a, p, part, o) = EndAi(p, part, o)
    BY <1>3 DEF Awaited, AfterRead
  <2> QED
    BY <1>3, <2>1, EndAiHonest DEF Active
<1>4. Active(p)
  BY DEF Awaited, Active
<1> QED
  BY <1>1, <1>2, <1>3, <1>4 DEF Active

LEMMA LostHonest ==
  ASSUME NEW a \in Asks, NEW p \in RunType, RunHonest(a, p), Active(p)
  PROVE  /\ [p EXCEPT !.at = "lost", !.status = 503] \in RunType
         /\ RunHonest(a, [p EXCEPT !.at = "lost", !.status = 503])
<1> DEFINE q == [p EXCEPT !.at = "lost", !.status = 503]
<1>1. /\ q \in RunType /\ q.at = "lost" /\ q.status = 503 /\ q.age = p.age
      /\ q.value = p.value /\ q.deg = p.deg /\ q.wire = p.wire
  <2>1. q \in RunType
    <3>1. [p EXCEPT !.at = "lost"] \in RunType
      BY DEF RunType
    <3>2. \A s \in RunType : [s EXCEPT !.status = 503] \in RunType
      BY DEF RunType
    <3>3. q = [[p EXCEPT !.at = "lost"] EXCEPT !.status = 503]
      BY DEF RunType
    <3> QED
      BY ONLY <3>1, <3>2, <3>3, ZenonT(60)
  <2>2. q.at = "lost" /\ q.status = 503 /\ q.age = p.age
    BY DEF RunType
  <2>3. q.value = p.value /\ q.deg = p.deg /\ q.wire = p.wire
    BY DEF RunType
  <2> QED
    BY <2>1, <2>2, <2>3
<1>2. \A o : With(q, o) = With(p, o)
  BY <1>1 DEF With
<1>3. q.age \in 0..Budget(a, "lost")
  <2>1. Budget(a, "lost") = Budget(a, "done")
    BY DEF Budget
  <2>2. /\ p.age \in 0..Budget(a, p.at)
        /\ Budget(a, p.at) \in Nat /\ Budget(a, "done") \in Nat
        /\ Budget(a, p.at) <= Budget(a, "done")
    BY Budgets DEF RunHonest
  <2> QED
    BY ONLY <1>1, <2>1, <2>2
<1> HIDE DEF q
<1>4. Refusing(a, q)
  <2>1. p.status = 200
    BY DEF RunHonest, Staged
  <2> QED
    BY <1>1, <2>1, RefusingKept DEF RunHonest
<1>5. RunHonest(a, q)
  BY <1>1, <1>2, <1>3, <1>4 DEF RunHonest, Truthful, Staged, Active
<1> QED
  BY <1>1, <1>5 DEF q

LEMMA AgedHonest ==
  ASSUME NEW a \in Asks, NEW p \in RunType, RunHonest(a, p), Active(p),
         p.age < Budget(a, p.at)
  PROVE  /\ [p EXCEPT !.age = @ + 1] \in RunType
         /\ RunHonest(a, [p EXCEPT !.age = @ + 1])
<1> DEFINE q == [p EXCEPT !.age = @ + 1]
<1>1. /\ q \in RunType /\ q.at = p.at /\ q.status = p.status /\ q.age = p.age + 1
      /\ q.value = p.value /\ q.deg = p.deg /\ q.wire = p.wire
  <2>1. p.age \in Nat /\ p.age + 1 \in Nat
    BY DEF RunType
  <2>2. q = [p EXCEPT !.age = p.age + 1]
    OBVIOUS
  <2> HIDE DEF q
  <2> QED
    BY <2>1, <2>2 DEF RunType
<1>2. \A o : With(q, o) = With(p, o)
  BY <1>1 DEF With
<1>3. q.age \in 0..Budget(a, q.at)
  BY <1>1, Budgets DEF RunHonest, RunType
<1>4. Pending(a, q) = Pending(a, p)
  BY <1>1 DEF Pending
<1> HIDE DEF q
<1>5. RunHonest(a, q)
  BY <1>1, <1>2, <1>3, <1>4 DEF RunHonest, Truthful, Staged, Refusing, Active
<1> QED
  BY <1>1, <1>5 DEF q

-----------------------------------------------------------------------------
(* What a client can be told *)

LEMMA ErrorFields ==
  ASSUME NEW s \in Nat
  PROVE  /\ Error(s) \in ReplyType /\ Error(s).status = s
         /\ Error(s).shown = {} /\ Error(s).named = {}
BY DEF Error, NoReply, ReplyType

LEMMA AnswerFields ==
  ASSUME NEW a, NEW p \in RunType, NEW parts \in SUBSET Reads
  PROVE  /\ Answer(a, p, parts) \in ReplyType /\ Answer(a, p, parts).status = 200
         /\ Answer(a, p, parts).shown = parts \cap p.value
         /\ Answer(a, p, parts).named = p.deg
<1>1. Masked(a) \subseteq Identifiers
  BY DEF Masked
<1>2. /\ p.value \in SUBSET Reads /\ p.deg \in SUBSET Reads
      /\ (p.value \ {"ai"}) \cup (p.value \cap {"ai"}) = p.value
  BY DEF RunType
<1>3. Answer(a, p, parts) =
        [status |-> 200, shown |-> parts \cap p.value, named |-> p.deg,
         masked |-> IF "core" \in parts THEN Masked(a) ELSE {}]
  BY <1>2 DEF Answer, Assembled, ShapeAi
<1> QED
  BY <1>1, <1>2, <1>3 DEF ReplyType

(* No answer shows more than the run has or hides what it names.           *)
LEMMA ShapeFields ==
  ASSUME NEW a \in Asks, a.kind \notin Sources, NEW p \in RunType, Truthful(p)
  PROVE  /\ Shape(a, p) \in ReplyType /\ Shape(a, p).status \in {200, 500}
         /\ Shape(a, p).shown \subseteq p.value
         /\ Shape(a, p).shown \cap Shape(a, p).named = {}
         /\ a.kind # "churn" => Shape(a, p).status = 200 /\ Shape(a, p).named = p.deg
         /\ a.kind = "360" => Shape(a, p).shown = ({"core", "ai"} \cup SoftReads(a)) \cap p.value
<1>1. p.value \cap p.deg = {}
  BY DEF Truthful, With, Failures
<1>2. CASE a.kind = "360"
  <2>1. Shape(a, p) = Answer(a, p, {"core", "ai"} \cup SoftReads(a))
    BY <1>2 DEF Shape, Shape360
  <2>2. {"core", "ai"} \cup SoftReads(a) \in SUBSET Reads
    BY Stages DEF Reads
  <2> QED
    BY <1>1, <1>2, <2>1, <2>2, AnswerFields
<1>3. CASE a.kind = "insights"
  <2>1. Shape(a, p) = Answer(a, p, {"churn", "ai"})
    BY <1>3 DEF Shape, ShapeInsights
  <2>2. {"churn", "ai"} \in SUBSET Reads
    BY DEF Reads, Soft
  <2> QED
    BY <1>1, <1>3, <2>1, <2>2, AnswerFields
<1>4. CASE a.kind = "churn"
  <2>1. Shape(a, p) = ShapeChurn(a, p)
    BY <1>4 DEF Shape
  <2>2. CASE "churn" \in p.value
    <3>1. Shape(a, p) = [Answer(a, p, {"churn"}) EXCEPT !.named = {}]
      BY <2>1, <2>2 DEF ShapeChurn
    <3> DEFINE w == Answer(a, p, {"churn"})
    <3>2. {"churn"} \in SUBSET Reads
      BY DEF Reads, Soft
    <3>3. w \in ReplyType /\ w.status = 200 /\ w.shown = {"churn"} \cap p.value
      BY <3>2, AnswerFields
    <3> HIDE DEF w
    <3>4. [w EXCEPT !.named = {}] \in ReplyType
      BY <3>3 DEF ReplyType
    <3>5. /\ [w EXCEPT !.named = {}].status = 200 /\ [w EXCEPT !.named = {}].named = {}
          /\ [w EXCEPT !.named = {}].shown = {"churn"} \cap p.value
      BY <3>3 DEF ReplyType
    <3>6. Shape(a, p) = [w EXCEPT !.named = {}]
      BY <3>1 DEF w
    <3> QED
      BY <1>4, <3>4, <3>5, <3>6
  <2>3. CASE "churn" \notin p.value
    BY <1>4, <2>1, <2>3, ErrorFields DEF ShapeChurn
  <2> QED
    BY <2>2, <2>3
<1>5. CASE a.kind = "lookup"
  <2>1. Shape(a, p) = [Answer(a, p, {"core"}) EXCEPT !.masked = @ \cap {"name"}]
    BY <1>5 DEF Shape, ShapeLookup
  <2> DEFINE w == Answer(a, p, {"core"})
  <2>2. {"core"} \in SUBSET Reads
    BY DEF Reads
  <2>3. /\ w \in ReplyType /\ w.status = 200 /\ w.shown = {"core"} \cap p.value
        /\ w.named = p.deg
    BY <2>2, AnswerFields
  <2> HIDE DEF w
  <2>4. w.masked \cap {"name"} \in SUBSET Identifiers
    BY <2>3 DEF ReplyType
  <2>5. [w EXCEPT !.masked = @ \cap {"name"}] \in ReplyType
    BY <2>3, <2>4 DEF ReplyType
  <2>6. /\ [w EXCEPT !.masked = @ \cap {"name"}].status = 200
        /\ [w EXCEPT !.masked = @ \cap {"name"}].shown = {"core"} \cap p.value
        /\ [w EXCEPT !.masked = @ \cap {"name"}].named = p.deg
    BY <2>3 DEF ReplyType
  <2>7. Shape(a, p) = [w EXCEPT !.masked = @ \cap {"name"}]
    BY <2>1 DEF w
  <2> QED
    BY <1>1, <1>5, <2>5, <2>6, <2>7
<1>6. CASE a.kind = "recentOrders"
  BY <1>1, <1>6, AnswerFields DEF Shape, ShapeRecentOrders, Reads, Soft
<1>7. CASE a.kind = "cohort"
  BY <1>1, <1>7, AnswerFields DEF Shape, ShapeCohort, Reads, Soft
<1> QED
  BY <1>2, <1>3, <1>4, <1>5, <1>6, <1>7, AskFields DEF Kinds

-----------------------------------------------------------------------------
(* The steps of the gateway *)

LEMMA InitInv == Init => Inv
<1> SUFFICES ASSUME Init PROVE Inv
  OBVIOUS
<1>1. 1 \in 1..Attempts /\ 0 \in 0..Attempts /\ 0 \in 0..Timeout
  BY Customer360Assumption
<1>2. NoRun \in RunType /\ NoReply \in ReplyType
  BY DEF NoRun, RunType, NoReply, ReplyType
<1>3. Types
  BY <1>1, <1>2 DEF Init, Types
<1>4. ASSUME NEW r \in Requests, NEW k \in 1..Attempts PROVE RunHonest(ask[r], run[r][k])
  BY NewRunHonest DEF Init
<1>5. ASSUME NEW r \in Requests PROVE ReplyFromRun(r) /\ Shown(r)
  BY DEF Init, ReplyFromRun, Shown, NoReply
<1> QED
  BY <1>3, <1>4, <1>5 DEF Inv

LEMMA ProgressInv ==
  ASSUME Inv, NEW r \in Requests, NEW k \in 1..Attempts, NEW q \in RunType,
         Active(run[r][k]), RunHonest(ask[r], q), q.at # "none", Progress(r, k, q)
  PROVE  Inv'
<1>1. /\ run' = [run EXCEPT ![r][k] = q]
      /\ UNCHANGED <<ask, try, waited, reply, rebuilding>>
  BY DEF Progress
<1>2. Types'
  BY <1>1 DEF Inv, Types
<1>3. \A s \in Requests, l \in 1..Attempts :
        run'[s][l] = IF s = r /\ l = k THEN q ELSE run[s][l]
  BY <1>1 DEF Inv, Types
<1>4. ASSUME NEW s \in Requests, NEW l \in 1..Attempts PROVE RunHonest(ask[s], run[s][l])'
  BY <1>1, <1>3 DEF Inv
<1>5. ASSUME NEW s \in Requests PROVE (ReplyFromRun(s) /\ Shown(s))'
  <2>1. ReplyFromRun(s) /\ Shown(s)
    BY DEF Inv
  <2>2. CASE s = r /\ try[r] = k
    <3>1. run'[s][try[s]] = q /\ run[s][try[s]].at # "done"
      BY <1>3, <2>2 DEF Active
    <3> QED
      BY <1>1, <2>1, <2>2, <3>1 DEF ReplyFromRun, Shown
  <2>3. CASE ~(s = r /\ try[r] = k)
    <3>1. try[s] \in 0..Attempts /\ Attempts \in Nat
      BY Customer360Assumption DEF Inv, Types
    <3>2. try[s] > 0 => try[s] \in 1..Attempts
      BY <3>1
    <3>3. try[s] > 0 => run'[s][try[s]] = run[s][try[s]]
      BY <1>3, <2>3, <3>2
    <3> QED
      BY <1>1, <2>1, <3>3 DEF ReplyFromRun, Shown
  <2> QED
    BY <2>2, <2>3
<1> QED
  BY <1>2, <1>4, <1>5 DEF Inv

LEMMA TellInv ==
  ASSUME Inv, NEW r \in Requests, NEW w \in ReplyType,
         w.shown \cap w.named = {},
         try[r] = 0 /\ ask[r].kind \notin Sources => w.status \in {0, 401, 403, 429, 503},
         try[r] > 0 =>
           LET p == run[r][try[r]] IN
           \/ w.status \in {503, 504} /\ w = Error(w.status)
           \/ /\ p.at = "done"
              /\ \/ p.status = 200 /\ w = Shape(ask[r], p)
                 \/ p.status \in {400, 401, 404, 429} /\ w = Error(Relayed(p.status)),
         Tell(r, w)
  PROVE  Inv'
<1>1. /\ reply' = [reply EXCEPT ![r] = w]
      /\ UNCHANGED <<ask, try, waited, run, rebuilding>>
  BY DEF Tell
<1>2. Types'
  BY <1>1 DEF Inv, Types
<1>3. \A s \in Requests : reply'[s] = IF s = r THEN w ELSE reply[s]
  BY <1>1 DEF Inv, Types
<1>4. ASSUME NEW s \in Requests, NEW l \in 1..Attempts PROVE RunHonest(ask[s], run[s][l])'
  BY <1>1 DEF Inv
<1>5. ASSUME NEW s \in Requests PROVE (ReplyFromRun(s) /\ Shown(s))'
  <2>1. ReplyFromRun(s) /\ Shown(s)
    BY DEF Inv
  <2> QED
    BY <1>1, <1>3, <2>1 DEF ReplyFromRun, Shown
<1> QED
  BY <1>2, <1>4, <1>5 DEF Inv

LEMMA CallInv ==
  ASSUME Inv, NEW r \in Requests, try[r] < Attempts, reply[r] = NoReply,
         ask[r].kind \notin Sources, Call(r)
  PROVE  Inv'
<1> DEFINE n == try[r] + 1
<1>1. /\ try' = [try EXCEPT ![r] = n]
      /\ waited' = [waited EXCEPT ![r] = 0]
      /\ UNCHANGED <<ask, reply, rebuilding>>
  BY DEF Call
<1>2. n \in 1..Attempts /\ n > 0 /\ ask[r] \in Asks /\ 0 \in 0..Timeout
  BY Customer360Assumption DEF Inv, Types
<1>3. PICK first \in RunType :
        /\ RunHonest(ask[r], first) /\ first.at # "none"
        /\ run' = [run EXCEPT ![r][n] = first]
  BY <1>2, NewRunHonest DEF Call
<1> HIDE DEF n
<1>4. Types'
  BY <1>1, <1>2, <1>3, Customer360Assumption DEF Inv, Types
<1>5. \A s \in Requests, l \in 1..Attempts :
        run'[s][l] = IF s = r /\ l = n THEN first ELSE run[s][l]
  BY <1>2, <1>3 DEF Inv, Types
<1>6. ASSUME NEW s \in Requests, NEW l \in 1..Attempts PROVE RunHonest(ask[s], run[s][l])'
  BY <1>1, <1>3, <1>5 DEF Inv
<1>7. ASSUME NEW s \in Requests PROVE (ReplyFromRun(s) /\ Shown(s))'
  <2>1. ReplyFromRun(s) /\ Shown(s)
    BY DEF Inv
  <2>2. CASE s = r
    <3>1. try'[r] = n /\ run'[r][n].at # "none" /\ reply'[r] = NoReply
      BY <1>1, <1>2, <1>3, <1>5 DEF Inv, Types
    <3> QED
      BY <1>1, <1>2, <2>1, <2>2, <3>1 DEF ReplyFromRun, Shown
  <2>3. CASE s # r
    <3>1. try'[s] = try[s] /\ (try[s] > 0 => try[s] \in 1..Attempts)
      BY <1>1, <2>3, Customer360Assumption DEF Inv, Types
    <3>2. try[s] > 0 => run'[s][try[s]] = run[s][try[s]]
      BY <1>5, <2>3, <3>1
    <3> QED
      BY <1>1, <2>1, <3>1, <3>2 DEF ReplyFromRun, Shown
  <2> QED
    BY <2>2, <2>3
<1> QED
  BY <1>4, <1>6, <1>7 DEF Inv

LEMMA AttemptFailsInv ==
  ASSUME Inv, NEW r \in Requests, Waiting(r), NEW s \in {503, 504}, AttemptFails(r, s)
  PROVE  Inv'
<1>1. try[r] > 0 /\ reply[r] = NoReply /\ ask[r].kind \notin Sources
  BY DEF Waiting, Inv, ReplyFromRun
<1>2. ASSUME NEW t \in {503, 504}, Tell(r, Error(t)) PROVE Inv'
  <2>1. /\ Error(t) \in ReplyType /\ Error(t).status = t
        /\ Error(t).shown = {} /\ Error(t).named = {}
    BY ErrorFields
  <2> QED
    BY <1>1, <1>2, <2>1, TellInv
<1>3. ASSUME try[r] < Attempts, Call(r) PROVE Inv'
  BY <1>1, <1>3, CallInv
<1> QED
  BY <1>2, <1>3 DEF AttemptFails, CallOrFailFast

LEMMA ArriveInv ==
  ASSUME Inv, NEW r \in Requests, Arrive(r)
  PROVE  Inv'
<1>1. try[r] = 0 /\ reply[r] = NoReply /\ ask[r].kind \notin Sources
  BY DEF Arrive
<1>2. ASSUME NEW t \in {401, 403, 503}, Tell(r, Error(t)) PROVE Inv'
  <2>1. /\ Error(t) \in ReplyType /\ Error(t).status = t
        /\ Error(t).shown = {} /\ Error(t).named = {}
    BY ErrorFields
  <2> QED
    BY <1>1, <1>2, <2>1, TellInv
<1>3. ASSUME Call(r) PROVE Inv'
  <2>1. try[r] < Attempts
    BY <1>1, Customer360Assumption
  <2> QED
    BY <1>1, <1>3, <2>1, CallInv
<1>4. Refused(ask[r]) \in {0, 401, 403}
  BY DEF Refused
<1> QED
  BY <1>2, <1>3, <1>4 DEF Arrive, CallOrFailFast

LEMMA EdgeLimitedInv ==
  ASSUME Inv, NEW r \in Requests, EdgeLimited(r)
  PROVE  Inv'
<1>1. try[r] = 0 /\ Tell(r, Error(429))
  BY DEF EdgeLimited
<1>2. /\ Error(429) \in ReplyType /\ Error(429).status = 429
      /\ Error(429).shown = {} /\ Error(429).named = {}
  BY ErrorFields
<1> QED
  BY <1>1, <1>2, TellInv

LEMMA ReceiveInv ==
  ASSUME Inv, NEW r \in Requests, Receive(r)
  PROVE  Inv'
<1> DEFINE p == run[r][try[r]]
<1>1. Waiting(r) /\ p.at \in {"done", "lost"}
  BY DEF Receive
<1>2. try[r] > 0 /\ reply[r] = NoReply /\ ask[r].kind \notin Sources
  BY <1>1 DEF Waiting, Inv, ReplyFromRun
<1>3. try[r] \in 1..Attempts /\ ask[r] \in Asks
  BY <1>2, Customer360Assumption DEF Inv, Types
<1>4. p \in RunType /\ RunHonest(ask[r], p)
  BY <1>3 DEF Inv, Types
<1>5. p.status \in {0, 200, 400, 401, 404, 429, 503, 504} /\ (p.at = "lost" => p.status = 503)
  BY <1>4 DEF RunHonest, Staged
<1>6. CASE p.status = 200
  <2>1. Tell(r, Shape(ask[r], p))
    BY <1>6 DEF Receive, Retried
  <2>2. p.at = "done" /\ Truthful(p)
    BY <1>1, <1>4, <1>5, <1>6 DEF RunHonest
  <2>3. /\ Shape(ask[r], p) \in ReplyType
        /\ Shape(ask[r], p).shown \cap Shape(ask[r], p).named = {}
    BY <1>2, <1>3, <1>4, <2>2, ShapeFields
  <2> HIDE DEF p
  <2> QED
    BY <1>2, <1>6, <2>1, <2>2, <2>3, TellInv DEF p
<1>7. CASE p.status \in {503, 504}
  <2>1. AttemptFails(r, Relayed(p.status))
    BY <1>7 DEF Receive, Retried
  <2>2. Relayed(p.status) = 503
    BY <1>7 DEF Relayed
  <2> QED
    BY <1>1, <2>1, <2>2, AttemptFailsInv
<1>8. CASE p.status \in {0, 400, 401, 404, 429}
  <2>1. Tell(r, Error(Relayed(p.status)))
    BY <1>8 DEF Receive, Retried
  <2>2. Relayed(p.status) \in Nat
    BY <1>8 DEF Relayed
  <2>3. /\ Error(Relayed(p.status)) \in ReplyType
        /\ Error(Relayed(p.status)).shown = {} /\ Error(Relayed(p.status)).named = {}
    BY <2>2, ErrorFields
  <2>4. p.at = "done"
    BY <1>1, <1>5, <1>8
  <2>5. p.status # 0
    BY <2>4, <1>4 DEF RunHonest, Staged, Active
  <2> QED
    BY <1>2, <1>8, <2>1, <2>3, <2>4, <2>5, TellInv
<1> QED
  BY <1>5, <1>6, <1>7, <1>8

LEMMA ReadInv ==
  ASSUME Inv, NEW r \in Requests, NEW k \in 1..Attempts, Read(r, k) \/ ReadTimesOut(r, k)
  PROVE  Inv'
<1>1. ask[r] \in Asks /\ run[r][k] \in RunType /\ RunHonest(ask[r], run[r][k])
  BY DEF Inv, Types
<1>2. PICK part \in Awaited(ask[r], run[r][k]), o \in {"row", "norow"} \cup Failures :
        ReadEnds(r, k, part, o)
  <2>1. CASE Read(r, k)
    <3>1. \A part : Outcomes(ask[r], run[r][k], part) \subseteq {"row", "norow"} \cup Failures
      BY DEF Outcomes, Found, Failures, AnyFailure
    <3> QED
      BY <2>1, <3>1 DEF Read
  <2>2. CASE ReadTimesOut(r, k)
    BY <2>2 DEF ReadTimesOut, Failures, AnyFailure
  <2> QED
    BY <2>1, <2>2
<1>3. Progress(r, k, AfterRead(ask[r], run[r][k], part, o))
  BY <1>2 DEF ReadEnds, AfterRead
<1> QED
  BY <1>1, <1>3, AfterReadHonest, ProgressInv

LEMMA RunLostInv ==
  ASSUME Inv, NEW r \in Requests, NEW k \in 1..Attempts, RunLost(r, k)
  PROVE  Inv'
<1> DEFINE q == [run[r][k] EXCEPT !.at = "lost", !.status = 503]
<1>1. ask[r] \in Asks /\ run[r][k] \in RunType /\ RunHonest(ask[r], run[r][k])
  BY DEF Inv, Types
<1>2. Active(run[r][k]) /\ Progress(r, k, q)
  BY DEF RunLost
<1>3. q \in RunType /\ RunHonest(ask[r], q)
  BY <1>1, <1>2, LostHonest, ZenonT(60)
<1>4. q.at # "none"
  BY <1>1 DEF RunType
<1> HIDE DEF q
<1> QED
  BY <1>2, <1>3, <1>4, ProgressInv

LEMMA SourceReadInv ==
  ASSUME Inv, NEW r \in Requests, SourceRead(r)
  PROVE  Inv'
<1>1. ask[r].kind \in Sources /\ try[r] = 0 /\ ask[r] \in Asks
  BY DEF SourceRead, Inv, ReplyFromRun, Types
<1>2. PICK w : /\ Tell(r, w) /\ w \in ReplyType /\ w.named = {}
  <2>1. CASE Refused(ask[r]) # 0
    <3>1. Refused(ask[r]) \in Nat
      BY DEF Refused
    <3> QED
      BY <2>1, <3>1, ErrorFields DEF SourceRead
  <2>2. CASE Refused(ask[r]) = 0
    <3>1. PICK o \in SourceOutcomes(ask[r]) : Tell(r, SourceAnswer(ask[r], o))
      BY <2>2 DEF SourceRead
    <3>2. o \in {"row", "norow", "unavailable", "timeout", "rejected"}
      <4>1. SourceRow(ask[r]) \in {"row", "norow"}
        BY <1>1 DEF SourceRow, Sources, CrmCustomer, OmsOrders, SupportCases, LoyaltyAccount
      <4> QED
        BY <1>1, <4>1, AskFields DEF SourceOutcomes
    <3>3. o = "row" => /\ SourceAnswer(ask[r], o) \in ReplyType
                       /\ SourceAnswer(ask[r], o).named = {}
      BY ZenonT(60) DEF SourceAnswer, Error, NoReply, ReplyType, Reads
    <3>4. o # "row" => \E s \in Nat : SourceAnswer(ask[r], o) = Error(s)
      BY <3>2 DEF SourceAnswer, StatusOf
    <3> QED
      BY <3>1, <3>3, <3>4, ErrorFields
  <2> QED
    BY <2>1, <2>2
<1> QED
  BY <1>1, <1>2, TellInv

LEMMA UnchangedInv ==
  ASSUME Inv, UNCHANGED <<ask, try, waited, run, reply>>, rebuilding' \in BOOLEAN
  PROVE  Inv'
<1>1. Types'
  BY DEF Inv, Types
<1>2. ASSUME NEW s \in Requests, NEW l \in 1..Attempts PROVE RunHonest(ask[s], run[s][l])'
  BY DEF Inv
<1>3. ASSUME NEW s \in Requests PROVE (ReplyFromRun(s) /\ Shown(s))'
  <2>1. ReplyFromRun(s) /\ Shown(s)
    BY DEF Inv
  <2> QED
    BY <2>1 DEF ReplyFromRun, Shown
<1> QED
  BY <1>1, <1>2, <1>3 DEF Inv

LEMMA TickInv ==
  ASSUME Inv, Tick
  PROVE  Inv'
<1> DEFINE aged(p) == IF Active(p) THEN [p EXCEPT !.age = @ + 1] ELSE p
<1>1. /\ UNCHANGED <<ask, try, reply, rebuilding>>
      /\ waited' = [r \in Requests |-> IF Waiting(r) THEN waited[r] + 1 ELSE waited[r]]
      /\ run' = [r \in Requests |-> [k \in 1..Attempts |-> aged(run[r][k])]]
  BY DEF Tick
<1>2. ASSUME NEW s \in Requests, NEW l \in 1..Attempts
      PROVE  /\ aged(run[s][l]) \in RunType /\ RunHonest(ask[s], aged(run[s][l]))
             /\ aged(run[s][l]).at = run[s][l].at
             /\ ~Active(run[s][l]) => aged(run[s][l]) = run[s][l]
  <2>1. ask[s] \in Asks /\ run[s][l] \in RunType /\ RunHonest(ask[s], run[s][l])
    BY DEF Inv, Types
  <2>2. CASE Active(run[s][l])
    <3>1. run[s][l].age < Budget(ask[s], run[s][l].at)
      BY <2>2 DEF Tick
    <3>2. aged(run[s][l]).at = run[s][l].at
      BY <2>1 DEF RunType
    <3> QED
      BY <2>1, <2>2, <3>1, <3>2, AgedHonest
  <2>3. CASE ~Active(run[s][l])
    BY <2>1, <2>3
  <2> QED
    BY <2>2, <2>3
<1> HIDE DEF aged
<1>3. Types'
  <2>1. waited' \in [Requests -> 0..Timeout]
    <3>1. ASSUME NEW s \in Requests
          PROVE  (IF Waiting(s) THEN waited[s] + 1 ELSE waited[s]) \in 0..Timeout
      BY Customer360Assumption DEF Inv, Types, Tick
    <3> QED
      BY <1>1, <3>1
  <2>2. run' \in [Requests -> [1..Attempts -> RunType]]
    BY <1>1, <1>2
  <2> QED
    BY <1>1, <2>1, <2>2 DEF Inv, Types
<1>4. \A s \in Requests, l \in 1..Attempts : run'[s][l] = aged(run[s][l])
  BY <1>1
<1>5. ASSUME NEW s \in Requests, NEW l \in 1..Attempts PROVE RunHonest(ask[s], run[s][l])'
  BY <1>1, <1>2, <1>4
<1>6. ASSUME NEW s \in Requests PROVE (ReplyFromRun(s) /\ Shown(s))'
  <2>1. ReplyFromRun(s) /\ Shown(s)
    BY DEF Inv
  <2>2. try[s] > 0 => try[s] \in 1..Attempts
    BY Customer360Assumption DEF Inv, Types
  <2>3. try[s] > 0 => /\ run'[s][try[s]].at = run[s][try[s]].at
                      /\ run[s][try[s]].at = "done" => run'[s][try[s]] = run[s][try[s]]
    BY <1>2, <1>4, <2>2 DEF Active
  <2> QED
    BY <1>1, <2>1, <2>3 DEF ReplyFromRun, Shown
<1> QED
  BY <1>3, <1>5, <1>6 DEF Inv

LEMMA NextInv == Inv /\ [Next]_vars => Inv'
<1> SUFFICES ASSUME Inv, [Next]_vars PROVE Inv'
  OBVIOUS
<1>1. ASSUME NEW r \in Requests, Serve(r) PROVE Inv'
  <2>1. CASE Arrive(r)
    BY <2>1, ArriveInv
  <2>2. CASE Receive(r)
    BY <2>2, ReceiveInv
  <2>3. CASE TimeOut(r)
    BY <2>3, AttemptFailsInv DEF TimeOut
  <2>4. CASE SourceRead(r)
    BY <2>4, SourceReadInv
  <2>5. CASE \E k \in 1..Attempts : ReadTimesOut(r, k)
    BY <2>5, ReadInv
  <2> QED
    BY <1>1, <2>1, <2>2, <2>3, <2>4, <2>5 DEF Serve
<1>7. ASSUME NEW r \in Requests, EdgeLimited(r) PROVE Inv'
  BY <1>7, EdgeLimitedInv
<1>2. ASSUME NEW r \in Requests, NEW k \in 1..Attempts, Read(r, k) PROVE Inv'
  BY <1>2, ReadInv
<1>3. ASSUME NEW r \in Requests, NEW k \in 1..Attempts, RunLost(r, k) PROVE Inv'
  BY <1>3, RunLostInv
<1>4. ASSUME EmptyCustomer360 \/ FillCustomer360 PROVE Inv'
  BY <1>4, UnchangedInv DEF EmptyCustomer360, FillCustomer360
<1>5. ASSUME Tick PROVE Inv'
  BY <1>5, TickInv
<1>6. ASSUME UNCHANGED vars PROVE Inv'
  <2>1. UNCHANGED <<ask, try, waited, run, reply>> /\ rebuilding' \in BOOLEAN
    BY <1>6 DEF vars, Inv, Types
  <2> QED
    BY <2>1, UnchangedInv
<1> QED
  BY <1>1, <1>2, <1>3, <1>4, <1>5, <1>6, <1>7 DEF Next

(* In every state the runs and replies of all requests are honest: Inv is   *)
(* the inductive invariant.                                                 *)
THEOREM Invariance == Spec => []Inv
BY InitInv, NextInv, PTL DEF Spec

-----------------------------------------------------------------------------
(* Attempts and waits stay within the limits of resilience.py and           *)
(* http_client.py, no read outlives its budget, and no part is both known   *)
(* and degraded.                                                            *)
THEOREM Typed == Spec => []TypeOK
<1>1. Inv => TypeOK
  <2> SUFFICES ASSUME Inv PROVE TypeOK
    OBVIOUS
  <2>1. ASSUME NEW r \in Requests, NEW k \in 1..Attempts
        PROVE  /\ run[r][k].at \in {"none", "hard", "soft", "ai", "done", "lost"}
               /\ run[r][k].age \in 0..Budget(ask[r], run[r][k].at)
               /\ run[r][k].value \cup run[r][k].deg \subseteq Reads
               /\ run[r][k].value \cap run[r][k].deg = {}
    <3>1. run[r][k] \in RunType /\ RunHonest(ask[r], run[r][k])
      BY DEF Inv, Types
    <3>2. run[r][k].value \cap run[r][k].deg = {}
      BY <3>1 DEF RunHonest, Truthful, With, Failures
    <3> QED
      BY <3>1, <3>2 DEF RunHonest, RunType
  <2> QED
    BY <2>1 DEF TypeOK, Inv, Types, Shown
<1> QED
  BY <1>1, Invariance, PTL

(* What a client is shown, told and not told of a part is what the part's   *)
(* read ended with in the very run that made the answer (process_layer.py   *)
(* _safe and customer_360, experience_layer.py), whatever was retried or    *)
(* abandoned beside it.                                                     *)
THEOREM ClientSeesTheTruth == Spec => []AnswerHonest
<1>1. Inv => AnswerHonest
  <2> SUFFICES ASSUME Inv, NEW r \in Requests, reply[r].status = 200,
                      ask[r].kind \notin Sources
               PROVE  LET wire == run[r][try[r]].wire IN
                      /\ \A part \in reply[r].shown : wire[part] = "row"
                      /\ ask[r].kind # "churn" =>
                           reply[r].named = {part \in Reads : wire[part] \in Failures}
                      /\ ask[r].kind = "360" =>
                           \A part \in SoftReads(ask[r]) \ (reply[r].shown \cup reply[r].named) :
                             wire[part] = "norow"
    BY DEF AnswerHonest
  <2> DEFINE p == run[r][try[r]]
             a == ask[r]
  <2>1. reply[r] # NoReply /\ ReplyFromRun(r)
    BY DEF NoReply, Inv
  <2>2. try[r] \in 1..Attempts /\ a \in Asks
    BY <2>1, Customer360Assumption DEF ReplyFromRun, Inv, Types
  <2>3. p \in RunType /\ RunHonest(a, p)
    <3>1. /\ run \in [Requests -> [1..Attempts -> RunType]]
          /\ \A q \in Requests, k \in 1..Attempts : RunHonest(ask[q], run[q][k])
      BY DEF Inv, Types
    <3> QED
      BY ONLY <2>2, <3>1, r \in Requests
  <2>4. p.at = "done" /\ p.status = 200 /\ reply[r] = Shape(a, p)
    <3>1. \A s \in {400, 401, 404, 429} : Error(Relayed(s)).status # 200
      BY DEF Relayed, Error, NoReply
    <3> QED
      BY <2>1, <2>2, <3>1 DEF ReplyFromRun
  <2>5. Truthful(p) /\ Pending(a, p) = {}
    BY <2>3, <2>4 DEF RunHonest, Staged
  <2>6. /\ reply[r].shown \subseteq p.value
        /\ a.kind # "churn" => reply[r].named = p.deg
        /\ a.kind = "360" => reply[r].shown = ({"core", "ai"} \cup SoftReads(a)) \cap p.value
    BY <2>2, <2>3, <2>4, <2>5, ShapeFields
  <2>7. p.value = With(p, {"row"}) /\ p.deg = With(p, Failures)
    BY <2>4, <2>5 DEF Truthful
  <2>8. \A part \in SoftReads(a) :
          /\ part \in Reads /\ p.wire[part] # "unsent"
          /\ p.wire[part] \in {"unsent", "row", "norow"} \cup Failures
    BY <2>2, <2>3, <2>5, Stages DEF Pending, RunType, Reads
  <2> HIDE DEF p, a
  <2>9. \A part \in reply[r].shown : p.wire[part] = "row"
    BY <2>6, <2>7 DEF With
  <2>10. a.kind # "churn" => reply[r].named = {part \in Reads : p.wire[part] \in Failures}
    BY <2>6, <2>7 DEF With
  <2>11. ASSUME a.kind = "360", NEW part \in SoftReads(a) \ (reply[r].shown \cup reply[r].named)
         PROVE  p.wire[part] = "norow"
    <3>1. part \notin With(p, {"row"}) /\ part \notin With(p, Failures)
      BY <2>6, <2>7, <2>11
    <3> QED
      BY <2>8, <3>1 DEF With
  <2> QED
    BY <2>9, <2>10, <2>11 DEF p, a
<1> QED
  BY <1>1, Invariance, PTL

(* What a client is told when an attempt fails is no refusal. *)
LEMMA FailureTells ==
  ASSUME Inv, NEW r \in Requests, reply[r] = NoReply, NEW s \in {503, 504},
         AttemptFails(r, s)
  PROVE  reply'[r].status \in {0, 503, 504}
<1>1. \A t \in {503, 504} : Error(t).status = t
  BY ErrorFields
<1>2. ASSUME NEW t \in {503, 504}, Tell(r, Error(t)) PROVE reply'[r].status = t
  BY <1>1, <1>2 DEF Tell, Inv, Types
<1>3. ASSUME Call(r) PROVE reply'[r].status = 0
  BY <1>3 DEF Call, NoReply
<1> QED
  BY <1>2, <1>3 DEF AttemptFails, CallOrFailFast

LEMMA TimeOutDecides ==
  ASSUME Inv, NEW r \in Requests, TimeOut(r)
  PROVE  Decided(r)
<1>1. reply[r] = NoReply /\ waited[r] = Timeout /\ Timeout \in Nat
  BY Customer360Assumption DEF TimeOut, Waiting
<1>2. reply'[r].status \in {0, 503, 504}
  BY <1>1, FailureTells DEF TimeOut
<1> QED
  BY <1>1, <1>2 DEF Decided

LEMMA ReceiveDecides ==
  ASSUME Inv, NEW r \in Requests, Receive(r), reply[r] = NoReply,
         try[r] \in 1..Attempts, ask[r] \in Asks, ask[r].kind \notin Sources
  PROVE  Decided(r)
<1> DEFINE p == run[r][try[r]]
<1>1. p \in RunType /\ RunHonest(ask[r], p)
  <2>1. /\ run \in [Requests -> [1..Attempts -> RunType]]
        /\ \A q \in Requests, k \in 1..Attempts : RunHonest(ask[q], run[q][k])
    BY DEF Inv, Types
  <2> QED
    BY ONLY <2>1, r \in Requests, try[r] \in 1..Attempts
<1>2. /\ p.at \in {"done", "lost"}
      /\ p.status \in {0, 200, 400, 401, 404, 429, 503, 504}
  BY <1>1 DEF Receive, RunHonest
<1>3. HardEnded(r, "norow") => p.status = 404
  <2>1. Refusing(ask[r], p)
    BY ONLY <1>1 DEF RunHonest
  <2> QED
    BY ONLY <2>1, StatusesAre, SMTT(30) DEF HardEnded, Refusing
<1>4. CASE p.status = 200
  <2>1. Tell(r, Shape(ask[r], p))
    BY <1>4 DEF Receive, Retried
  <2>2. Shape(ask[r], p).status \in {200, 500}
    BY <1>1, ShapeFields DEF RunHonest
  <2>3. reply'[r].status \in {200, 500}
    BY <2>1, <2>2 DEF Tell, Inv, Types
  <2> QED
    BY <1>3, <1>4, <2>3 DEF Decided
<1>5. CASE p.status \in {503, 504}
  <2>1. AttemptFails(r, 503)
    BY <1>5 DEF Receive, Retried, Relayed
  <2>2. reply'[r].status \in {0, 503, 504}
    BY <2>1, FailureTells
  <2> QED
    BY <1>3, <1>5, <2>2 DEF Decided
<1>6. CASE p.status \in {0, 400, 401, 404, 429}
  <2>1. Tell(r, Error(Relayed(p.status)))
    BY <1>6 DEF Receive, Retried
  <2>2. Relayed(p.status) \in Nat
    BY <1>6 DEF Relayed
  <2>3. reply'[r].status = Relayed(p.status)
    BY <2>1, <2>2, ErrorFields DEF Tell, Inv, Types
  <2>4. p.status # 0
    BY <1>1, <1>2 DEF RunHonest
  <2>5. CASE p.status = 429
    BY <1>1, <1>3, <2>3, <2>5, SMTT(30) DEF Decided, Relayed, RunHonest
  <2>6. CASE p.status \in {400, 401, 404}
    <3>0. Refusing(ask[r], p)
      BY ONLY <1>1 DEF RunHonest
    <3>1. PICK part \in HardRead(ask[r]) :
            /\ p.wire[part] \in {"norow"} \cup Failures
            /\ p.status = StatusOf[p.wire[part]]
      BY ONLY <2>6, <3>0 DEF Refusing
    <3>2. /\ p.status = 404 => p.wire[part] = "norow"
          /\ p.status = 401 => p.wire[part] = "unauthorized"
          /\ p.status = 400 => p.wire[part] = "rejected"
      BY ONLY <3>1, StatusesAre DEF Failures
    <3> HIDE DEF p
    <3>3. reply'[r].status = p.status
      BY <2>3, <2>6 DEF Relayed
    <3>4. \A o : p.wire[part] = o => HardEnded(r, o)
      BY <3>1 DEF HardEnded, p
    <3> QED
      BY ONLY <1>3, <2>6, <3>2, <3>3, <3>4 DEF Decided
  <2> QED
    BY <1>6, <2>4, <2>5, <2>6
<1> QED
  BY <1>2, <1>4, <1>5, <1>6

LEMMA OthersKeepReply ==
  ASSUME Inv, [Next]_vars, NEW r \in Requests, try[r] > 0, reply[r] = NoReply,
         ask[r].kind \notin Sources, ~Receive(r), ~TimeOut(r)
  PROVE  UNCHANGED <<try[r], reply[r]>>
<1>1. ASSUME NEW s \in Requests, s # r,
             Call(s) \/ \E w : Tell(s, w)
      PROVE  UNCHANGED <<try[r], reply[r]>>
  BY <1>1 DEF Call, Tell, Inv, Types
<1>2. ASSUME NEW s \in Requests, NEW k, NEW q, Progress(s, k, q)
      PROVE  UNCHANGED <<try[r], reply[r]>>
  BY <1>2 DEF Progress
<1>3. ASSUME NEW s \in Requests, Arrive(s) \/ EdgeLimited(s) \/ SourceRead(s)
      PROVE  UNCHANGED <<try[r], reply[r]>>
  <2>1. s # r
    BY <1>3 DEF Arrive, EdgeLimited, SourceRead
  <2>2. Call(s) \/ \E w : Tell(s, w)
    BY <1>3 DEF Arrive, EdgeLimited, SourceRead, CallOrFailFast
  <2> QED
    BY <1>1, <2>1, <2>2
<1>4. ASSUME NEW s \in Requests, Receive(s) \/ TimeOut(s)
      PROVE  UNCHANGED <<try[r], reply[r]>>
  <2>1. s # r
    BY <1>4
  <2>2. Call(s) \/ \E w : Tell(s, w)
    BY <1>4 DEF Receive, TimeOut, AttemptFails, CallOrFailFast
  <2> QED
    BY <1>1, <2>1, <2>2
<1>5. ASSUME NEW s \in Requests, NEW k \in 1..Attempts,
             Read(s, k) \/ ReadTimesOut(s, k) \/ RunLost(s, k)
      PROVE  UNCHANGED <<try[r], reply[r]>>
  <2>1. \E q : Progress(s, k, q)
    BY <1>5 DEF Read, ReadTimesOut, RunLost, ReadEnds
  <2> QED
    BY <1>2, <2>1
<1>6. ASSUME EmptyCustomer360 \/ FillCustomer360 \/ Tick \/ UNCHANGED vars
      PROVE  UNCHANGED <<try[r], reply[r]>>
  BY <1>6 DEF EmptyCustomer360, FillCustomer360, Tick, vars
<1> QED
  BY <1>3, <1>4, <1>5, <1>6 DEF Next, Serve

(* A client learns that a customer does not exist, or that its call was     *)
(* wrong, only from the hard read of the run that answers it, or from the   *)
(* limiter of the process layer before that run read anything; and an       *)
(* answer in time about an absent customer is never a failure.              *)
THEOREM RefusalsAreExplained == Spec => HardReadDecides
<1>1. ASSUME Inv, [Next]_vars, NEW r \in Requests, try[r] > 0, reply[r] = NoReply
      PROVE  Decided(r)
  <2> DEFINE p == run[r][try[r]]
             a == ask[r]
  <2>1. try[r] \in 1..Attempts /\ a \in Asks /\ a.kind \notin Sources
    BY <1>1, Customer360Assumption DEF Inv, Types, ReplyFromRun
  <2>2. p \in RunType /\ RunHonest(a, p)
    <3>1. /\ run \in [Requests -> [1..Attempts -> RunType]]
          /\ \A q \in Requests, k \in 1..Attempts : RunHonest(ask[q], run[q][k])
      BY <1>1 DEF Inv, Types
    <3> QED
      BY ONLY <2>1, <3>1, <1>1
  <2>3. HardEnded(r, "norow") => p.status = 404 /\ p.at = "done"
    <3>1. HardEnded(r, "norow") => p.status = 404
      <4>1. Refusing(a, p)
        BY ONLY <2>2 DEF RunHonest
      <4> QED
        BY ONLY <4>1, StatusesAre, SMTT(30) DEF HardEnded, Refusing
    <3> QED
      BY <2>2, <3>1 DEF RunHonest, Staged, Active, RunType
  <2>4. CASE Receive(r)
    BY <1>1, <2>1, <2>2, <2>3, <2>4, ReceiveDecides
  <2>5. CASE TimeOut(r)
    BY <1>1, <2>5, TimeOutDecides
  <2>6. CASE ~Receive(r) /\ ~TimeOut(r)
    <3>1. UNCHANGED <<try[r], reply[r]>>
      BY <1>1, <2>1, <2>6, OthersKeepReply
    <3>2. NoReply.status = 0
      BY DEF NoReply
    <3> QED
      BY <1>1, <3>1, <3>2 DEF Decided
  <2> QED
    BY <2>4, <2>5, <2>6
<1>2. Inv /\ [Next]_vars =>
        [\A r \in Requests : try[r] > 0 /\ reply[r] = NoReply => Decided(r)]_vars
  BY <1>1
<1> QED
  BY <1>2, Invariance, PTL DEF Spec, HardReadDecides
=============================================================================
