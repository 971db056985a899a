--------------------------- MODULE AiBulkhead_proofs ---------------------------
(***************************************************************************)
(* Proofs about AiBulkhead for every finite set of requests, every limit,  *)
(* every number of attempts, every TTL and any number of restarts.         *)
(*                                                                         *)
(* Three of the properties are not inductive by themselves.  Inv adds      *)
(*   - Progress: how far each request is, against what it has sent and     *)
(*     what the handlers of its attempts have started and have left;       *)
(*   - StoreCovers: an answer that is still owed to a repeated key is not  *)
(*     only remembered by the history variables but held by the store,     *)
(*     possibly as a later answer to the same key.                         *)
(***************************************************************************)
EXTENDS AiBulkhead, SequenceTheorems, FiniteSetTheorems, TLAPS

Progress ==
  \A r \in Requests :
    /\ made[r] <= AttemptLimit(r)
    /\ pc[r] \in {"new", "waiting", "holding", "replayed"} => made[r] = 0
    /\ pc[r] \in {"calling", "backoff"} => made[r] >= 1
    /\ pc[r] = "backoff" => made[r] < AttemptLimit(r)
    /\ \A n \in Attempts :
         /\ started[r][n] + left[r][n] > 0 => n <= made[r]
         /\ started[r][n] + left[r][n] <= Asked[r]

StoreCovers ==
  /\ \A k \in Keys : store[k] # NoAnswer =>
       store[k] \in remembered /\ Keyed(store[k]) /\ KeyOf[store[k]] = k
  /\ \A s \in remembered :
       /\ Keyed(s)
       /\ age[s] <= TTL =>
            store[KeyOf[s]] # NoAnswer /\ age[store[KeyOf[s]]] <= age[s]

(* A step that starts no generation and hands no handler more work. *)
ServiceSettles ==
  /\ handler' \in [Requests -> [Attempts -> {"none", "over"} \cup Busy]]
  /\ left' \in [Requests -> [Attempts -> Nat]]
  /\ \A q \in Requests : \A n \in Attempts : left'[q][n] <= left[q][n]
  /\ UNCHANGED started

Inv ==
  /\ TypeOK
  /\ PermitsConserved
  /\ Progress
  /\ StoreCovers
  /\ SettledNotSent

-----------------------------------------------------------------------------
(* Helpers *)

(* The holders are finitely many. *)
LEMMA HoldersFinite ==
  /\ IsFiniteSet(Holders)
  /\ Cardinality(Holders) \in Nat
<1>1. Holders \in SUBSET Requests
  BY DEF Holders
<1>. QED
  BY <1>1, AiBulkheadAssumption, FS_Subset, FS_CardinalityType

(* No request is allowed more attempts than the default, nor none. *)
LEMMA AttemptLimitRange ==
  ASSUME NEW r \in Requests
  PROVE  AttemptLimit(r) \in 1..DefaultAttempts
BY AiBulkheadAssumption DEF AttemptLimit

(* What a request does before it has a permit, or after it has lost it,    *)
(* and what it does with one, keeps the permits as they are.               *)
LEMMA SameSide ==
  ASSUME TypeOK, PermitsConserved,
         NEW r \in Requests, NEW v,
         \/ pc[r] \in Holding /\ v \in Holding
         \/ pc[r] = "new" /\ v \in Finished,
         pc' = [pc EXCEPT ![r] = v],
         UNCHANGED bulkheadVars
  PROVE  PermitsConserved'
<1>1. Holders' = Holders
  BY DEF TypeOK, Holders, Holding, Finished
<1>2. \A q \in Requests : pc'[q] = "waiting" <=> pc[q] = "waiting"
  BY DEF TypeOK, Holding, Finished
<1>. QED
  BY <1>1, <1>2 DEF PermitsConserved, bulkheadVars

(* Entering the bulkhead takes a permit or the last place in the queue. *)
LEMMA AcquireConserves ==
  ASSUME TypeOK, PermitsConserved,
         NEW r \in Requests, pc[r] = "new", Acquire(r)
  PROVE  /\ PermitsConserved'
         /\ permits' \in 0..BulkheadLimit
         /\ waiters' \in Seq(Requests)
         /\ pc' \in [Requests -> {"new", "waiting"} \cup Holding \cup Finished]
<1>1. CASE /\ permits > 0 /\ waiters = <<>>
           /\ permits' = permits - 1
           /\ pc' = [pc EXCEPT ![r] = "holding"]
           /\ UNCHANGED waiters
  <2>1. Holders' = Holders \cup {r} /\ r \notin Holders
    BY <1>1 DEF TypeOK, Holders, Holding
  <2>2. Cardinality(Holders') = Cardinality(Holders) + 1
    BY <2>1, HoldersFinite, FS_AddElement
  <2>3. permits' + Cardinality(Holders') = BulkheadLimit
    BY <1>1, <2>2, HoldersFinite, AiBulkheadAssumption DEF TypeOK, PermitsConserved
  <2>4. \A q \in Requests : pc'[q] = "waiting" <=> pc[q] = "waiting"
    BY <1>1 DEF TypeOK
  <2>5. PermitsConserved'
    BY <1>1, <2>3, <2>4 DEF PermitsConserved
  <2>. QED
    BY <1>1, <2>5, AiBulkheadAssumption DEF TypeOK, Holding
<1>2. CASE /\ permits = 0 \/ waiters # <<>>
           /\ waiters' = Append(waiters, r)
           /\ pc' = [pc EXCEPT ![r] = "waiting"]
           /\ UNCHANGED permits
  <2>1. Holders' = Holders
    BY <1>2 DEF TypeOK, Holders, Holding
  <2>2. permits = 0
    BY <1>2 DEF PermitsConserved
  <2>3. /\ waiters' \in Seq(Requests)
        /\ Len(waiters') = Len(waiters) + 1
        /\ DOMAIN waiters' = 1..(Len(waiters) + 1)
        /\ DOMAIN waiters = 1..Len(waiters)
        /\ Len(waiters) \in Nat
        /\ \A i \in 1..Len(waiters) : waiters'[i] = waiters[i]
        /\ waiters'[Len(waiters) + 1] = r
    BY <1>2 DEF TypeOK
  <2>4. \A i \in DOMAIN waiters : waiters[i] # r
    BY DEF PermitsConserved
  <2>5. \A i, j \in DOMAIN waiters' : waiters'[i] = waiters'[j] => i = j
    BY <2>3, <2>4 DEF PermitsConserved
  <2>6. ASSUME NEW q \in Requests
        PROVE  pc'[q] = "waiting" <=> \E i \in DOMAIN waiters' : waiters'[i] = q
    <3>1. CASE q = r
      <4>1. pc'[q] = "waiting"
        BY <1>2, <3>1 DEF TypeOK
      <4>2. Len(waiters) + 1 \in DOMAIN waiters' /\ waiters'[Len(waiters) + 1] = q
        BY <2>3, <3>1
      <4>. QED
        BY <4>1, <4>2
    <3>2. CASE q # r
      <4>1. pc'[q] = pc[q]
        BY <1>2, <3>2 DEF TypeOK
      <4>2. (\E i \in DOMAIN waiters' : waiters'[i] = q) <=> (\E i \in DOMAIN waiters : waiters[i] = q)
        BY <2>3, <3>2
      <4>. QED
        BY <4>1, <4>2 DEF PermitsConserved
    <3>. QED
      BY <3>1, <3>2
  <2>7. PermitsConserved'
    BY <1>2, <2>1, <2>2, <2>5, <2>6 DEF PermitsConserved
  <2>. QED
    BY <1>2, <2>3, <2>7 DEF TypeOK, Holding
<1>. QED
  BY <1>1, <1>2 DEF Acquire

(* Leaving the bulkhead hands the permit over or back. *)
LEMMA ReleaseConserves ==
  ASSUME TypeOK, PermitsConserved,
         NEW r \in Requests, pc[r] \in Holding,
         NEW end \in Finished, Release(r, end)
  PROVE  /\ PermitsConserved'
         /\ permits' \in 0..BulkheadLimit
         /\ waiters' \in Seq(Requests)
         /\ pc' \in [Requests -> {"new", "waiting"} \cup Holding \cup Finished]
         /\ pc'[r] = end
         /\ \A q \in Requests \ {r} :
              pc'[q] = pc[q] \/ (pc[q] = "waiting" /\ pc'[q] = "holding")
<1>0. end \notin Holding /\ end # "waiting" /\ r \in Holders
  BY DEF Finished, Holding, Holders
<1>1. CASE /\ waiters = <<>>
           /\ permits' = permits + 1
           /\ pc' = [pc EXCEPT ![r] = end]
           /\ UNCHANGED waiters
  <2>1. Holders' = Holders \ {r}
    BY <1>0, <1>1 DEF TypeOK, Holders
  <2>2. Cardinality(Holders') = Cardinality(Holders) - 1
    BY <1>0, <2>1, HoldersFinite, FS_RemoveElement
  <2>3. Cardinality(Holders') \in Nat
    BY <2>1, HoldersFinite, FS_Subset, FS_CardinalityType
  <2>4. /\ permits' + Cardinality(Holders') = BulkheadLimit
        /\ permits' \in 0..BulkheadLimit
    BY <1>1, <2>2, <2>3, HoldersFinite, AiBulkheadAssumption DEF TypeOK, PermitsConserved
  <2>5. \A q \in Requests : pc'[q] = "waiting" <=> pc[q] = "waiting"
    BY <1>0, <1>1 DEF TypeOK, Holding
  <2>6. PermitsConserved'
    BY <1>1, <2>4, <2>5 DEF PermitsConserved
  <2>. QED
    BY <1>1, <2>4, <2>6 DEF TypeOK
<1>2. CASE /\ waiters # <<>>
           /\ waiters' = Tail(waiters)
           /\ pc' = [pc EXCEPT ![r] = end, ![Head(waiters)] = "holding"]
           /\ UNCHANGED permits
  <2> DEFINE h == Head(waiters)
  <2>1. /\ waiters' \in Seq(Requests)
        /\ Len(waiters) \in Nat \ {0}
        /\ h \in Requests /\ h = waiters[1]
        /\ DOMAIN waiters = 1..Len(waiters)
        /\ DOMAIN waiters' = 1..(Len(waiters) - 1)
        /\ \A i \in 1..(Len(waiters) - 1) : waiters'[i] = waiters[i + 1]
    BY <1>2 DEF TypeOK
  <2>2. pc[h] = "waiting" /\ h # r /\ h \notin Holders
    <3>1. 1 \in DOMAIN waiters
      BY <2>1
    <3>. QED
      BY <2>1, <3>1 DEF PermitsConserved, Holding, Holders
  <2>3. /\ pc'[r] = end /\ pc'[h] = "holding"
        /\ \A q \in Requests \ {r, h} : pc'[q] = pc[q]
    BY <1>2, <2>1, <2>2 DEF TypeOK
  <2>4. Holders' = (Holders \ {r}) \cup {h}
    BY <1>0, <2>1, <2>2, <2>3 DEF Holders, Holding
  <2>5. Cardinality(Holders') = Cardinality(Holders)
    <3>1. Cardinality(Holders \ {r}) = Cardinality(Holders) - 1 /\ IsFiniteSet(Holders \ {r})
      BY <1>0, HoldersFinite, FS_RemoveElement
    <3>2. h \notin Holders \ {r}
      BY <2>2
    <3>3. Cardinality((Holders \ {r}) \cup {h}) = Cardinality(Holders \ {r}) + 1
      BY <3>1, <3>2, FS_AddElement
    <3>. HIDE DEF h
    <3>. QED
      BY <2>4, <3>1, <3>3, HoldersFinite
  <2>6. ASSUME NEW i \in DOMAIN waiters', NEW j \in DOMAIN waiters', waiters'[i] = waiters'[j]
        PROVE  i = j
    <3>1. i + 1 \in DOMAIN waiters /\ j + 1 \in DOMAIN waiters
      BY <2>1
    <3>2. waiters[i + 1] = waiters[j + 1]
      BY <2>1, <2>6
    <3>3. i + 1 = j + 1
      BY <3>1, <3>2 DEF PermitsConserved
    <3>. QED
      BY <2>1, <3>3
  <2>7. ASSUME NEW q \in Requests
        PROVE  pc'[q] = "waiting" <=> \E i \in DOMAIN waiters' : waiters'[i] = q
    <3>1. (\E i \in DOMAIN waiters' : waiters'[i] = q) <=> (\E i \in 2..Len(waiters) : waiters[i] = q)
      <4>1. ASSUME NEW i \in 2..Len(waiters)
            PROVE  i - 1 \in DOMAIN waiters' /\ waiters'[i - 1] = waiters[i]
        BY <2>1
      <4>2. ASSUME NEW i \in DOMAIN waiters'
            PROVE  i + 1 \in 2..Len(waiters) /\ waiters'[i] = waiters[i + 1]
        BY <2>1
      <4>. QED
        BY <4>1, <4>2
    <3>2. CASE q = h
      <4>1. \A i \in 2..Len(waiters) : waiters[i] # h
        BY <2>1, SMTT(30) DEF PermitsConserved
      <4>2. pc'[q] # "waiting"
        BY <2>3, <3>2
      <4>. QED
        BY <3>1, <3>2, <4>1, <4>2
    <3>3. CASE q = r
      <4>1. pc[r] # "waiting"
        BY DEF Holding
      <4>2. \A i \in 2..Len(waiters) : waiters[i] # r
        BY <2>1, <4>1 DEF PermitsConserved
      <4>3. pc'[q] # "waiting"
        BY <1>0, <2>3, <3>3
      <4>. QED
        BY <3>1, <3>3, <4>2, <4>3
    <3>4. CASE q # h /\ q # r
      <4>1. pc'[q] = pc[q]
        BY <2>3, <3>4
      <4>2. (\E i \in DOMAIN waiters : waiters[i] = q) <=> (\E i \in 2..Len(waiters) : waiters[i] = q)
        BY <2>1, <3>4
      <4>. QED
        BY <3>1, <4>1, <4>2 DEF PermitsConserved
    <3>. QED
      BY <3>2, <3>3, <3>4
  <2>8. permits' = 0
    BY <1>2 DEF PermitsConserved
  <2>9. PermitsConserved'
    BY <1>2, <2>5, <2>6, <2>7, <2>8 DEF PermitsConserved
  <2>. QED
    BY <1>2, <2>1, <2>2, <2>3, <2>9 DEF TypeOK, Holding
<1>. QED
  BY <1>1, <1>2 DEF Release

(* Nothing that only ends a request, without a new attempt, disturbs what  *)
(* the requests have sent, nor a replayed request.                         *)
LEMMA ReleaseProgress ==
  ASSUME TypeOK, PermitsConserved, Progress, SettledNotSent,
         NEW r \in Requests, pc[r] \in Holding,
         NEW end \in Finished, end # "replayed", Release(r, end),
         UNCHANGED <<made, settled>>,
         ServiceSettles
  PROVE  Progress' /\ SettledNotSent'
<1>1. /\ pc'[r] = end
      /\ \A q \in Requests \ {r} :
           pc'[q] = pc[q] \/ (pc[q] = "waiting" /\ pc'[q] = "holding")
  BY ReleaseConserves
<1>2. end \notin {"new", "waiting", "holding", "replayed", "calling", "backoff"}
  BY DEF Finished
<1>3. Progress'
  <2> SUFFICES ASSUME NEW q \in Requests
               PROVE  /\ made[q] <= AttemptLimit(q)
                      /\ pc'[q] \in {"new", "waiting", "holding", "replayed"} => made[q] = 0
                      /\ pc'[q] \in {"calling", "backoff"} => made[q] >= 1
                      /\ pc'[q] = "backoff" => made[q] < AttemptLimit(q)
                      /\ \A n \in Attempts :
                           /\ started[q][n] + left'[q][n] > 0 => n <= made[q]
                           /\ started[q][n] + left'[q][n] <= Asked[q]
    BY DEF Progress, AttemptLimit, ServiceSettles
  <2>0. \A n \in Attempts :
          /\ started[q][n] + left'[q][n] > 0 => n <= made[q]
          /\ started[q][n] + left'[q][n] <= Asked[q]
    <3> TAKE n \in Attempts
    <3>1. /\ started[q][n] \in Nat /\ left[q][n] \in Nat /\ left'[q][n] \in Nat /\ Asked[q] \in Nat
          /\ left'[q][n] <= left[q][n]
      BY AiBulkheadAssumption DEF TypeOK, ServiceSettles
    <3>. QED
      BY <3>1 DEF Progress
  <2>1. CASE q = r
    BY <1>1, <1>2, <2>0, <2>1 DEF Progress
  <2>2. CASE q # r
    BY <1>1, <2>0, <2>2 DEF Progress
  <2>. QED
    BY <2>1, <2>2
<1>4. SettledNotSent'
  <2>1. r \notin settled
    BY DEF SettledNotSent, Holding
  <2>. QED
    BY <1>1, <2>1 DEF SettledNotSent, TypeOK
<1>. QED
  BY <1>3, <1>4

(* Looking a key up loses no answer that is still owed. *)
LEMMA UnexpiredCovers ==
  ASSUME TypeOK, StoreCovers, store' = Unexpired, UNCHANGED <<age, remembered>>
  PROVE  StoreCovers' /\ store' \in [Keys -> Requests \cup {NoAnswer}]
<1>1. \A k \in Keys :
        /\ Unexpired[k] \in {store[k], NoAnswer}
        /\ Unexpired[k] = NoAnswer => store[k] = NoAnswer \/ age[store[k]] > TTL
  BY DEF Unexpired
<1>2. \A k \in Keys : store'[k] # NoAnswer =>
        store'[k] \in remembered' /\ Keyed(store'[k]) /\ KeyOf[store'[k]] = k
  BY <1>1 DEF StoreCovers
<1>3. ASSUME NEW s \in remembered
      PROVE  /\ Keyed(s)
             /\ age[s] <= TTL =>
                  store'[KeyOf[s]] # NoAnswer /\ age[store'[KeyOf[s]]] <= age[s]
  <2>1. Keyed(s) /\ KeyOf[s] \in Keys
    BY DEF StoreCovers, Keyed
  <2>2. ASSUME age[s] <= TTL
        PROVE  store'[KeyOf[s]] # NoAnswer /\ age[store'[KeyOf[s]]] <= age[s]
    <3>1. store[KeyOf[s]] # NoAnswer /\ age[store[KeyOf[s]]] <= age[s]
      BY <2>2 DEF StoreCovers
    <3>2. age[s] \in Nat /\ age[store[KeyOf[s]]] \in Nat /\ TTL \in Nat
      BY <2>1, <3>1, AiBulkheadAssumption DEF TypeOK
    <3>3. ~(age[store[KeyOf[s]]] > TTL)
      BY <2>2, <3>1, <3>2
    <3>4. store'[KeyOf[s]] = store[KeyOf[s]]
      BY <1>1, <2>1, <3>1, <3>3
    <3>. QED
      BY <3>1, <3>4
  <2>. QED
    BY <2>1, <2>2
<1>4. StoreCovers'
  BY <1>2, <1>3 DEF StoreCovers, Keyed
<1>. QED
  BY <1>1, <1>4 DEF TypeOK, Unexpired

(* A step that leaves the AI service alone, or ends one of its handlers,   *)
(* starts nothing.                                                         *)
LEMMA QuietSettles ==
  ASSUME TypeOK, UNCHANGED serviceVars
  PROVE  ServiceSettles
BY DEF TypeOK, ServiceSettles, serviceVars

LEMMA EndingSettles ==
  ASSUME TypeOK, NEW r \in Requests, NEW n \in Attempts, HandlerEnds(r, n)
  PROVE  ServiceSettles
<1>1. handler' = [handler EXCEPT ![r][n] = "over"] /\ left' = [left EXCEPT ![r][n] = 0]
  BY DEF HandlerEnds
<1>2. handler' \in [Requests -> [Attempts -> {"none", "over"} \cup Busy]]
  BY <1>1 DEF TypeOK
<1>3. /\ left' \in [Requests -> [Attempts -> Nat]]
      /\ \A q \in Requests : \A m \in Attempts :
           left[q][m] \in Nat /\ (left'[q][m] = left[q][m] \/ left'[q][m] = 0)
  BY <1>1 DEF TypeOK
<1>. QED
  BY <1>2, <1>3 DEF ServiceSettles, HandlerEnds

(* What was bounded stays bounded. *)
LEMMA SettlesBounds ==
  ASSUME TypeOK, Progress, ServiceSettles, UNCHANGED made
  PROVE  \A q \in Requests : \A n \in Attempts :
           /\ started'[q][n] + left'[q][n] > 0 => n <= made'[q]
           /\ started'[q][n] + left'[q][n] <= Asked[q]
<1> TAKE q \in Requests
<1> TAKE n \in Attempts
<1>1. /\ started[q][n] \in Nat /\ left[q][n] \in Nat /\ left'[q][n] \in Nat /\ Asked[q] \in Nat
      /\ left'[q][n] <= left[q][n]
      /\ started'[q][n] = started[q][n] /\ made'[q] = made[q]
  BY AiBulkheadAssumption DEF TypeOK, ServiceSettles
<1>2. (started[q][n] + left[q][n] > 0 => n <= made[q]) /\ started[q][n] + left[q][n] <= Asked[q]
  BY DEF Progress
<1>. QED
  BY <1>1, <1>2

(* Leaving the bulkhead without an answer keeps the whole invariant. *)
LEMMA ReleaseInv ==
  ASSUME Inv,
         NEW r \in Requests, pc[r] \in Holding,
         NEW end \in Finished, end # "replayed", Release(r, end),
         ServiceSettles,
         UNCHANGED <<store, age, made, reply, restarts, remembered, settled>>
  PROVE  Inv'
<1>0. TypeOK /\ PermitsConserved /\ Progress /\ StoreCovers /\ SettledNotSent
  BY DEF Inv
<1>1. /\ PermitsConserved'
      /\ permits' \in 0..BulkheadLimit
      /\ waiters' \in Seq(Requests)
      /\ pc' \in [Requests -> {"new", "waiting"} \cup Holding \cup Finished]
  BY <1>0, ReleaseConserves
<1>2. Progress' /\ SettledNotSent'
  BY <1>0, ReleaseProgress
<1>3. TypeOK'
  BY <1>0, <1>1 DEF TypeOK, ServiceSettles
<1>4. StoreCovers'
  BY <1>0 DEF StoreCovers, Keyed
<1>. QED
  BY <1>1, <1>2, <1>3, <1>4 DEF Inv

(* So does a step of the AI service that nobody waits for. *)
LEMMA UnreadInv ==
  ASSUME Inv, ServiceSettles,
         UNCHANGED <<pc, permits, waiters, store, age, made, reply, restarts, remembered, settled>>
  PROVE  Inv'
<1>0. TypeOK /\ PermitsConserved /\ Progress /\ StoreCovers /\ SettledNotSent
  BY DEF Inv
<1>1. TypeOK'
  BY <1>0 DEF TypeOK, ServiceSettles
<1>2. PermitsConserved'
  BY <1>0 DEF PermitsConserved, Holders
<1>3. Progress'
  BY <1>0, SettlesBounds DEF Progress, AttemptLimit
<1>4. StoreCovers' /\ SettledNotSent'
  BY <1>0 DEF StoreCovers, Keyed, SettledNotSent
<1>. QED
  BY <1>1, <1>2, <1>3, <1>4 DEF Inv

(* Delivering an answer keeps the whole invariant. *)
LEMMA DeliverInv ==
  ASSUME Inv,
         NEW r \in Requests, pc[r] = "calling", Deliver(r),
         UNCHANGED <<made, restarts, settled>>,
         ServiceSettles
  PROVE  Inv'
<1>1. /\ TypeOK /\ PermitsConserved /\ Progress /\ StoreCovers /\ SettledNotSent
      /\ Release(r, "ok") /\ pc[r] \in Holding /\ "ok" \in Finished
  BY DEF Inv, Deliver, Holding, Finished
<1>2. /\ PermitsConserved'
      /\ permits' \in 0..BulkheadLimit
      /\ waiters' \in Seq(Requests)
      /\ pc' \in [Requests -> {"new", "waiting"} \cup Holding \cup Finished]
  BY <1>1, ReleaseConserves
<1>3. Progress' /\ SettledNotSent'
  BY <1>1, ReleaseProgress
<1>4. TypeOK'
  <2>1. /\ store' \in [Keys -> Requests \cup {NoAnswer}]
        /\ age' \in [Requests -> 0..(TTL + 1)]
        /\ remembered' \subseteq Requests
    <3>1. CASE Keyed(r)
      <4>1. /\ store' = [store EXCEPT ![KeyOf[r]] = r]
            /\ age' = [age EXCEPT ![r] = 0]
            /\ remembered' = remembered \cup {r}
        BY <3>1 DEF Deliver
      <4>2. 0 \in 0..(TTL + 1)
        BY AiBulkheadAssumption
      <4>. QED
        BY <1>1, <4>1, <4>2 DEF TypeOK
    <3>2. CASE ~Keyed(r)
      BY <1>1, <3>2 DEF TypeOK, Deliver
    <3>. QED
      BY <3>1, <3>2
  <2>2. reply' \in [Requests -> Requests \cup {NoAnswer}]
    BY <1>1 DEF TypeOK, Deliver
  <2>. QED
    BY <1>1, <1>2, <2>1, <2>2 DEF TypeOK, ServiceSettles
<1>5. StoreCovers'
  <2>1. CASE Keyed(r)
    <3>1. /\ store' = [store EXCEPT ![KeyOf[r]] = r]
          /\ age' = [age EXCEPT ![r] = 0]
          /\ remembered' = remembered \cup {r}
          /\ KeyOf[r] \in Keys
      BY <2>1 DEF Deliver, Keyed
    <3>2. /\ \A k \in Keys : store'[k] = IF k = KeyOf[r] THEN r ELSE store[k]
          /\ \A q \in Requests : age'[q] = IF q = r THEN 0 ELSE age[q]
      BY <1>1, <3>1 DEF TypeOK
    <3>3. \A k \in Keys : store'[k] # NoAnswer =>
            store'[k] \in remembered' /\ Keyed(store'[k]) /\ KeyOf[store'[k]] = k
      BY <1>1, <2>1, <3>1, <3>2 DEF StoreCovers
    <3>4. ASSUME NEW s \in remembered'
          PROVE  /\ Keyed(s)
                 /\ age'[s] <= TTL =>
                      store'[KeyOf[s]] # NoAnswer /\ age'[store'[KeyOf[s]]] <= age'[s]
      <4>1. s \in Requests /\ Keyed(s) /\ KeyOf[s] \in Keys
        BY <1>1, <2>1, <3>1 DEF StoreCovers, TypeOK, Keyed
      <4>2. CASE KeyOf[s] = KeyOf[r]
        <5>1. store'[KeyOf[s]] = r /\ r # NoAnswer /\ age'[r] = 0
          BY <3>1, <3>2, <4>2, AiBulkheadAssumption
        <5>2. age'[s] \in Nat
          BY <1>4, <4>1 DEF TypeOK
        <5>. QED
          BY <4>1, <5>1, <5>2
      <4>3. CASE KeyOf[s] # KeyOf[r]
        <5>1. s \in remembered /\ age'[s] = age[s] /\ store'[KeyOf[s]] = store[KeyOf[s]]
          BY <3>1, <3>2, <4>1, <4>3
        <5>2. store[KeyOf[s]] # NoAnswer => store[KeyOf[s]] \in Requests /\ store[KeyOf[s]] # r
          BY <1>1, <4>1, <4>3 DEF StoreCovers, TypeOK
        <5>. QED
          BY <1>1, <3>2, <4>1, <5>1, <5>2 DEF StoreCovers
      <4>. QED
        BY <4>2, <4>3
    <3>. QED
      BY <3>3, <3>4 DEF StoreCovers, Keyed
  <2>2. CASE ~Keyed(r)
    BY <1>1, <2>2 DEF Deliver, StoreCovers, Keyed
  <2>. QED
    BY <2>1, <2>2
<1>. QED
  BY <1>2, <1>3, <1>4, <1>5 DEF Inv

-----------------------------------------------------------------------------
(* Nothing is held, stored or sent: the initial states satisfy Inv. *)
THEOREM InitInv == Init => Inv
<1> SUFFICES ASSUME Init PROVE Inv
  OBVIOUS
<1>1. TypeOK
  BY AiBulkheadAssumption DEF Init, TypeOK
<1>2. PermitsConserved
  <2>1. Holders = {}
    BY DEF Init, Holders, Holding
  <2>2. DOMAIN waiters = {}
    BY DEF Init
  <2>. QED
    BY <2>1, <2>2, FS_EmptySet, AiBulkheadAssumption DEF Init, PermitsConserved
<1>3. Progress
  BY AttemptLimitRange, AiBulkheadAssumption DEF Init, Progress
<1>4. StoreCovers /\ SettledNotSent
  BY DEF Init, StoreCovers, SettledNotSent
<1>. QED
  BY <1>1, <1>2, <1>3, <1>4 DEF Inv

(* One step per action: what the action leaves alone keeps its part of the *)
(* invariant, the lemmas above take care of the rest.                      *)
THEOREM NextInv == Inv /\ [Next]_vars => Inv'
<1> SUFFICES ASSUME Inv, [Next]_vars PROVE Inv'
  OBVIOUS
<1>0. TypeOK /\ PermitsConserved /\ Progress /\ StoreCovers /\ SettledNotSent
  BY DEF Inv
<1>1. ASSUME NEW r \in Requests, Replay(r) PROVE Inv'
  <2>1. /\ pc[r] = "new" /\ pc' = [pc EXCEPT ![r] = "replayed"]
        /\ store' = Unexpired
        /\ UNCHANGED <<permits, waiters, age, made, handler, left, started, restarts, remembered>>
    BY <1>1 DEF Replay, serviceVars
  <2>2. StoreCovers' /\ store' \in [Keys -> Requests \cup {NoAnswer}]
    BY <1>0, <2>1, UnexpiredCovers
  <2>3. PermitsConserved'
    BY <1>0, <2>1, SameSide DEF bulkheadVars, Finished
  <2>4. TypeOK'
    <3>1. reply' \in [Requests -> Requests \cup {NoAnswer}] /\ settled' \subseteq Requests
      BY <1>0, <1>1, <2>2 DEF Replay, TypeOK, Keyed
    <3>2. pc' \in [Requests -> {"new", "waiting"} \cup Holding \cup Finished]
      BY <1>0, <2>1 DEF TypeOK, Finished
    <3>. QED
      BY <1>0, <2>1, <2>2, <3>1, <3>2 DEF TypeOK
  <2>5. Progress'
    BY <1>0, <2>1 DEF Progress, TypeOK, AttemptLimit
  <2>6. SettledNotSent'
    <3>1. settled' \subseteq settled \cup {r}
      BY <1>1 DEF Replay
    <3>2. made[r] = 0
      BY <1>0, <2>1 DEF Progress
    <3>. QED
      BY <1>0, <2>1, <3>1, <3>2 DEF SettledNotSent, TypeOK
  <2>. QED
    BY <2>2, <2>3, <2>4, <2>5, <2>6 DEF Inv
<1>2. ASSUME NEW r \in Requests, Arrive(r) PROVE Inv'
  <2>1. /\ pc[r] = "new" /\ Acquire(r)
        /\ UNCHANGED <<age, made, handler, left, started, reply, restarts, remembered>>
    BY <1>2 DEF Arrive, serviceVars
  <2>2. /\ PermitsConserved'
        /\ permits' \in 0..BulkheadLimit
        /\ waiters' \in Seq(Requests)
        /\ pc' \in [Requests -> {"new", "waiting"} \cup Holding \cup Finished]
    BY <1>0, <2>1, AcquireConserves
  <2>3. StoreCovers' /\ store' \in [Keys -> Requests \cup {NoAnswer}]
    <3>1. CASE store' = Unexpired
      BY <1>0, <2>1, <3>1, UnexpiredCovers
    <3>2. CASE UNCHANGED store
      BY <1>0, <2>1, <3>2 DEF StoreCovers, TypeOK, Keyed
    <3>. QED
      BY <1>2, <3>1, <3>2 DEF Arrive
  <2>4. settled' = settled
    <3>1. CASE /\ Keyed(r)
               /\ store' = Unexpired
               /\ Unexpired[KeyOf[r]] = NoAnswer
               /\ settled' = IF AnsweredInTime(KeyOf[r]) THEN settled \cup {r} ELSE settled
      <4>1. ASSUME NEW s \in remembered, KeyOf[s] = KeyOf[r], age[s] <= TTL PROVE FALSE
        <5>1. store'[KeyOf[s]] # NoAnswer
          BY <2>1, <2>3, <4>1 DEF StoreCovers
        <5>. QED
          BY <3>1, <4>1, <5>1
      <4>2. ~AnsweredInTime(KeyOf[r])
        BY <4>1 DEF AnsweredInTime
      <4>. QED
        BY <3>1, <4>2
    <3>2. CASE ~Keyed(r) /\ UNCHANGED <<store, settled>>
      BY <3>2
    <3>. QED
      BY <1>2, <3>1, <3>2 DEF Arrive
  <2>5. TypeOK'
    BY <1>0, <2>1, <2>2, <2>3, <2>4 DEF TypeOK
  <2>6. pc' = [pc EXCEPT ![r] = "holding"] \/ pc' = [pc EXCEPT ![r] = "waiting"]
    BY <2>1 DEF Acquire
  <2>7. Progress'
    BY <1>0, <2>1, <2>6 DEF Progress, TypeOK, AttemptLimit
  <2>8. SettledNotSent'
    BY <1>0, <2>1, <2>4, <2>6 DEF SettledNotSent, TypeOK
  <2>. QED
    BY <2>2, <2>3, <2>5, <2>7, <2>8 DEF Inv
<1>3. ASSUME NEW r \in Requests, Send(r) PROVE Inv'
  <2>1. /\ pc[r] \in {"holding", "backoff"}
        /\ pc' = [pc EXCEPT ![r] = "calling"]
        /\ made' = [made EXCEPT ![r] = @ + 1]
        /\ UNCHANGED <<permits, waiters, store, age, started, reply, restarts, remembered, settled>>
    BY <1>3 DEF Send, serviceVars
  <2>2. made[r] \in Nat /\ made[r] < AttemptLimit(r) /\ made[r] + 1 \in Attempts
    <3>1. made[r] \in Nat /\ DefaultAttempts \in Nat
      BY <1>0, AiBulkheadAssumption DEF TypeOK
    <3>2. AttemptLimit(r) \in 1..DefaultAttempts
      BY AttemptLimitRange
    <3>3. made[r] < AttemptLimit(r)
      <4>1. CASE pc[r] = "holding"
        BY <1>0, <3>2, <4>1 DEF Progress
      <4>2. CASE pc[r] = "backoff"
        BY <1>0, <4>2 DEF Progress
      <4>. QED
        BY <2>1, <4>1, <4>2
    <3>. QED
      BY <3>1, <3>2, <3>3 DEF Attempts
  <2>3. /\ handler' \in [Requests -> [Attempts -> {"none", "over"} \cup Busy]]
        /\ left' \in [Requests -> [Attempts -> Nat]]
        /\ \A q \in Requests : \A n \in Attempts :
             left'[q][n] = left[q][n] \/ (q = r /\ n = made[r] + 1 /\ left'[q][n] = Asked[r])
    <3>1. CASE /\ handler' = [handler EXCEPT ![r][made[r] + 1] = "open"]
               /\ left' = [left EXCEPT ![r][made[r] + 1] = Asked[r]]
      BY <1>0, <2>2, <3>1, AiBulkheadAssumption DEF TypeOK, Busy
    <3>2. CASE UNCHANGED serviceVars
      BY <1>0, <3>2 DEF TypeOK, serviceVars
    <3>. QED
      BY <1>3, <3>1, <3>2 DEF Send
  <2>4. PermitsConserved'
    BY <1>0, <2>1, SameSide DEF bulkheadVars, Holding
  <2>5. TypeOK'
    <3>1. made' \in [Requests -> 0..DefaultAttempts]
      BY <1>0, <2>1, <2>2 DEF TypeOK, Attempts
    <3>2. pc' \in [Requests -> {"new", "waiting"} \cup Holding \cup Finished]
      BY <1>0, <2>1 DEF TypeOK, Holding
    <3>. QED
      BY <1>0, <2>1, <2>3, <3>1, <3>2 DEF TypeOK
  <2>6. Progress'
    <3> SUFFICES ASSUME NEW q \in Requests
                 PROVE  /\ made'[q] <= AttemptLimit(q)
                        /\ pc'[q] \in {"new", "waiting", "holding", "replayed"} => made'[q] = 0
                        /\ pc'[q] \in {"calling", "backoff"} => made'[q] >= 1
                        /\ pc'[q] = "backoff" => made'[q] < AttemptLimit(q)
                        /\ \A n \in Attempts :
                             /\ started[q][n] + left'[q][n] > 0 => n <= made'[q]
                             /\ started[q][n] + left'[q][n] <= Asked[q]
      BY <2>1 DEF Progress, AttemptLimit
    <3>0. ASSUME NEW n \in Attempts
          PROVE  /\ started[q][n] + left'[q][n] > 0 => n <= made'[q]
                 /\ started[q][n] + left'[q][n] <= Asked[q]
      <4>1. /\ started[q][n] \in Nat /\ left[q][n] \in Nat
            /\ Asked[q] \in Nat /\ n \in Nat /\ made[q] \in Nat
        BY <1>0, AiBulkheadAssumption, SMTT(30) DEF TypeOK, Attempts
      <4>5. made'[q] = made[q] \/ (q = r /\ made'[q] = made[q] + 1)
        BY <1>0, <2>1 DEF TypeOK
      <4>2. /\ started[q][n] + left[q][n] > 0 => n <= made[q]
            /\ started[q][n] + left[q][n] <= Asked[q]
        BY <1>0 DEF Progress
      <4>3. CASE left'[q][n] = left[q][n]
        BY <4>1, <4>2, <4>3, <4>5
      <4>4. CASE q = r /\ n = made[r] + 1 /\ left'[q][n] = Asked[r]
        <5>1. made'[r] = made[r] + 1
          BY <1>0, <2>1 DEF TypeOK
        <5>. QED
          BY <4>1, <4>2, <4>4, <5>1
      <4>. QED
        BY <2>3, <4>3, <4>4
    <3>1. CASE q = r
      <4>1. made'[r] = made[r] + 1 /\ pc'[r] = "calling"
        BY <1>0, <2>1 DEF TypeOK
      <4>2. AttemptLimit(r) \in Nat
        BY AttemptLimitRange
      <4>. QED
        BY <2>2, <3>0, <3>1, <4>1, <4>2 DEF Attempts
    <3>2. CASE q # r
      <4>1. made'[q] = made[q] /\ pc'[q] = pc[q]
        BY <1>0, <2>1, <3>2 DEF TypeOK
      <4>. QED
        BY <1>0, <3>0, <4>1 DEF Progress
    <3>. QED
      BY <3>1, <3>2
  <2>7. StoreCovers'
    BY <1>0, <2>1 DEF StoreCovers, Keyed
  <2>8. SettledNotSent'
    BY <1>0, <2>1 DEF SettledNotSent, TypeOK
  <2>. QED
    BY <2>4, <2>5, <2>6, <2>7, <2>8 DEF Inv
<1>4. ASSUME NEW r \in Requests, NEW n \in Attempts, Begin(r, n) PROVE Inv'
  <2>1. /\ left[r][n] > 0
        /\ left' = [left EXCEPT ![r][n] = @ - 1]
        /\ UNCHANGED <<pc, permits, waiters, store, age, made, reply, restarts, remembered, settled>>
    BY <1>4 DEF Begin
  <2>2. started[r][n] \in Nat /\ left[r][n] \in Nat /\ Asked[r] \in Nat
    BY <1>0, AiBulkheadAssumption DEF TypeOK
  <2>3. /\ left' \in [Requests -> [Attempts -> Nat]]
        /\ \A q \in Requests : \A m \in Attempts :
             left'[q][m] = IF q = r /\ m = n THEN left[r][n] - 1 ELSE left[q][m]
    BY <1>0, <2>1, <2>2, SMTT(30) DEF TypeOK
  <2>4. /\ handler' \in [Requests -> [Attempts -> {"none", "over"} \cup Busy]]
        /\ started' \in [Requests -> [Attempts -> Nat]]
        /\ \/ started' = started
           \/ \A q \in Requests : \A m \in Attempts :
                started'[q][m] = IF q = r /\ m = n THEN started[r][n] + 1 ELSE started[q][m]
    <3>1. CASE UNCHANGED <<handler, started>>
      BY <1>0, <3>1 DEF TypeOK
    <3>2. CASE /\ handler' = [handler EXCEPT ![r][n] = "running"]
               /\ started' = [started EXCEPT ![r][n] = @ + 1]
      BY <1>0, <2>2, <3>2, SMTT(30) DEF TypeOK, Busy
    <3>. QED
      BY <1>4, <3>1, <3>2 DEF Begin
  <2>5. TypeOK'
    BY <1>0, <2>1, <2>3, <2>4 DEF TypeOK
  <2>6. PermitsConserved'
    BY <1>0, <2>1 DEF PermitsConserved, Holders
  <2>8. Progress'
    <3> SUFFICES ASSUME NEW q \in Requests, NEW m \in Attempts
                 PROVE  /\ started'[q][m] + left'[q][m] > 0 => m <= made[q]
                        /\ started'[q][m] + left'[q][m] <= Asked[q]
      BY <1>0, <2>1 DEF Progress, AttemptLimit
    <3>1. /\ started[q][m] + left[q][m] > 0 => m <= made[q]
          /\ started[q][m] + left[q][m] <= Asked[q]
      BY <1>0 DEF Progress
    <3>2. started[q][m] \in Nat /\ left[q][m] \in Nat /\ Asked[q] \in Nat
      BY <1>0, AiBulkheadAssumption DEF TypeOK
    <3>3. CASE q = r /\ m = n
      <4>1. left'[q][m] = left[q][m] - 1
        BY <2>3, <3>3
      <4>2. started'[q][m] = started[q][m] \/ started'[q][m] = started[q][m] + 1
        BY <2>4, <3>3
      <4>3. left[q][m] > 0
        BY <2>1, <3>3
      <4>. QED
        BY <3>1, <3>2, <4>1, <4>2, <4>3
    <3>4. CASE ~(q = r /\ m = n)
      <4>1. left'[q][m] = left[q][m] /\ started'[q][m] = started[q][m]
        BY <2>3, <2>4, <3>4
      <4>. QED
        BY <3>1, <4>1
    <3>. QED
      BY <3>3, <3>4
  <2>9. StoreCovers' /\ SettledNotSent'
    BY <1>0, <2>1 DEF StoreCovers, Keyed, SettledNotSent
  <2>. QED
    BY <2>5, <2>6, <2>8, <2>9 DEF Inv
<1>5. ASSUME NEW r \in Requests, NEW n \in Attempts,
             \/ Generated(r, n)
             \/ Answered(r, n)
             \/ ErrsUnread(r, n)
      PROVE  Inv'
  <2>0. UNCHANGED <<made, restarts, settled>>
    BY <1>5 DEF Generated, Answered, ErrsUnread
  <2>1. ServiceSettles
    <3>1. CASE Generated(r, n)
      BY <1>0, <3>1 DEF Generated, ServiceSettles, TypeOK, Busy
    <3>2. CASE HandlerEnds(r, n)
      BY <1>0, <3>2, EndingSettles
    <3>. QED
      BY <1>5, <3>1, <3>2 DEF Generated, Answered, ErrsUnread
  <2>2. CASE pc[r] = "calling" /\ Deliver(r)
    BY <2>0, <2>1, <2>2, DeliverInv
  <2>3. CASE UNCHANGED <<pc, permits, waiters, store, age, reply, remembered>>
    BY <2>0, <2>1, <2>3, UnreadInv
  <2>. QED
    BY <1>5, <2>2, <2>3 DEF Generated, Answered, ErrsUnread, Awaited
<1>6. ASSUME NEW r \in Requests, FailTransient(r) PROVE Inv'
  <2>1. /\ pc[r] = "calling"
        /\ UNCHANGED <<store, age, made, reply, restarts, remembered, settled>>
    BY <1>6 DEF FailTransient
  <2>2. ServiceSettles
    <3>1. CASE UNCHANGED serviceVars
      BY <1>0, <3>1, QuietSettles
    <3>2. CASE HandlerEnds(r, made[r])
      <4>1. made[r] \in Attempts
        BY <1>0, <2>1, AiBulkheadAssumption DEF Progress, TypeOK, Attempts
      <4>. QED
        BY <1>0, <3>2, <4>1, EndingSettles
    <3>. QED
      BY <1>6, <3>1, <3>2 DEF FailTransient
  <2>3. CASE /\ made[r] < AttemptLimit(r)
             /\ pc' = [pc EXCEPT ![r] = "backoff"]
             /\ UNCHANGED bulkheadVars
    <3>1. TypeOK'
      <4>1. pc' \in [Requests -> {"new", "waiting"} \cup Holding \cup Finished]
        BY <1>0, <2>3 DEF TypeOK, Holding
      <4>. QED
        BY <1>0, <2>1, <2>2, <2>3, <4>1 DEF TypeOK, bulkheadVars, ServiceSettles
    <3>2. PermitsConserved'
      BY <1>0, <2>1, <2>3, SameSide DEF Holding
    <3>3. Progress'
      <4> SUFFICES ASSUME NEW q \in Requests
                   PROVE  /\ made[q] <= AttemptLimit(q)
                          /\ pc'[q] \in {"new", "waiting", "holding", "replayed"} => made[q] = 0
                          /\ pc'[q] \in {"calling", "backoff"} => made[q] >= 1
                          /\ pc'[q] = "backoff" => made[q] < AttemptLimit(q)
        BY <1>0, <2>1, <2>2, SettlesBounds DEF Progress, AttemptLimit
      <4>. QED
        BY <1>0, <2>1, <2>3 DEF Progress, TypeOK
    <3>4. StoreCovers' /\ SettledNotSent'
      BY <1>0, <2>1, <2>3 DEF StoreCovers, Keyed, SettledNotSent, TypeOK
    <3>. QED
      BY <3>1, <3>2, <3>3, <3>4 DEF Inv
  <2>4. CASE Release(r, FailureEnd(r))
    BY <2>1, <2>2, <2>4, ReleaseInv DEF Holding, Finished, FailureEnd
  <2>. QED
    BY <1>6, <2>3, <2>4 DEF FailTransient
<1>7. ASSUME NEW r \in Requests, Refuse(r) PROVE Inv'
  <2>1. /\ pc[r] \in Holding /\ Release(r, FailureEnd(r))
        /\ UNCHANGED <<store, age, made, reply, restarts, remembered, settled>>
    BY <1>7 DEF Refuse, Holding
  <2>2. ServiceSettles
    <3>1. CASE UNCHANGED serviceVars
      BY <1>0, <3>1, QuietSettles
    <3>2. CASE pc[r] = "calling" /\ HandlerEnds(r, made[r])
      <4>1. made[r] \in Attempts
        BY <1>0, <3>2, AiBulkheadAssumption DEF Progress, TypeOK, Attempts
      <4>. QED
        BY <1>0, <3>2, <4>1, EndingSettles
    <3>. QED
      BY <1>7, <3>1, <3>2 DEF Refuse
  <2>. QED
    BY <2>1, <2>2, ReleaseInv DEF Finished, FailureEnd
<1>8. ASSUME Restart PROVE Inv'
  <2>1. /\ restarts < MaxRestarts /\ restarts' = restarts + 1
        /\ pc' = [r \in Requests |->
                   IF pc[r] \in {"new"} \cup Finished THEN pc[r] ELSE "lost"]
        /\ permits' = BulkheadLimit /\ waiters' = <<>>
        /\ store' = [k \in Keys |-> NoAnswer] /\ remembered' = {}
        /\ UNCHANGED <<age, made, handler, left, started, reply, settled>>
    BY <1>8 DEF Restart, serviceVars
  <2>2. \A r \in Requests : pc'[r] \in {"new"} \cup Finished /\ (pc'[r] = pc[r] \/ pc'[r] = "lost")
    BY <2>1 DEF Finished
  <2>3. TypeOK'
    BY <1>0, <2>1, <2>2, AiBulkheadAssumption DEF TypeOK
  <2>4. PermitsConserved'
    <3>1. Holders' = {}
      BY <2>2 DEF Holders, Holding, Finished
    <3>2. DOMAIN waiters' = {}
      BY <2>1
    <3>3. \A r \in Requests : pc'[r] # "waiting"
      BY <2>2 DEF Finished
    <3>. QED
      BY <2>1, <3>1, <3>2, <3>3, FS_EmptySet, AiBulkheadAssumption DEF PermitsConserved
  <2>5. Progress'
    BY <1>0, <2>1, <2>2 DEF Progress, AttemptLimit, Finished
  <2>6. StoreCovers'
    BY <2>1 DEF StoreCovers
  <2>7. SettledNotSent'
    BY <1>0, <2>1 DEF SettledNotSent, TypeOK, Finished
  <2>. QED
    BY <2>3, <2>4, <2>5, <2>6, <2>7 DEF Inv
<1>9. ASSUME Tick PROVE Inv'
  <2>1. /\ age' = [r \in Requests |-> IF age[r] <= TTL THEN age[r] + 1 ELSE age[r]]
        /\ UNCHANGED <<pc, permits, waiters, store, made, handler, left, started, reply, restarts, remembered, settled>>
    BY <1>9 DEF Tick, serviceVars
  <2>2. TypeOK'
    BY <1>0, <2>1, AiBulkheadAssumption DEF TypeOK
  <2>3. PermitsConserved'
    BY <1>0, <2>1 DEF PermitsConserved, Holders
  <2>4. Progress' /\ SettledNotSent'
    BY <1>0, <2>1 DEF Progress, SettledNotSent, AttemptLimit
  <2>5. StoreCovers'
    <3>1. ASSUME NEW s \in remembered, age'[s] <= TTL
          PROVE  store[KeyOf[s]] # NoAnswer /\ age'[store[KeyOf[s]]] <= age'[s]
      <4>1. s \in Requests /\ age[s] \in Nat /\ TTL \in Nat /\ KeyOf[s] \in Keys
        BY <1>0, AiBulkheadAssumption DEF TypeOK, StoreCovers, Keyed
      <4>2. age[s] <= TTL /\ age'[s] = age[s] + 1
        BY <2>1, <3>1, <4>1
      <4>3. store[KeyOf[s]] # NoAnswer /\ age[store[KeyOf[s]]] <= age[s]
        BY <1>0, <4>2 DEF StoreCovers
      <4>4. store[KeyOf[s]] \in Requests /\ age[store[KeyOf[s]]] \in Nat
        BY <1>0, <4>1, <4>3 DEF TypeOK
      <4>. QED
        BY <2>1, <4>1, <4>2, <4>3, <4>4
    <3>. QED
      BY <1>0, <2>1, <3>1 DEF StoreCovers, Keyed
  <2>. QED
    BY <2>2, <2>3, <2>4, <2>5 DEF Inv
<1>10. ASSUME UNCHANGED vars PROVE Inv'
  <2>1. UNCHANGED <<pc, permits, waiters, store, age, made, handler, left, started, reply, restarts,
                    remembered, settled>>
    BY <1>10 DEF vars
  <2>2. TypeOK' /\ PermitsConserved'
    BY <1>0, <2>1 DEF TypeOK, PermitsConserved, Holders
  <2>3. Progress' /\ StoreCovers' /\ SettledNotSent'
    BY <1>0, <2>1 DEF Progress, StoreCovers, SettledNotSent, Keyed, AttemptLimit
  <2>. QED
    BY <2>2, <2>3 DEF Inv
<1>. QED
  BY <1>1, <1>2, <1>3, <1>4, <1>5, <1>6, <1>7, <1>8, <1>9, <1>10
  DEF Next, Request, Step, Serve, Idle

-----------------------------------------------------------------------------
(* Inv is an invariant of the specification. *)
THEOREM Invariance == Spec => []Inv
BY InitInv, NextInv, PTL DEF Spec

(* Type correctness. *)
THEOREM TypeCorrect == Spec => []TypeOK
<1>1. Inv => TypeOK
  BY DEF Inv
<1>. QED
  BY <1>1, Invariance, PTL

(* However requests leave the bulkhead, no permit is lost or multiplied,   *)
(* nobody waits while one is free, and the queue holds exactly those that  *)
(* wait.                                                                   *)
THEOREM PermitConservation == Spec => []PermitsConserved
<1>1. Inv => PermitsConserved
  BY DEF Inv
<1>. QED
  BY <1>1, Invariance, PTL

(* A key this worker has answered within the TTL never reaches the AI      *)
(* service again, overlapping requests with the same key included.         *)
THEOREM SettledKeys == Spec => []SettledNotSent
<1>1. Inv => SettledNotSent
  BY DEF Inv
<1>. QED
  BY <1>1, Invariance, PTL

(* Whatever the number of capabilities asked for and however late the      *)
(* handlers end, an analysis is generated once at most, insights at most   *)
(* once per capability.                                                    *)
THEOREM BoundedGenerations == Spec => []GenerationsBounded
<1>1. Inv => GenerationsBounded
  <2> SUFFICES ASSUME Inv, NEW r \in Requests
               PROVE  /\ Cardinality({n \in Attempts : started[r][n] > 0}) <= AttemptLimit(r)
                      /\ \A n \in Attempts : started[r][n] <= Asked[r]
                      /\ pc[r] = "backoff" => KindOf[r] = "customer360"
    BY DEF GenerationsBounded
  <2> DEFINE generated == {n \in Attempts : started[r][n] > 0}
  <2>1. AttemptLimit(r) \in Nat
    BY AttemptLimitRange
  <2>2. generated \in SUBSET (1..AttemptLimit(r))
    <3>1. ASSUME NEW n \in generated
          PROVE  n \in 1..AttemptLimit(r)
      <4>1. /\ started[r][n] \in Nat /\ left[r][n] \in Nat /\ started[r][n] > 0
            /\ n \in Nat /\ n >= 1 /\ made[r] \in Nat
        BY AiBulkheadAssumption DEF Inv, TypeOK, Attempts
      <4>2. /\ started[r][n] + left[r][n] > 0 => n <= made[r]
            /\ made[r] <= AttemptLimit(r)
        BY DEF Inv, Progress
      <4>. QED
        BY <2>1, <4>1, <4>2
    <3>. QED
      BY <3>1
  <2>3. IsFiniteSet(1..AttemptLimit(r)) /\ Cardinality(1..AttemptLimit(r)) = AttemptLimit(r)
    BY <2>1, FS_Interval
  <2>4. Cardinality(generated) <= AttemptLimit(r)
    BY <2>2, <2>3, FS_Subset
  <2>5. ASSUME NEW n \in Attempts
        PROVE  started[r][n] <= Asked[r]
    <3>1. /\ started[r][n] \in Nat /\ left[r][n] \in Nat /\ Asked[r] \in Nat
          /\ started[r][n] + left[r][n] <= Asked[r]
      BY AiBulkheadAssumption DEF Inv, Progress, TypeOK
    <3>. QED
      BY <3>1
  <2>6. pc[r] = "backoff" => 1 <= made[r] /\ made[r] < AttemptLimit(r) /\ made[r] \in Nat
    BY AiBulkheadAssumption DEF Inv, Progress, TypeOK
  <2>. QED
    BY <2>4, <2>5, <2>6 DEF AttemptLimit
<1>. QED
  BY <1>1, Invariance, PTL

(* What a repeated key is given is an answer to the same key, from this    *)
(* worker, at most TTL old.                                                *)
THEOREM FreshReplays == Spec => ReplayIsFresh
<1> DEFINE Fresh(r) ==
      /\ reply'[r] \in remembered
      /\ Keyed(reply'[r]) /\ KeyOf[reply'[r]] = KeyOf[r]
      /\ age[reply'[r]] <= TTL
<1>1. ASSUME Inv, [Next]_vars,
             NEW r \in Requests, pc[r] # "replayed", pc'[r] = "replayed"
      PROVE  Fresh(r)
  <2>0. TypeOK /\ PermitsConserved /\ StoreCovers
    BY <1>1 DEF Inv
  <2>1. ASSUME NEW q \in Requests, Replay(q) PROVE Fresh(r)
    <3>1. q = r
      BY <1>1, <2>0, <2>1 DEF Replay, TypeOK
    <3>2. /\ Keyed(r) /\ KeyOf[r] \in Keys
          /\ Unexpired[KeyOf[r]] # NoAnswer
          /\ reply'[r] = Unexpired[KeyOf[r]]
      BY <2>0, <2>1, <3>1 DEF Replay, Keyed, TypeOK
    <3>3. /\ Unexpired[KeyOf[r]] = store[KeyOf[r]]
          /\ ~(age[store[KeyOf[r]]] > TTL)
      BY <3>2 DEF Unexpired
    <3>4. store[KeyOf[r]] \in remembered /\ Keyed(store[KeyOf[r]]) /\ KeyOf[store[KeyOf[r]]] = KeyOf[r]
      BY <2>0, <3>2, <3>3 DEF StoreCovers
    <3>5. age[store[KeyOf[r]]] <= TTL
      BY <2>0, <3>3, <3>4, AiBulkheadAssumption, SMTT(30) DEF TypeOK
    <3>. QED
      BY <3>2, <3>3, <3>4, <3>5
  <2>2. ASSUME NEW q \in Requests, Arrive(q) PROVE FALSE
    BY <1>1, <2>0, <2>2 DEF Arrive, Acquire, TypeOK
  <2>3. ASSUME NEW q \in Requests, Send(q) PROVE FALSE
    BY <1>1, <2>0, <2>3 DEF Send, TypeOK
  <2>4. ASSUME NEW q \in Requests, pc[q] \in Holding,
               NEW end \in Finished \ {"replayed"}, Release(q, end)
        PROVE  FALSE
    <3>1. /\ pc'[q] = end
          /\ \A p \in Requests \ {q} :
               pc'[p] = pc[p] \/ (pc[p] = "waiting" /\ pc'[p] = "holding")
      BY <2>0, <2>4, ReleaseConserves
    <3>. QED
      BY <1>1, <2>4, <3>1
  <2>5. ASSUME NEW q \in Requests, pc[q] = "calling", Deliver(q) PROVE FALSE
    BY <2>4, <2>5 DEF Deliver, Finished, Holding
  <2>6. ASSUME NEW q \in Requests, FailTransient(q) PROVE FALSE
    <3>1. CASE pc' = [pc EXCEPT ![q] = "backoff"]
      BY <1>1, <2>0, <3>1 DEF TypeOK
    <3>2. CASE pc[q] = "calling" /\ Release(q, FailureEnd(q))
      BY <2>4, <3>2 DEF FailureEnd, Finished, Holding
    <3>. QED
      BY <2>6, <3>1, <3>2 DEF FailTransient
  <2>7. ASSUME NEW q \in Requests, Refuse(q) PROVE FALSE
    BY <2>4, <2>7 DEF Refuse, FailureEnd, Finished, Holding
  <2>8. CASE \E q \in Requests, n \in Attempts : Answered(q, n)
    BY <1>1, <2>5, <2>8 DEF Answered, Awaited
  <2>9. CASE \E q \in Requests, n \in Attempts : Begin(q, n) \/ Generated(q, n) \/ ErrsUnread(q, n)
    BY <1>1, <2>9 DEF Begin, Generated, ErrsUnread
  <2>10. CASE Restart \/ Tick \/ UNCHANGED vars
    BY <1>1, <2>10 DEF Restart, Tick, vars
  <2>. QED
    BY <1>1, <2>1, <2>2, <2>3, <2>6, <2>7, <2>8, <2>9, <2>10 DEF Next, Request, Step, Serve, Idle
<1>2. Inv /\ [Next]_vars =>
        [\A r \in Requests : pc[r] # "replayed" /\ pc'[r] = "replayed" => Fresh(r)]_vars
  BY <1>1
<1>. QED
  BY <1>2, Invariance, PTL DEF Spec, ReplayIsFresh

=============================================================================
