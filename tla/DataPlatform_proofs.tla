-------------------------- MODULE DataPlatform_proofs --------------------------
(***************************************************************************)
(* Proofs about DataPlatform for every set of calls, whatever they ask,    *)
(* every number of attempts and of restarts.                               *)
(*                                                                         *)
(* A row is stored at most once by each attempt: what is stored and what   *)
(* is still flying never outnumber the attempts made, the refused one left *)
(* out.  An attempt that was served never flies again, so the entry of a   *)
(* handle somebody holds is not written a second time.                     *)
(***************************************************************************)
EXTENDS DataPlatform, FiniteSetTheorems, TLAPS

(* The record with the fields of Fresh and the values of r. *)
Fields(r) == [ask : {r.ask}, at : {r.at}, try : {r.try}, status : {r.status},
              handle : {r.handle}, read : {r.read}]

Record(c, r) ==
  /\ r \in Fields(r) /\ r.ask \in Asks[c] /\ r.try \in 0..Attempts
  /\ r.at \in {"idle", "waiting", "done", "polled"}
  /\ r.status \in {0, 200, 400, 500, 502, 503, 504}
  /\ r.at = "idle" => r.try = 0
  /\ r.at \in {"idle", "waiting"} => r.status = 0

Writes(ask) == ask.kind \in {"write", "raw"}

(* What a write has stored, by what its caller was told. *)
Told(r, copies) ==
  /\ Writes(r.ask) /\ r.status = 200 => \A i \in DOMAIN copies : copies[i] >= 1
  /\ r.ask.operation \notin WriteOperations => \A i \in DOMAIN copies : copies[i] = 0

(* The attempts of c that are sent and not served. *)
Sent(c, sent) == {k \in 1..Attempts : <<c, k>> \in sent}

(* The attempts that may have stored something: a refused one has not. *)
Spent(r) == IF Writes(r.ask) /\ r.status = 400 THEN r.try - 1 ELSE r.try

Counted(c, r, copies, sent) ==
  /\ \A k \in Sent(c, sent) : k <= r.try
  /\ DOMAIN copies = DOMAIN r.ask.rows
  /\ \A i \in DOMAIN copies :
       copies[i] \in Nat /\ copies[i] + Cardinality(Sent(c, sent)) <= Spent(r)

Holds(c, r, sent, entries) ==
  r.handle # NoHandle =>
    /\ ~Writes(r.ask) /\ r.at \in {"done", "polled"}
    /\ r.handle = <<c, r.try>> /\ r.try \in 1..Attempts /\ r.handle \notin sent
    /\ r.handle \in DOMAIN entries => entries[r.handle].status # "RUNNING"

Placed(c, r, copies, sent, entries) ==
  /\ Record(c, r) /\ Told(r, copies)
  /\ Counted(c, r, copies, sent) /\ Holds(c, r, sent, entries)

Entries(entries) ==
  /\ DOMAIN entries \subseteq Calls \X (1..Attempts)
  /\ \A h \in DOMAIN entries : entries[h].status \in {"RUNNING", "SUCCEEDED", "FAILED"}

Server == conn \in BOOLEAN /\ locked \in BOOLEAN /\ restarts \in 0..MaxRestarts

Inv ==
  /\ call = [c \in Calls |-> call[c]] /\ stored = [c \in Calls |-> stored[c]]
  /\ flying \subseteq Calls \X (1..Attempts)
  /\ Entries(results) /\ Server
  /\ \A c \in Calls : Placed(c, call[c], stored[c], flying, results)

-----------------------------------------------------------------------------
LEMMA SentFinite ==
  ASSUME NEW c, NEW sent
  PROVE  IsFiniteSet(Sent(c, sent)) /\ Cardinality(Sent(c, sent)) \in Nat
<1>1. IsFiniteSet(1..Attempts)
  BY DataPlatformAssumption, FS_Interval
<1>2. IsFiniteSet(Sent(c, sent))
  BY <1>1, FS_Subset DEF Sent
<1> QED
  BY <1>2, FS_CardinalityType

(* One attempt more, or one less.                                          *)
LEMMA SentAnother ==
  ASSUME NEW c, NEW sent, NEW k
  PROVE  Cardinality(Sent(c, sent \cup {<<c, k>>})) <= Cardinality(Sent(c, sent)) + 1
<1> DEFINE before == Sent(c, sent)
           after  == Sent(c, sent \cup {<<c, k>>})
<1>1. IsFiniteSet(before) /\ Cardinality(before) \in Nat
  BY SentFinite
<1>2. after = before \/ after = before \cup {k}
  BY DEF Sent
<1> HIDE DEF before, after
<1>3. Cardinality(before \cup {k}) <= Cardinality(before) + 1
  BY <1>1, FS_AddElement
<1>4. Cardinality(after) <= Cardinality(before) + 1
  <2>1. CASE after = before
    BY ONLY <1>1, <2>1
  <2>2. CASE after = before \cup {k}
    BY ONLY <1>3, <2>2
  <2> QED
    BY ONLY <1>2, <2>1, <2>2
<1> QED
  BY <1>4 DEF before, after

LEMMA SentServed ==
  ASSUME NEW c, NEW sent, NEW k \in 1..Attempts, <<c, k>> \in sent
  PROVE  Cardinality(Sent(c, sent \ {<<c, k>>})) = Cardinality(Sent(c, sent)) - 1
<1> DEFINE before == Sent(c, sent)
           after  == Sent(c, sent \ {<<c, k>>})
<1>1. IsFiniteSet(before) /\ Cardinality(before) \in Nat
  BY SentFinite
<1>2. after = before \ {k} /\ k \in before
  BY DEF Sent
<1> HIDE DEF before, after
<1>3. Cardinality(before \ {k}) = Cardinality(before) - 1
  BY <1>1, <1>2, FS_RemoveElement
<1> QED
  BY <1>2, <1>3 DEF before, after

LEMMA AskTypes ==
  ASSUME NEW c \in Calls, NEW a \in Asks[c]
  PROVE  /\ a.kind \in {"query", "submit", "write", "raw", "health"} /\ a.bound \in BOOLEAN
         /\ Len(a.rows) \in Nat /\ DOMAIN a.rows = 1..Len(a.rows)
BY DataPlatformAssumption

LEMMA InitInv == Init => Inv
<1> SUFFICES ASSUME Init PROVE Inv
  OBVIOUS
<1>1. ASSUME NEW c \in Calls PROVE Placed(c, call[c], stored[c], flying, results)
  <2>1. PICK a : call[c] = Fresh(a) /\ call[c].ask \in Asks[c]
    BY DEF Init
  <2> DEFINE r == call[c]
             copies == stored[c]
  <2>2. /\ r.at = "idle" /\ r.try = 0 /\ r.status = 0 /\ r.handle = NoHandle
        /\ r \in Fields(r) /\ r.ask \in Asks[c]
    BY <2>1 DEF Fresh, Fields
  <2>3. DOMAIN copies = DOMAIN r.ask.rows /\ \A i \in DOMAIN copies : copies[i] = 0
    BY DEF Init
  <2>4. Sent(c, flying) = {} /\ Cardinality({}) = 0
    BY FS_EmptySet DEF Init, Sent
  <2>5. 0 \in 0..Attempts
    BY DataPlatformAssumption
  <2> HIDE DEF r, copies
  <2>6. Record(c, r)
    BY <2>2, <2>5 DEF Record
  <2>7. Counted(c, r, copies, flying)
    BY <2>2, <2>3, <2>4 DEF Counted, Spent
  <2>8. Told(r, copies) /\ Holds(c, r, flying, results)
    BY <2>2, <2>3 DEF Told, Holds
  <2> QED
    BY <2>6, <2>7, <2>8 DEF Placed, r, copies
<1>2. Entries(results)
  BY DEF Init, Entries
<1>3. Server
  <2>1. conn \in BOOLEAN
    BY DEF Init
  <2>2. locked \in BOOLEAN
    BY DEF Init
  <2>3. restarts \in 0..MaxRestarts
    BY DataPlatformAssumption DEF Init
  <2> QED
    BY <2>1, <2>2, <2>3 DEF Server
<1>4. call = [c \in Calls |-> call[c]] /\ stored = [c \in Calls |-> stored[c]]
  BY DEF Init
<1>5. flying \subseteq Calls \X (1..Attempts)
  BY DEF Init
<1> QED
  BY <1>1, <1>2, <1>3, <1>4, <1>5 DEF Inv

-----------------------------------------------------------------------------
(* Steps *)

(* What a step of one call must keep. *)
LEMMA StepInv ==
  ASSUME Inv, NEW c \in Calls,
         NEW q, call' = [call EXCEPT ![c] = q],
         NEW copies, stored' = [stored EXCEPT ![c] = copies],
         flying' \subseteq Calls \X (1..Attempts),
         \A d \in Calls \ {c}, k \in 1..Attempts : <<d, k>> \in flying' <=> <<d, k>> \in flying,
         Entries(results'),
         \A d \in Calls \ {c}, k \in 1..Attempts :
           <<d, k>> \in DOMAIN results' =>
             <<d, k>> \in DOMAIN results /\ results'[<<d, k>>] = results[<<d, k>>],
         Server', Placed(c, q, copies, flying', results')
  PROVE  Inv'
<1>1. /\ call' = [d \in Calls |-> call'[d]] /\ stored' = [d \in Calls |-> stored'[d]]
      /\ \A d \in Calls : call'[d] = IF d = c THEN q ELSE call[d]
      /\ \A d \in Calls : stored'[d] = IF d = c THEN copies ELSE stored[d]
  BY DEF Inv
<1>2. ASSUME NEW d \in Calls, d # c
      PROVE  Placed(d, call[d], stored[d], flying', results')
  <2> DEFINE r == call[d]
             had == stored[d]
  <2>1. Placed(d, r, had, flying, results)
    BY DEF Inv
  <2>2. Sent(d, flying') = Sent(d, flying)
    BY <1>2 DEF Sent
  <2> HIDE DEF r, had
  <2>3. Counted(d, r, had, flying')
    BY <2>1, <2>2 DEF Placed, Counted
  <2>4. Holds(d, r, flying', results')
    <3> SUFFICES ASSUME r.handle # NoHandle
                 PROVE  /\ r.handle \notin flying'
                        /\ r.handle \in DOMAIN results' =>
                             results'[r.handle].status # "RUNNING"
      BY <2>1 DEF Placed, Holds
    <3>1. /\ r.handle = <<d, r.try>> /\ r.try \in 1..Attempts /\ r.handle \notin flying
          /\ r.handle \in DOMAIN results => results[r.handle].status # "RUNNING"
      BY <2>1 DEF Placed, Holds
    <3>2. d \in Calls \ {c}
      BY <1>2
    <3> QED
      BY <3>1, <3>2
  <2> QED
    BY <2>1, <2>3, <2>4 DEF Placed, r, had
<1>3. \A d \in Calls : Placed(d, call'[d], stored'[d], flying', results')
  BY <1>1, <1>2
<1> QED
  BY <1>1, <1>3 DEF Inv

(* The record of a call that has not got its answer yet is at no handle.   *)
LEMMA AttemptPlaced ==
  ASSUME NEW c \in Calls, NEW r, NEW copies, NEW sent, NEW entries,
         Placed(c, r, copies, sent, entries), r.at \in {"idle", "waiting"}, r.try < Attempts,
         NEW q, q = [r EXCEPT !.at = "waiting", !.try = @ + 1],
         NEW flies, flies = sent \cup {<<c, r.try + 1>>}
  PROVE  Placed(c, q, copies, flies, entries)
<1>1. r \in Fields(r) /\ r.try \in 0..Attempts /\ Attempts \in Nat
  BY DataPlatformAssumption DEF Placed, Record
<1>2. q \in Fields(q)
  BY <1>1 DEF Fields
<1>3. /\ q.ask = r.ask /\ q.at = "waiting" /\ q.try = r.try + 1 /\ q.status = r.status
      /\ q.handle = r.handle /\ q.read = r.read
  BY <1>1 DEF Fields
<1>4. q.try \in 0..Attempts
  BY <1>1, <1>3
<1>5. Record(c, q)
  BY <1>2, <1>3, <1>4 DEF Placed, Record
<1>6. Told(q, copies)
  BY <1>3 DEF Placed, Told
<1>7. Holds(c, q, flies, entries)
  BY <1>3 DEF Placed, Holds
<1>8. Counted(c, q, copies, flies)
  <2> DEFINE before == Cardinality(Sent(c, sent))
             after == Cardinality(Sent(c, flies))
  <2>1. before \in Nat /\ after \in Nat /\ after <= before + 1
    BY SentFinite, SentAnother
  <2>2. \A k \in Sent(c, flies) : k <= q.try
    <3>1. \A k \in Sent(c, flies) : k \in Sent(c, sent) \/ k = r.try + 1
      BY DEF Sent
    <3>2. \A k \in Sent(c, sent) : k \in Nat /\ k <= r.try
      BY DEF Placed, Counted, Sent
    <3> QED
      BY <1>1, <1>3, <3>1, <3>2
  <2>5. Spent(r) = r.try /\ Spent(q) = q.try
    BY <1>3 DEF Placed, Record, Spent
  <2>3. /\ DOMAIN copies = DOMAIN r.ask.rows
        /\ \A i \in DOMAIN copies : copies[i] \in Nat /\ copies[i] + before <= r.try
    BY <2>5 DEF Placed, Counted
  <2>4. \A i \in DOMAIN copies : copies[i] \in Nat /\ copies[i] + after <= q.try
    <3> HIDE DEF before, after
    <3> QED
      BY <1>1, <1>3, <2>1, <2>3
  <2> QED
    BY <1>3, <2>2, <2>3, <2>4, <2>5 DEF Counted
<1> QED
  BY <1>5, <1>6, <1>7, <1>8 DEF Placed

LEMMA RetriedPlaced ==
  ASSUME NEW c \in Calls, NEW r, NEW copies, NEW sent, NEW entries,
         Placed(c, r, copies, sent, entries), r.at = "waiting", r.try < Attempts,
         NEW flies, flies = sent \cup {<<c, r.try + 1>>}
  PROVE  Placed(c, [r EXCEPT !.try = @ + 1], copies, flies, entries)
<1> DEFINE q == [r EXCEPT !.try = @ + 1]
<1>1. r \in Fields(r)
  BY DEF Placed, Record
<1>2. q = [r EXCEPT !.at = "waiting", !.try = @ + 1]
  BY ONLY <1>1, r.at = "waiting" DEF Fields
<1> HIDE DEF q
<1>3. Placed(c, q, copies, flies, entries)
  BY <1>2, AttemptPlaced
<1> QED
  BY <1>3 DEF q

(* An answer whose call goes nowhere else; an answer of 200 to a write has  *)
(* stored all of it.                                                        *)
LEMMA DonePlaced ==
  ASSUME NEW c \in Calls, NEW r, NEW copies, NEW sent, NEW entries,
         Placed(c, r, copies, sent, entries), r.at \in {"idle", "waiting"},
         NEW status \in {200, 502, 503, 504},
         Writes(r.ask) /\ status = 200 => \A i \in DOMAIN copies : copies[i] >= 1
  PROVE  Placed(c, Done(r, status), copies, sent, entries)
<1> DEFINE q == Done(r, status)
<1>1. r \in Fields(r) /\ q = [r EXCEPT !.at = "done", !.status = status]
  BY DEF Placed, Record, Done
<1> HIDE DEF q
<1>2. q \in Fields(q)
  BY ONLY <1>1, ZenonT(60) DEF Fields
<1>3. /\ q.ask = r.ask /\ q.at = "done" /\ q.try = r.try /\ q.status = status
      /\ q.handle = r.handle /\ q.read = r.read
  BY ONLY <1>1 DEF Fields
<1>4. Record(c, q)
  BY <1>2, <1>3 DEF Placed, Record
<1>5. Told(q, copies)
  BY <1>3 DEF Placed, Told
<1>6. Counted(c, q, copies, sent)
  <2>1. Spent(q) = Spent(r)
    BY <1>3 DEF Placed, Record, Spent
  <2> QED
    BY <1>3, <2>1 DEF Placed, Counted
<1>7. Holds(c, q, sent, entries)
  BY <1>3 DEF Placed, Holds
<1> QED
  BY <1>4, <1>5, <1>6, <1>7 DEF Placed, q

(* A new attempt of c, and nothing else. *)
LEMMA AttemptInv ==
  ASSUME Inv, NEW c \in Calls, call[c].at \in {"idle", "waiting"}, call[c].try < Attempts,
         Attempt(c, call[c]), UNCHANGED <<stored, results, conn, locked, restarts>>
  PROVE  Inv'
<1> DEFINE r == call[c]
           q == [r EXCEPT !.at = "waiting", !.try = @ + 1]
<1>1. call' = [call EXCEPT ![c] = q] /\ flying' = flying \cup {<<c, r.try + 1>>}
  BY DEF Attempt, Update
<1>2. stored' = [stored EXCEPT ![c] = stored[c]]
  BY DEF Inv
<1>3. Placed(c, q, stored[c], flying', results')
  BY <1>1, AttemptPlaced DEF Inv
<1>4. Server' /\ Entries(results')
  BY DEF Inv, Server, Entries
<1>5. r.try + 1 \in 1..Attempts
  BY DataPlatformAssumption DEF Inv, Placed, Record
<1>6. flying' \subseteq Calls \X (1..Attempts)
  BY <1>1, <1>5 DEF Inv
<1> HIDE DEF q
<1> QED
  BY <1>1, <1>2, <1>3, <1>4, <1>6, StepInv DEF Inv

LEMMA WriteInv ==
  ASSUME Inv, NEW c \in Calls, Write(c)
  PROVE  Inv'
<1> DEFINE r == call[c]
<1>1. Placed(c, r, stored[c], flying, results) /\ r.at = "idle" /\ r.ask.kind = "write"
  BY DEF Inv, Write
<1>2. /\ UNCHANGED <<results, conn, locked, restarts>>
      /\ stored' = [stored EXCEPT ![c] = stored[c]]
  BY DEF Inv, Write
<1>3. Server' /\ Entries(results')
  BY <1>2 DEF Inv, Server, Entries
<1>4. CASE r.ask.operation \in WriteOperations /\ r.ask.rows # <<>>
  <2>1. Attempt(c, r)
    BY <1>4 DEF Write
  <2>2. r.try < Attempts
    BY <1>1, DataPlatformAssumption DEF Placed, Record
  <2>3. UNCHANGED <<stored, results, conn, locked, restarts>>
    BY DEF Write
  <2> QED
    BY <1>1, <2>1, <2>2, <2>3, AttemptInv
<1>5. CASE r.ask.operation \notin WriteOperations \/ r.ask.rows = <<>>
  <2>1. PICK status \in {200, 502} :
          /\ call' = [call EXCEPT ![c] = Done(r, status)] /\ flying' = flying
          /\ status = 200 => r.ask.rows = <<>>
    BY <1>5 DEF Write, Update
  <2>2. r.ask.rows = <<>> => DOMAIN stored[c] = {}
    BY <1>1 DEF Placed, Counted
  <2>3. Placed(c, Done(r, status), stored[c], flying, results)
    BY <1>1, <2>1, <2>2, DonePlaced
  <2>4. flying' \subseteq Calls \X (1..Attempts) /\ results' = results
    BY <1>2, <2>1 DEF Inv
  <2>5. Placed(c, Done(r, status), stored[c], flying', results')
    BY <2>1, <2>3, <2>4
  <2> QED
    <3>1. \A d \in Calls \ {c}, k \in 1..Attempts :
            <<d, k>> \in flying' <=> <<d, k>> \in flying
      BY ONLY <2>1
    <3>2. \A d \in Calls \ {c}, k \in 1..Attempts :
            <<d, k>> \in DOMAIN results' =>
              <<d, k>> \in DOMAIN results /\ results'[<<d, k>>] = results[<<d, k>>]
      BY ONLY <2>4
    <3> DEFINE q == Done(r, status)
    <3>3. call' = [call EXCEPT ![c] = q] /\ Placed(c, q, stored[c], flying', results')
      BY <2>1, <2>5
    <3> HIDE DEF q
    <3> QED
      BY <1>2, <1>3, <2>4, <3>1, <3>2, <3>3, StepInv, ZenonT(60)
<1> QED
  BY <1>4, <1>5

LEMMA QueryInv ==
  ASSUME Inv, NEW c \in Calls, Query(c)
  PROVE  Inv'
<1>1. call[c].at = "idle" /\ Attempt(c, call[c])
      /\ UNCHANGED <<stored, results, conn, locked, restarts>>
  BY DEF Query
<1>2. call[c].try < Attempts
  BY <1>1, DataPlatformAssumption DEF Inv, Placed, Record
<1> QED
  BY <1>1, <1>2, AttemptInv

LEMMA TimeOutInv ==
  ASSUME Inv, NEW c \in Calls, TimeOut(c)
  PROVE  Inv'
<1> DEFINE r == call[c]
<1>1. /\ r.at = "waiting" /\ FailedAttempt(c, 504)
      /\ UNCHANGED <<stored, results, conn, locked, restarts>>
  BY DEF TimeOut
<1>2. CASE r.try < Attempts
  <2>1. Attempt(c, r)
    BY <1>1, <1>2 DEF FailedAttempt
  <2> QED
    BY <1>1, <1>2, <2>1, AttemptInv
<1>3. CASE ~(r.try < Attempts)
  <2>1. /\ call' = [call EXCEPT ![c] = Done(r, 504)] /\ UNCHANGED <<flying, results>>
        /\ stored' = [stored EXCEPT ![c] = stored[c]]
    BY <1>1, <1>3 DEF FailedAttempt, Update, Inv
  <2>2. Placed(c, Done(r, 504), stored[c], flying, results)
    BY <1>1, DonePlaced DEF Inv
  <2>3. Placed(c, Done(r, 504), stored[c], flying', results')
    BY <2>1, <2>2
  <2>4. Server' /\ Entries(results') /\ flying' \subseteq Calls \X (1..Attempts)
    BY <1>1, <2>1 DEF Inv, Server, Entries
  <2> QED
    BY <2>1, <2>3, <2>4, StepInv
<1> QED
  BY <1>2, <1>3

(* Each row is stored once more or not. *)
Gained(r, had, copies) ==
  /\ DOMAIN copies = DOMAIN had
  /\ \A i \in DOMAIN copies : copies[i] \in {had[i], had[i] + 1}
  /\ r.ask.operation \notin WriteOperations => copies = had

(* Only the entry of attempt k of c is new. *)
Kept(c, k, known, entries) ==
  \A h \in DOMAIN entries \ {<<c, k>>} : h \in DOMAIN known /\ entries[h] = known[h]

(* An answer the client may take as the last one. *)
Answer(c, k, r, record, copies, entries) ==
  /\ record \in Fields(record) /\ record.ask = r.ask /\ record.try = r.try
  /\ record.at = "done" /\ record.status \in {200, 400} /\ Told(record, copies)
  /\ \/ record.handle = r.handle
     \/ /\ record.handle = <<c, k>> /\ ~Writes(r.ask)
        /\ <<c, k>> \in DOMAIN entries => entries[<<c, k>>].status # "RUNNING"

(* What Hears does to the record r of c and to the attempts sent. *)
Heeds(c, k, status, record, r, q, sent, flies) ==
  \/ /\ r.at = "waiting" /\ r.try = k /\ status >= 500 /\ r.try < Attempts
     /\ q = [r EXCEPT !.try = @ + 1] /\ flies = (sent \ {<<c, k>>}) \cup {<<c, r.try + 1>>}
  \/ /\ r.at = "waiting" /\ r.try = k /\ status >= 500
     /\ q = Done(r, 503) /\ flies = sent \ {<<c, k>>}
  \/ /\ r.at = "waiting" /\ r.try = k /\ status < 500
     /\ q = record /\ flies = sent \ {<<c, k>>}
  \/ q = r /\ flies = sent \ {<<c, k>>}

(* What the client makes of the answer, when the server has stored `copies` *)
(* and keeps `entries`.                                                     *)
LEMMA HeedsPlaced ==
  ASSUME NEW c \in Calls, NEW k \in 1..Attempts, NEW r, NEW had, NEW sent, NEW known,
         Placed(c, r, had, sent, known), <<c, k>> \in sent,
         NEW copies, Gained(r, had, copies), NEW entries, Kept(c, k, known, entries),
         NEW status \in {200, 400, 500, 502}, NEW record,
         status < 500 => /\ Answer(c, k, r, record, copies, entries)
                         /\ (record.status = 200 \/ copies = had),
         NEW q, NEW flies, Heeds(c, k, status, record, r, q, sent, flies)
  PROVE  Placed(c, q, copies, flies, entries)
<1> DEFINE left == sent \ {<<c, k>>}
<1>2. /\ r \in Fields(r) /\ r.try \in 0..Attempts /\ k <= r.try /\ k \in 1..Attempts
      /\ r.ask \in Asks[c] /\ Attempts \in Nat
  BY DataPlatformAssumption DEF Placed, Record, Counted, Sent
<1>3. Told(r, had) => Told(r, copies)
  <2>1. ASSUME NEW i \in DOMAIN copies PROVE had[i] \in Nat /\ copies[i] >= had[i]
    BY <2>1 DEF Placed, Counted, Gained
  <2> QED
    BY <2>1 DEF Told, Gained
<1>12. Spent(r) \in Int
  BY <1>2 DEF Spent
<1>4. ASSUME NEW o, o.ask = r.ask, o.try = r.try,
             Spent(o) = Spent(r) \/ (copies = had /\ Spent(o) = Spent(r) - 1)
      PROVE  Counted(c, o, copies, left)
  <2> DEFINE before == Cardinality(Sent(c, sent))
             after == Cardinality(Sent(c, left))
  <2>1. after = before - 1 /\ before \in Nat
    BY SentServed, SentFinite
  <2>2. \A j \in Sent(c, left) : j <= o.try
    BY <1>4 DEF Placed, Counted, Sent
  <2>3. /\ DOMAIN copies = DOMAIN r.ask.rows
        /\ \A i \in DOMAIN copies : had[i] \in Nat /\ had[i] + before <= Spent(r)
    BY DEF Placed, Counted, Gained
  <2>4. \A i \in DOMAIN copies : copies[i] \in Nat /\ copies[i] + after <= Spent(o)
    <3> HIDE DEF before, after, left
    <3>1. CASE Spent(o) = Spent(r)
      BY <1>12, <2>1, <2>3, <3>1 DEF Gained
    <3>2. CASE copies = had /\ Spent(o) = Spent(r) - 1
      BY <1>12, <2>1, <2>3, <3>2
    <3> QED
      BY <1>4, <3>1, <3>2
  <2> QED
    BY <1>4, <2>2, <2>3, <2>4, ZenonT(60) DEF Counted
<1>5. Holds(c, r, left, entries)
  <2> SUFFICES ASSUME r.handle # NoHandle
               PROVE  r.handle \in DOMAIN entries => entries[r.handle].status # "RUNNING"
    BY DEF Placed, Holds
  <2>1. /\ r.handle \notin sent
        /\ r.handle \in DOMAIN known => known[r.handle].status # "RUNNING"
    BY DEF Placed, Holds
  <2> QED
    BY <2>1 DEF Kept
<1>6. Placed(c, r, copies, left, entries)
  <2>1. Counted(c, r, copies, left)
    BY <1>4
  <2> QED
    BY <1>3, <1>5, <2>1 DEF Placed
<1>7. CASE q = r /\ flies = left
  BY <1>6, <1>7
<1>8. ASSUME r.at = "waiting" PROVE r.handle = NoHandle
  BY <1>8 DEF Placed, Holds
<1>9. CASE /\ r.at = "waiting" /\ r.try < Attempts
           /\ q = [r EXCEPT !.try = @ + 1] /\ flies = left \cup {<<c, r.try + 1>>}
  <2> HIDE DEF left
  <2> QED
    BY <1>6, <1>9, RetriedPlaced
<1>10. CASE r.at = "waiting" /\ q = Done(r, 503) /\ flies = left
  BY <1>6, <1>10, DonePlaced
<1>11. CASE r.at = "waiting" /\ r.try = k /\ status < 500 /\ q = record /\ flies = left
  <2>1. /\ record \in Fields(record) /\ record.ask = r.ask /\ record.try = r.try
        /\ record.at = "done" /\ record.status \in {200, 400} /\ Told(record, copies)
    BY <1>11 DEF Answer
  <2>2. Record(c, record)
    BY <1>2, <2>1 DEF Record
  <2>3. Counted(c, record, copies, left)
    <3>1. Spent(r) = r.try
      BY <1>11 DEF Placed, Record, Spent
    <3>2. Spent(record) = r.try \/ (record.status # 200 /\ Spent(record) = r.try - 1)
      BY <2>1 DEF Spent
    <3>3. Spent(record) = Spent(r) \/ (copies = had /\ Spent(record) = Spent(r) - 1)
      BY <1>11, <3>1, <3>2
    <3> QED
      BY ONLY <1>4, <2>1, <3>3, ZenonT(60)
  <2>4. Holds(c, record, left, entries)
    <3>1. CASE record.handle = r.handle
      BY <1>8, <1>11, <3>1 DEF Holds
    <3>2. CASE /\ record.handle = <<c, k>> /\ ~Writes(r.ask)
               /\ <<c, k>> \in DOMAIN entries => entries[<<c, k>>].status # "RUNNING"
      BY <1>2, <1>11, <2>1, <3>2 DEF Holds
    <3> QED
      BY <1>11, <3>1, <3>2 DEF Answer
  <2>5. Placed(c, record, copies, left, entries)
    BY <2>1, <2>2, <2>3, <2>4 DEF Placed
  <2> QED
    BY <1>11, <2>5
<1> QED
  BY <1>7, <1>9, <1>10, <1>11 DEF Heeds

(* Attempt k of c is served: what the call, the store, the attempts and the *)
(* entries become, for some answer.                                         *)
Serves(c, k, r, q, had, copies, sent, flies, known, entries) ==
  /\ <<c, k>> \in sent /\ Gained(r, had, copies) /\ Kept(c, k, known, entries)
  /\ \E status \in {200, 400, 500, 502} : \E record :
       /\ status < 500 => /\ Answer(c, k, r, record, copies, entries)
                          /\ (record.status = 200 \/ copies = had)
       /\ Heeds(c, k, status, record, r, q, sent, flies)

LEMMA ServedInv ==
  ASSUME Inv, NEW c \in Calls, NEW k \in 1..Attempts, NEW q, NEW copies,
         Serves(c, k, call[c], q, stored[c], copies, flying, flying', results, results'),
         call' = [call EXCEPT ![c] = q], stored' = [stored EXCEPT ![c] = copies],
         Entries(results'), Server'
  PROVE  Inv'
<1>0. PICK status \in {200, 400, 500, 502} : \E record :
        /\ status < 500 => /\ Answer(c, k, call[c], record, copies, results')
                           /\ (record.status = 200 \/ copies = stored[c])
        /\ Heeds(c, k, status, record, call[c], q, flying, flying')
  BY DEF Serves
<1>1. PICK record :
        /\ status < 500 => /\ Answer(c, k, call[c], record, copies, results')
                           /\ (record.status = 200 \/ copies = stored[c])
        /\ Heeds(c, k, status, record, call[c], q, flying, flying')
  BY <1>0
<1>2. /\ Placed(c, call[c], stored[c], flying, results) /\ <<c, k>> \in flying
      /\ Gained(call[c], stored[c], copies) /\ Kept(c, k, results, results')
  BY DEF Inv, Serves
<1>3. Placed(c, q, copies, flying', results')
  BY <1>1, <1>2, HeedsPlaced
<1>4. /\ flying' \subseteq Calls \X (1..Attempts)
      /\ \A d \in Calls \ {c}, j \in 1..Attempts : <<d, j>> \in flying' <=> <<d, j>> \in flying
  <2>1. call[c].try \in 0..Attempts
    BY <1>2 DEF Placed, Record
  <2>2. \/ flying' = flying \ {<<c, k>>}
        \/ /\ flying' = (flying \ {<<c, k>>}) \cup {<<c, call[c].try + 1>>}
           /\ call[c].try < Attempts
    BY <1>1 DEF Heeds
  <2>3. call[c].try < Attempts => call[c].try + 1 \in 1..Attempts
    BY <2>1, DataPlatformAssumption
  <2> QED
    BY <2>2, <2>3 DEF Inv
<1>5. \A d \in Calls \ {c}, j \in 1..Attempts :
        <<d, j>> \in DOMAIN results' =>
          <<d, j>> \in DOMAIN results /\ results'[<<d, j>>] = results[<<d, j>>]
  BY <1>2 DEF Kept
<1> QED
  BY <1>3, <1>4, <1>5, StepInv, ZenonT(60)

LEMMA OpenServer ==
  ASSUME Server, Open \/ UNCHANGED conn, UNCHANGED <<locked, restarts>>
  PROVE  Server'
<1>1. conn' \in BOOLEAN
  BY DEF Open, Server
<1> QED
  BY <1>1 DEF Server

LEMMA ExecuteTypes ==
  ASSUME NEW a, a.bound \in BOOLEAN
  PROVE  Execute(a) \in {0, 500, 502}
<1>1. CASE ~a.bound
  BY <1>1 DEF Execute
<1>2. CASE a.bound /\ ~Shared
  BY <1>2 DEF Execute
<1>3. CASE a.bound /\ Shared
  BY <1>3 DEF Execute
<1> QED
  BY <1>1, <1>2, <1>3

(* The record of an answer, and what a query or a handle adds to it.       *)
Ends(q, r, status, handle) ==
  /\ q \in Fields(q) /\ q.ask = r.ask /\ q.try = r.try /\ q.at = "done"
  /\ q.status = status /\ q.handle = handle

LEMMA DoneRecord ==
  ASSUME NEW c, NEW r, Record(c, r), NEW status, NEW read, NEW handle
  PROVE  /\ Ends(Done(r, status), r, status, r.handle)
         /\ Ends([Done(r, status) EXCEPT !.read = read], r, status, r.handle)
         /\ Ends([Done(r, status) EXCEPT !.handle = handle], r, status, handle)
<1> DEFINE d == Done(r, status)
           reads == [d EXCEPT !.read = read]
           holds == [d EXCEPT !.handle = handle]
<1>1. r \in Fields(r) /\ d = [r EXCEPT !.at = "done", !.status = status]
  BY DEF Record, Done
<1> HIDE DEF d
<1>2. d \in Fields(d)
  BY ONLY <1>1 DEF Fields
<1>3. /\ d.ask = r.ask /\ d.try = r.try /\ d.at = "done"
      /\ d.status = status /\ d.handle = r.handle
  BY ONLY <1>1 DEF Fields
<1>4. reads \in Fields(reads) /\ holds \in Fields(holds)
  BY ONLY <1>2 DEF Fields
<1>5. /\ reads.ask = d.ask /\ reads.try = d.try /\ reads.at = d.at
      /\ reads.status = d.status /\ reads.handle = d.handle
  BY ONLY <1>2 DEF Fields
<1>6. /\ holds.ask = d.ask /\ holds.try = d.try /\ holds.at = d.at
      /\ holds.status = d.status /\ holds.handle = handle
  BY ONLY <1>2 DEF Fields
<1>7. Ends(d, r, status, r.handle)
  BY ONLY <1>2, <1>3 DEF Ends
<1> HIDE DEF reads, holds
<1>8. Ends(reads, r, status, r.handle)
  BY ONLY <1>3, <1>4, <1>5 DEF Ends
<1>9. Ends(holds, r, status, handle)
  BY ONLY <1>3, <1>4, <1>6 DEF Ends
<1> QED
  BY ONLY <1>7, <1>8, <1>9 DEF d, reads, holds

(* What a server that stores nothing leaves. *)
LEMMA Nothing ==
  ASSUME Inv, NEW c \in Calls, NEW k
  PROVE  /\ Gained(call[c], stored[c], stored[c]) /\ Kept(c, k, results, results)
         /\ stored = [stored EXCEPT ![c] = stored[c]]
<1>1. \A i \in DOMAIN stored[c] : stored[c][i] \in {stored[c][i], stored[c][i] + 1}
  OBVIOUS
<1>2. stored = [stored EXCEPT ![c] = stored[c]]
  BY DEF Inv
<1> QED
  BY <1>1, <1>2 DEF Gained, Kept

(* The answer to a read or a health check promises nothing of the store; a  *)
(* handle is given out for an entry that has ended.                         *)
LEMMA ReadAnswer ==
  ASSUME NEW c, NEW r, NEW had, Told(r, had), ~Writes(r.ask), NEW k,
         NEW status \in {200, 400}, NEW entries, NEW q,
         \/ Ends(q, r, status, r.handle)
         \/ /\ Ends(q, r, status, <<c, k>>)
            /\ <<c, k>> \in DOMAIN entries => entries[<<c, k>>].status # "RUNNING"
  PROVE  Answer(c, k, r, q, had, entries)
<1>1. q.ask = r.ask
  BY DEF Ends
<1>2. Told(q, had)
  BY <1>1 DEF Told
<1> QED
  BY <1>2 DEF Ends, Answer

LEMMA HandleKept ==
  ASSUME NEW c, NEW r, NEW had, Told(r, had), ~Writes(r.ask), NEW k,
         NEW status \in {200, 400}, NEW entries, NEW q, Ends(q, r, status, r.handle)
  PROVE  Answer(c, k, r, q, had, entries)
BY ReadAnswer, ZenonT(60)

LEMMA LimitedInv ==
  ASSUME Inv, NEW c \in Calls, NEW k \in 1..Attempts, <<c, k>> \in flying,
         Limited(c, k), UNCHANGED <<locked, restarts>>
  PROVE  Inv'
<1> DEFINE r == call[c]
           q == Done(r, 400)
<1>1. Record(c, r) /\ Told(r, stored[c])
  BY DEF Inv, Placed
<1>2. stored' = stored /\ results' = results /\ Entries(results') /\ conn' = conn
  BY DEF Limited, Inv, Entries
<1>3. /\ Gained(r, stored[c], stored[c]) /\ Kept(c, k, results, results')
      /\ stored' = [stored EXCEPT ![c] = stored[c]]
  BY <1>2, Nothing
<1>4. Server'
  BY <1>2, OpenServer DEF Inv
<1>5. PICK o : /\ call' = [call EXCEPT ![c] = o]
                /\ Heeds(c, k, 400, q, r, o, flying, flying')
  BY DEF Limited, Hears, Heeds, Update, Inv
<1>6. Ends(q, r, 400, r.handle)
  BY <1>1, DoneRecord, ZenonT(60)
<1> HIDE DEF q
<1>7. Told(q, stored[c])
  BY <1>1, <1>6 DEF Told, Ends
<1>8. Answer(c, k, r, q, stored[c], results')
  BY <1>6, <1>7 DEF Ends, Answer
<1>9. Serves(c, k, r, o, stored[c], stored[c], flying, flying', results, results')
  BY <1>3, <1>5, <1>8 DEF Serves
<1> QED
  BY <1>2, <1>3, <1>4, <1>5, <1>9, ServedInv

LEMMA SubmitSyncInv ==
  ASSUME Inv, NEW c \in Calls, NEW k \in 1..Attempts, <<c, k>> \in flying,
         SubmitSync(c, k), UNCHANGED <<locked, restarts>>
  PROVE  Inv'
<1> DEFINE r == call[c]
           ask == r.ask
           read == Rows(ask.column)
           status == IF Execute(ask) = 0 THEN 200 ELSE Execute(ask)
<1>1. /\ ask \in Asks[c] /\ ask.kind = "query" /\ ~Writes(ask) /\ Record(c, r)
      /\ Told(r, stored[c])
  BY DEF Inv, Placed, Record, SubmitSync, Writes
<1>2. stored' = stored /\ results' = results /\ Entries(results')
  BY DEF SubmitSync, Inv, Entries
<1>3. /\ Gained(r, stored[c], stored[c]) /\ Kept(c, k, results, results')
      /\ stored' = [stored EXCEPT ![c] = stored[c]]
  BY <1>2, Nothing
<1>4. Server'
  BY OpenServer DEF SubmitSync, Opened, Inv
<1>5. CASE ~Validate(ask)
  <2> DEFINE q == Done(r, 400)
  <2>1. PICK o : /\ call' = [call EXCEPT ![c] = o]
                  /\ Heeds(c, k, 400, q, r, o, flying, flying')
    BY <1>5 DEF SubmitSync, Hears, Heeds, Update, Inv
  <2>2. Ends(q, r, 400, r.handle)
    BY <1>1, DoneRecord, ZenonT(60)
  <2> HIDE DEF q
  <2>3. Answer(c, k, r, q, stored[c], results')
    <3>1. Told(q, stored[c])
      BY <1>1, <2>2 DEF Told, Ends
    <3> QED
      BY <2>2, <3>1 DEF Ends, Answer
  <2>9. Serves(c, k, r, o, stored[c], stored[c], flying, flying', results, results')
    BY <1>3, <2>1, <2>3 DEF Serves
  <2> QED
    BY <1>2, <1>3, <1>4, <2>1, <2>9, ServedInv
<1>6. CASE Validate(ask)
  <2> DEFINE q == [Done(r, 200) EXCEPT !.read = read]
  <2>1. PICK o : /\ call' = [call EXCEPT ![c] = o]
                  /\ Heeds(c, k, status, q, r, o, flying, flying')
    <3>1. Hears(c, k, status, q) /\ status \in {200, 400, 500, 502}
      BY <1>1, <1>6, AskTypes, ExecuteTypes DEF SubmitSync
    <3> HIDE DEF status, q
    <3> QED
      BY <3>1 DEF Hears, Heeds, Update, Inv
  <2>2. status \in {200, 400, 500, 502}
    BY <1>1, AskTypes, ExecuteTypes
  <2> HIDE DEF read, status
  <2>3. Ends(q, r, 200, r.handle)
    BY <1>1, DoneRecord
  <2> HIDE DEF q
  <2>4. Answer(c, k, r, q, stored[c], results')
    <3>1. 200 \in {200, 400}
      OBVIOUS
    <3> QED
      BY <1>1, <2>3, <3>1, HandleKept
  <2>9. Serves(c, k, r, o, stored[c], stored[c], flying, flying', results, results')
    BY <1>3, <2>1, <2>2, <2>4 DEF Serves
  <2> QED
    BY <1>2, <1>3, <1>4, <2>1, <2>9, ServedInv
<1> QED
  BY <1>5, <1>6

LEMMA HealthInv ==
  ASSUME Inv, NEW c \in Calls, NEW k \in 1..Attempts, <<c, k>> \in flying,
         Health(c, k), UNCHANGED <<locked, restarts>>
  PROVE  Inv'
<1> DEFINE r == call[c]
           status == IF Shared THEN 200 ELSE 502
           q == Done(r, 200)
<1>1. ~Writes(r.ask) /\ Record(c, r) /\ Told(r, stored[c])
  BY DEF Inv, Placed, Health, Writes
<1>2. stored' = stored /\ results' = results /\ Entries(results')
  BY DEF Health, Inv, Entries
<1>3. /\ Gained(r, stored[c], stored[c]) /\ Kept(c, k, results, results')
      /\ stored' = [stored EXCEPT ![c] = stored[c]]
  BY <1>2, Nothing
<1>4. Server'
  BY OpenServer DEF Health, Inv
<1>5. PICK o : /\ call' = [call EXCEPT ![c] = o]
                /\ Heeds(c, k, status, q, r, o, flying, flying')
  <2>1. Hears(c, k, status, q) /\ status \in {200, 400, 500, 502}
    BY DEF Health
  <2> HIDE DEF status, q
  <2> QED
    BY <2>1 DEF Hears, Heeds, Update, Inv
<1>6. status \in {200, 400, 500, 502}
  OBVIOUS
<1>7. Ends(q, r, 200, r.handle)
  BY <1>1, DoneRecord
<1> HIDE DEF q, status
<1>8. Answer(c, k, r, q, stored[c], results')
  <2>1. 200 \in {200, 400}
    OBVIOUS
  <2> QED
    BY <1>1, <1>7, <2>1, HandleKept
<1>9. Serves(c, k, r, o, stored[c], stored[c], flying, flying', results, results')
  BY <1>3, <1>5, <1>6, <1>8 DEF Serves
<1> QED
  BY <1>2, <1>3, <1>4, <1>5, <1>9, ServedInv

(* An entry says RUNNING only when its handle is not told.                 *)
LEMMA EntryTypes ==
  ASSUME NEW a, a.bound \in BOOLEAN
  PROVE  /\ Entry(a).status \in {"RUNNING", "SUCCEEDED", "FAILED"}
         /\ Execute(a) # 500 => Entry(a).status # "RUNNING"
BY ExecuteTypes DEF Entry

LEMMA SubmitAsyncInv ==
  ASSUME Inv, NEW c \in Calls, NEW k \in 1..Attempts, <<c, k>> \in flying,
         SubmitAsync(c, k), UNCHANGED <<locked, restarts>>
  PROVE  Inv'
<1> DEFINE r == call[c]
           ask == r.ask
           h == <<c, k>>
           status == IF Execute(ask) = 500 THEN 500 ELSE 200
<1>1. /\ ask \in Asks[c] /\ ask.kind = "submit" /\ ~Writes(ask) /\ Record(c, r)
      /\ Told(r, stored[c])
  BY DEF Inv, Placed, Record, SubmitAsync, Writes
<1>2. ask.bound \in BOOLEAN
  BY <1>1, AskTypes
<1>3. /\ Gained(r, stored[c], stored[c]) /\ Kept(c, k, results, results)
      /\ stored' = [stored EXCEPT ![c] = stored[c]]
  BY Nothing DEF SubmitAsync
<1>4. Server'
  BY OpenServer DEF SubmitAsync, Opened, Inv
<1>5. CASE ~Validate(ask)
  <2> DEFINE q == Done(r, 400)
  <2>1. PICK o : /\ call' = [call EXCEPT ![c] = o]
                  /\ Heeds(c, k, 400, q, r, o, flying, flying')
    BY <1>5 DEF SubmitAsync, Hears, Heeds, Update, Inv
  <2>2. Ends(q, r, 400, r.handle)
    BY <1>1, DoneRecord, ZenonT(60)
  <2>3. results' = results
    BY <1>5 DEF SubmitAsync
  <2> HIDE DEF q
  <2>4. Answer(c, k, r, q, stored[c], results')
    <3>1. 400 \in {200, 400}
      OBVIOUS
    <3> QED
      BY <1>1, <2>2, <3>1, HandleKept
  <2>5. Entries(results') /\ Kept(c, k, results, results')
    BY <1>3, <2>3 DEF Inv, Entries
  <2>9. Serves(c, k, r, o, stored[c], stored[c], flying, flying', results, results')
    BY <1>3, <2>1, <2>4, <2>5 DEF Serves
  <2> QED
    BY <1>3, <1>4, <2>1, <2>5, <2>9, ServedInv
<1>6. CASE Validate(ask)
  <2> DEFINE q == [Done(r, 200) EXCEPT !.handle = h]
             entries == [g \in DOMAIN results \cup {h} |->
                           IF g = h THEN Entry(ask) ELSE results[g]]
  <2>1. PICK o : /\ call' = [call EXCEPT ![c] = o]
                  /\ Heeds(c, k, status, q, r, o, flying, flying')
    <3>1. Hears(c, k, status, q) /\ status \in {200, 400, 500, 502}
      BY <1>6 DEF SubmitAsync
    <3> HIDE DEF status, q
    <3> QED
      BY <3>1 DEF Hears, Heeds, Update, Inv
  <2>2. status \in {200, 400, 500, 502} /\ h \in Calls \X (1..Attempts)
    OBVIOUS
  <2>3. /\ DOMAIN entries = DOMAIN results \cup {h} /\ entries[h] = Entry(ask)
        /\ \A g \in DOMAIN results \ {h} : entries[g] = results[g]
    BY Zenon
  <2>4. entries = results'
    BY <1>6 DEF SubmitAsync
  <2> HIDE DEF entries
  <2>5. Kept(c, k, results, results')
    BY <2>3, <2>4 DEF Kept
  <2>6. Entries(entries)
    <3>1. DOMAIN entries \subseteq Calls \X (1..Attempts)
      BY <2>2, <2>3 DEF Inv, Entries
    <3>2. ASSUME NEW g \in DOMAIN entries
          PROVE  entries[g].status \in {"RUNNING", "SUCCEEDED", "FAILED"}
      <4>1. CASE g = h
        BY <1>2, <2>3, <4>1, EntryTypes
      <4>2. CASE g # h
        BY <2>3, <4>2 DEF Inv, Entries
      <4> QED
        BY <4>1, <4>2
    <3> QED
      BY <3>1, <3>2 DEF Entries
  <2>7. Entries(results')
    BY <2>4, <2>6
  <2>8. ASSUME status < 500 PROVE Answer(c, k, r, q, stored[c], results')
    <3>1. results'[h].status # "RUNNING"
      BY <1>2, <2>3, <2>4, <2>8, EntryTypes
    <3> HIDE DEF h
    <3>2. Ends(q, r, 200, h)
      BY <1>1, DoneRecord, ZenonT(60)
    <3> HIDE DEF q
    <3> QED
      BY <1>1, <3>1, <3>2, ReadAnswer DEF h
  <2> HIDE DEF q, status
  <2>9. Serves(c, k, r, o, stored[c], stored[c], flying, flying', results, results')
    BY <1>3, <2>1, <2>2, <2>5, <2>8 DEF Serves
  <2> QED
    BY <1>3, <1>4, <2>1, <2>7, <2>9, ServedInv
<1> QED
  BY <1>5, <1>6

(* The first n rows of a batch are committed. *)
LEMMA CommittedGains ==
  ASSUME Inv, NEW c \in Calls, NEW n, Committed(c, n),
         call[c].ask.operation \in WriteOperations
  PROVE  \E copies :
           /\ Gained(call[c], stored[c], copies) /\ stored' = [stored EXCEPT ![c] = copies]
           /\ n = Len(call[c].ask.rows) => \A i \in DOMAIN copies : copies[i] >= 1
<1> DEFINE had == stored[c]
           copies == [i \in DOMAIN had |-> IF i <= n THEN had[i] + 1 ELSE had[i]]
<1>1. stored' = [stored EXCEPT ![c] = copies]
  BY DEF Committed, Inv
<1>2. Placed(c, call[c], had, flying, results)
  BY DEF Inv
<1>3. /\ \A i \in DOMAIN had : had[i] \in Nat
      /\ DOMAIN had = 1..Len(call[c].ask.rows) /\ Len(call[c].ask.rows) \in Nat
  BY <1>2, AskTypes DEF Placed, Counted, Record
<1> HIDE DEF had
<1>4. /\ DOMAIN copies = DOMAIN had
      /\ \A i \in DOMAIN copies : copies[i] = IF i <= n THEN had[i] + 1 ELSE had[i]
  OBVIOUS
<1> HIDE DEF copies
<1>5. n = Len(call[c].ask.rows) => \A i \in DOMAIN copies : copies[i] >= 1
  BY <1>3, <1>4
<1>6. Gained(call[c], had, copies)
  BY <1>4 DEF Gained
<1> QED
  BY <1>1, <1>5, <1>6 DEF had

LEMMA InternalWriteInv ==
  ASSUME Inv, NEW c \in Calls, NEW k \in 1..Attempts, <<c, k>> \in flying,
         InternalWrite(c, k), UNCHANGED <<locked, restarts>>
  PROVE  Inv'
<1> DEFINE r == call[c]
           ask == r.ask
<1>1. /\ ask.kind \in {"write", "raw"} /\ Record(c, r) /\ Told(r, stored[c])
      /\ r.ask \in Asks[c] /\ Writes(r.ask)
  BY DEF Inv, Placed, Record, InternalWrite, Writes
<1>2. results' = results /\ Entries(results') /\ Kept(c, k, results, results')
  BY DEF InternalWrite, Inv, Entries, Kept
<1>3. Server'
  BY OpenServer DEF InternalWrite, Inv
<1>4. ASSUME ask.operation \notin WriteOperations, UNCHANGED stored,
             Hears(c, k, 400, Done(r, 400))
      PROVE  Inv'
  <2> DEFINE q == Done(r, 400)
  <2>1. PICK o : /\ call' = [call EXCEPT ![c] = o]
                  /\ Heeds(c, k, 400, q, r, o, flying, flying')
    BY <1>4 DEF Hears, Heeds, Update, Inv
  <2>2. Ends(q, r, 400, r.handle)
    BY <1>1, DoneRecord, ZenonT(60)
  <2> HIDE DEF q
  <2>3. Told(q, stored[c])
    BY <1>1, <1>4, <2>2 DEF Told, Ends
  <2>4. Answer(c, k, r, q, stored[c], results')
    BY <2>2, <2>3 DEF Ends, Answer
  <2>5. Gained(r, stored[c], stored[c]) /\ stored' = [stored EXCEPT ![c] = stored[c]]
    BY <1>4, Nothing
  <2>9. Serves(c, k, r, o, stored[c], stored[c], flying, flying', results, results')
    BY <1>2, <2>1, <2>4, <2>5 DEF Serves
  <2> QED
    BY <1>2, <1>3, <2>1, <2>5, <2>9, ServedInv
<1>5. ASSUME ask.operation \in WriteOperations, Committed(c, Len(ask.rows)),
             Hears(c, k, 200, Done(r, 200))
      PROVE  Inv'
  <2> DEFINE q == Done(r, 200)
  <2>1. PICK o : /\ call' = [call EXCEPT ![c] = o]
                  /\ Heeds(c, k, 200, q, r, o, flying, flying')
    BY <1>5 DEF Hears, Heeds, Update, Inv
  <2>2. Ends(q, r, 200, r.handle)
    BY <1>1, DoneRecord
  <2>3. PICK copies : /\ Gained(r, stored[c], copies)
                      /\ stored' = [stored EXCEPT ![c] = copies]
                      /\ \A i \in DOMAIN copies : copies[i] >= 1
    <3>1. PICK n : n = Len(ask.rows) /\ Committed(c, n)
      BY <1>5 DEF Committed
    <3> QED
      BY <1>5, <3>1, CommittedGains
  <2> HIDE DEF q
  <2>4. Told(q, copies)
    BY <1>5, <2>2, <2>3 DEF Told, Ends
  <2>5. Answer(c, k, r, q, copies, results')
    BY <2>2, <2>4 DEF Ends, Answer
  <2>9. Serves(c, k, r, o, stored[c], copies, flying, flying', results, results')
    BY <1>2, <2>1, <2>2, <2>3, <2>5 DEF Serves, Ends
  <2> QED
    BY <1>2, <1>3, <2>1, <2>3, <2>9, ServedInv
<1>6. ASSUME ask.operation \in WriteOperations,
             (\E n \in 0..(Len(ask.rows) - 1) : Committed(c, n)) \/ UNCHANGED stored,
             Hears(c, k, 502, r)
      PROVE  Inv'
  <2>1. PICK copies : Gained(r, stored[c], copies) /\ stored' = [stored EXCEPT ![c] = copies]
    <3>1. CASE \E n \in 0..(Len(ask.rows) - 1) : Committed(c, n)
      BY <1>6, <3>1, CommittedGains
    <3>2. CASE UNCHANGED stored
      BY <3>2, Nothing
    <3> QED
      BY <1>6, <3>1, <3>2
  <2>2. PICK o : /\ call' = [call EXCEPT ![c] = o]
                  /\ Heeds(c, k, 502, r, r, o, flying, flying')
    BY <1>6 DEF Hears, Heeds, Update, Inv
  <2>9. Serves(c, k, r, o, stored[c], copies, flying, flying', results, results')
    BY <1>2, <2>1, <2>2 DEF Serves
  <2> QED
    BY <1>2, <1>3, <2>1, <2>2, <2>9, ServedInv
<1> QED
  BY <1>4, <1>5, <1>6 DEF InternalWrite

LEMMA ServeInv ==
  ASSUME Inv, NEW c \in Calls, NEW k \in 1..Attempts, Serve(c, k)
  PROVE  Inv'
BY LimitedInv, SubmitSyncInv, SubmitAsyncInv, InternalWriteInv, HealthInv DEF Serve

(* What a poll that got an answer leaves. *)
PollTold(r, status) == [r EXCEPT !.at = "polled", !.status = status]
PollRead(r, read) == [r EXCEPT !.at = "polled", !.read = read]

Polled(q, r, status) ==
  /\ q \in Fields(q) /\ q.ask = r.ask /\ q.at \in {r.at, "polled"} /\ q.try = r.try
  /\ q.status = status /\ q.handle = r.handle

LEMMA PollRecord ==
  ASSUME NEW r, r \in Fields(r), NEW status, NEW read
  PROVE  /\ Polled(r, r, r.status)
         /\ Polled(PollTold(r, status), r, status)
         /\ Polled(PollRead(r, read), r, r.status)
<1> DEFINE told == PollTold(r, status)
           reads == PollRead(r, read)
<1>1. /\ told = [r EXCEPT !.at = "polled", !.status = status]
      /\ reads = [r EXCEPT !.at = "polled", !.read = read]
  BY DEF PollTold, PollRead
<1> HIDE DEF told, reads
<1>2. /\ told \in Fields(told) /\ told.ask = r.ask /\ told.at = "polled"
      /\ told.try = r.try /\ told.status = status /\ told.handle = r.handle
  BY ONLY <1>1, r \in Fields(r) DEF Fields
<1>3. /\ reads \in Fields(reads) /\ reads.ask = r.ask /\ reads.at = "polled"
      /\ reads.try = r.try /\ reads.status = r.status /\ reads.handle = r.handle
  BY ONLY <1>1, r \in Fields(r) DEF Fields
<1> QED
  BY <1>2, <1>3 DEF Polled, told, reads

(* A poll changes only what its call has read and heard. *)
LEMMA PollInv ==
  ASSUME Inv, NEW c \in Calls, Poll(c)
  PROVE  Inv'
<1> DEFINE r == call[c]
           h == r.handle
<1>1. /\ Placed(c, r, stored[c], flying, results) /\ r.at = "done" /\ h # NoHandle
      /\ UNCHANGED <<flying, stored, results, conn, locked, restarts>>
  BY DEF Inv, Poll
<1>2. PICK q : /\ call' = [call EXCEPT ![c] = q]
                /\ \/ q = r \/ q = PollTold(r, 400) \/ q = PollTold(r, 502)
                   \/ q = PollRead(r, results[h].read)
  <2> DEFINE q1 == PollTold(r, 400)
             q2 == PollTold(r, 502)
             q3 == PollRead(r, results[h].read)
             q == IF h \notin DOMAIN results THEN q1
                  ELSE IF results[h].status = "RUNNING" THEN r
                  ELSE IF results[h].status = "FAILED" THEN q2 ELSE q3
  <2>1. Update(c, q) \/ Update(c, q1)
    BY DEF Poll, PollTold, PollRead
  <2> HIDE DEF q1, q2, q3
  <2>2. q = r \/ q = q1 \/ q = q2 \/ q = q3
    OBVIOUS
  <2>3. call' = [call EXCEPT ![c] = q] \/ call' = [call EXCEPT ![c] = q1]
    BY <2>1 DEF Update
  <2> HIDE DEF q
  <2> QED
    BY <2>2, <2>3 DEF q1, q2, q3
<1>3. r \in Fields(r) /\ ~Writes(r.ask) /\ Record(c, r)
  BY <1>1 DEF Placed, Record, Holds
<1>4. /\ q \in Fields(q) /\ q.ask = r.ask /\ q.at \in {r.at, "polled"} /\ q.try = r.try
      /\ q.status \in {r.status, 400, 502} /\ q.handle = r.handle
  <2>1. Polled(q, r, r.status) \/ Polled(q, r, 400) \/ Polled(q, r, 502)
    BY <1>2, <1>3, PollRecord
  <2> QED
    BY <2>1 DEF Polled
<1>5. Placed(c, q, stored[c], flying, results)
  <2>1. Record(c, q)
    BY <1>1, <1>4 DEF Placed, Record
  <2>2. Told(q, stored[c])
    BY <1>1, <1>3, <1>4 DEF Placed, Told
  <2>3. Counted(c, q, stored[c], flying)
    <3>1. Spent(q) = Spent(r)
      BY <1>3, <1>4 DEF Spent
    <3> QED
      BY <1>1, <1>4, <3>1 DEF Placed, Counted
  <2>4. Holds(c, q, flying, results)
    BY <1>1, <1>4 DEF Placed, Holds
  <2> QED
    BY <2>1, <2>2, <2>3, <2>4 DEF Placed
<1>6. Placed(c, q, stored[c], flying', results')
  BY <1>1, <1>5
<1>7. Server' /\ Entries(results') /\ flying' \subseteq Calls \X (1..Attempts)
      /\ stored' = [stored EXCEPT ![c] = stored[c]]
  BY <1>1 DEF Inv, Server, Entries
<1>8. /\ \A d \in Calls \ {c}, k \in 1..Attempts : <<d, k>> \in flying' <=> <<d, k>> \in flying
      /\ \A d \in Calls \ {c}, k \in 1..Attempts :
           <<d, k>> \in DOMAIN results' =>
             <<d, k>> \in DOMAIN results /\ results'[<<d, k>>] = results[<<d, k>>]
  BY <1>1
<1> QED
  BY <1>2, <1>6, <1>7, <1>8, StepInv

(* Fewer entries and fewer attempts under way. *)
LEMMA FewerInv ==
  ASSUME Inv, UNCHANGED <<call, stored>>, Server',
         flying' \in {flying, {}},
         DOMAIN results' \subseteq DOMAIN results,
         \A h \in DOMAIN results' : results'[h] = results[h]
  PROVE  Inv'
<1>1. Entries(results')
  BY DEF Inv, Entries
<1>2. ASSUME NEW c \in Calls PROVE Placed(c, call[c], stored[c], flying', results')
  <2> DEFINE r == call[c]
             copies == stored[c]
  <2>1. Placed(c, r, copies, flying, results)
    BY DEF Inv
  <2> HIDE DEF r, copies
  <2>2. Counted(c, r, copies, flying')
    <3>1. CASE flying' = flying
      BY <2>1, <3>1 DEF Placed
    <3>2. CASE flying' = {}
      <4>1. Sent(c, flying') = {} /\ Cardinality({}) = 0
        BY <3>2, FS_EmptySet DEF Sent
      <4>2. Cardinality(Sent(c, flying)) \in Nat
        BY SentFinite
      <4>3. Spent(r) \in Int /\ DOMAIN copies = DOMAIN r.ask.rows
            /\ \A i \in DOMAIN copies :
                 copies[i] \in Nat /\ copies[i] + Cardinality(Sent(c, flying)) <= Spent(r)
        BY <2>1, DataPlatformAssumption DEF Placed, Counted, Record, Spent
      <4>4. \A i \in DOMAIN copies : copies[i] \in Nat /\ copies[i] + 0 <= Spent(r)
        BY <4>2, <4>3
      <4> QED
        BY <4>1, <4>3, <4>4 DEF Counted
    <3> QED
      BY <3>1, <3>2
  <2>3. Holds(c, r, flying', results')
    BY <2>1 DEF Placed, Holds
  <2> QED
    BY <2>1, <2>2, <2>3 DEF Placed, r, copies
<1> QED
  BY <1>1, <1>2 DEF Inv

LEMMA NextInv ==
  ASSUME Inv, [Next]_vars
  PROVE  Inv'
<1>1. ASSUME NEW c \in Calls, Write(c) \/ Query(c) \/ TimeOut(c) \/ Poll(c) PROVE Inv'
  BY <1>1, WriteInv, QueryInv, TimeOutInv, PollInv
<1>2. ASSUME NEW c \in Calls, Cancel(c) PROVE Inv'
  <2>1. Server' /\ UNCHANGED <<call, stored>> /\ flying' = flying
    BY <1>2 DEF Cancel, Inv, Server
  <2>2. DOMAIN results' \subseteq DOMAIN results
        /\ \A h \in DOMAIN results' : results'[h] = results[h]
    BY <1>2 DEF Cancel
  <2> QED
    BY <2>1, <2>2, FewerInv
<1>3. ASSUME NEW c \in Calls, NEW k \in 1..Attempts, Serve(c, k) PROVE Inv'
  BY <1>3, ServeInv
<1>4. ASSUME Restart PROVE Inv'
  <2>1. Server'
    <3>1. conn' = FALSE /\ locked' = locked /\ locked \in BOOLEAN
      BY <1>4 DEF Restart, Inv, Server
    <3>2. restarts' \in 0..MaxRestarts
      BY <1>4, DataPlatformAssumption DEF Restart, Inv, Server
    <3> QED
      BY <3>1, <3>2 DEF Server
  <2>2. UNCHANGED <<call, stored>> /\ flying' = {} /\ DOMAIN results' = {}
    BY <1>4 DEF Restart
  <2> QED
    BY <2>1, <2>2, FewerInv
<1>5. ASSUME Lock PROVE Inv'
  <2>1. Server'
    BY <1>5 DEF Lock, Inv, Server
  <2>2. UNCHANGED <<call, stored, flying, results>>
    BY <1>5 DEF Lock
  <2> QED
    BY <2>1, <2>2, FewerInv
<1>6. ASSUME UNCHANGED vars PROVE Inv'
  <2>1. Server' /\ UNCHANGED <<call, stored, flying, results>>
    BY <1>6 DEF vars, Inv, Server
  <2> QED
    BY <2>1, FewerInv
<1> QED
  BY <1>1, <1>2, <1>3, <1>4, <1>5, <1>6 DEF Next

(* Inv is the inductive invariant of the calls, the attempts under way, the *)
(* rows stored and the entries of _ASYNC_RESULTS.                           *)
THEOREM Invariance == Spec => []Inv
<1>1. Init => Inv
  BY InitInv
<1>2. Inv /\ [Next]_vars => Inv'
  BY NextInv
<1> QED
  BY <1>1, <1>2, PTL DEF Spec

(* The variables have their types whatever is asked; among them, no row of  *)
(* a write is stored more often than the client makes attempts              *)
(* (data_platform.py:128-146 posts through the client that retries).        *)
THEOREM Typed == Spec => []TypeOK
<1>1. Inv => TypeOK
  <2> SUFFICES ASSUME Inv PROVE TypeOK
    OBVIOUS
  <2>1. ASSUME NEW c \in Calls
        PROVE  /\ call[c].ask \in Asks[c] /\ call[c].try \in 0..Attempts
               /\ call[c].at \in {"idle", "waiting", "done", "polled"}
               /\ call[c].status \in {0, 200, 400, 500, 502, 503, 504}
    BY DEF Inv, Placed, Record
  <2>2. ASSUME NEW c \in Calls, NEW i \in DOMAIN call[c].ask.rows
        PROVE  stored[c][i] \in 0..Attempts
    <3> DEFINE n == Cardinality(Sent(c, flying))
               try == call[c].try
               x == stored[c][i]
    <3>1. n \in Nat /\ try \in 0..Attempts /\ Attempts \in Nat
      BY <2>1, SentFinite, DataPlatformAssumption
    <3>2. x \in Nat /\ x + n <= Spent(call[c]) /\ Spent(call[c]) \in {try, try - 1}
      BY <2>2 DEF Inv, Placed, Counted, Spent
    <3> HIDE DEF n, try, x
    <3>3. x \in 0..Attempts
      BY <3>1, <3>2
    <3> QED
      BY <3>3 DEF x
  <2>3. flying \subseteq Calls \X (1..Attempts)
        /\ \A h \in DOMAIN results : results[h].status \in {"RUNNING", "SUCCEEDED", "FAILED"}
    BY DEF Inv, Entries
  <2>4. conn \in BOOLEAN /\ locked \in BOOLEAN /\ restarts \in 0..MaxRestarts
    BY DEF Inv, Server
  <2> QED
    BY <2>1, <2>2, <2>3, <2>4 DEF TypeOK
<1> QED
  BY <1>1, Invariance, PTL

(* A caller of write that was told 200 has every row of its batch stored;   *)
(* of one that was refused each row is stored fewer times than it made      *)
(* attempts, since the refused one stored nothing, and of an operation off  *)
(* the list nothing: through every retry, batch that failed part of the     *)
(* way, late attempt and restart (data_api/app.py:248-275 behind            *)
(* middleware.py:89-112 and data_platform.py:128-146).                      *)
THEOREM AcknowledgedWritesAreStored == Spec => []AckedIsStored
<1>1. Inv => AckedIsStored
  <2> SUFFICES ASSUME Inv, NEW c \in Calls, call[c].ask.kind \in {"write", "raw"}
               PROVE  /\ call[c].status = 200 => \A i \in DOMAIN stored[c] : stored[c][i] >= 1
                      /\ call[c].status = 400 =>
                           \A i \in DOMAIN stored[c] : stored[c][i] < call[c].try
                      /\ call[c].ask.operation \notin WriteOperations =>
                           \A i \in DOMAIN stored[c] : stored[c][i] = 0
    BY DEF AckedIsStored
  <2> DEFINE n == Cardinality(Sent(c, flying))
             try == call[c].try
  <2>1. Placed(c, call[c], stored[c], flying, results) /\ Writes(call[c].ask)
    BY DEF Inv, Writes
  <2>2. n \in Nat /\ try \in 0..Attempts /\ Attempts \in Nat
    BY <2>1, SentFinite, DataPlatformAssumption DEF Placed, Record
  <2>3. ASSUME call[c].status = 400, NEW i \in DOMAIN stored[c] PROVE stored[c][i] < try
    <3> DEFINE x == stored[c][i]
    <3>1. x \in Nat /\ x + n <= try - 1
      BY <2>1, <2>3 DEF Placed, Counted, Spent
    <3> HIDE DEF n, try, x
    <3>2. x < try
      BY <2>2, <3>1
    <3> QED
      BY <3>2 DEF x
  <2> QED
    BY <2>1, <2>3 DEF Placed, Told
<1> QED
  BY <1>1, Invariance, PTL

(* A handle somebody holds is that of a statement that has ended: the entry *)
(* submit leaves RUNNING (data_api/app.py:212-229) belongs to an attempt    *)
(* whose handle was never told, and that attempt is not served again.       *)
THEOREM HeldHandlesHaveFinished == Spec => []HeldHandlesFinished
<1>1. Inv => HeldHandlesFinished
  <2> SUFFICES ASSUME Inv, NEW c \in Calls, call[c].handle \in DOMAIN results
               PROVE  results[call[c].handle].status # "RUNNING"
    BY DEF HeldHandlesFinished
  <2>1. Holds(c, call[c], flying, results)
    BY DEF Inv, Placed
  <2>2. call[c].handle # NoHandle
    <3>1. call[c].handle \in Calls \X (1..Attempts)
      BY DEF Inv, Entries
    <3>2. NoHandle \notin Calls \X (1..Attempts)
      BY DEF NoHandle
    <3> QED
      BY <3>1, <3>2
  <2> QED
    BY <2>1, <2>2 DEF Holds
<1> QED
  BY <1>1, Invariance, PTL
=============================================================================
