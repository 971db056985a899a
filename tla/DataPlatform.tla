----------------------------- MODULE DataPlatform -----------------------------
(***************************************************************************)
(* Access to the warehouse: common/data_platform.py on the client's side,  *)
(* with the retries of its HTTP client, and services/data_api on the       *)
(* server's, the only process that opens the warehouse file.  A call has   *)
(* several attempts, an attempt its client has given up may still be       *)
(* served, an answer may be lost, and the server may be restarted.  The    *)
(* server serves one request at a time; its rows are committed one by one. *)
(*                                                                         *)
(* A result is one column of values; a number is in hundredths.            *)
(***************************************************************************)
EXTENDS Integers, Sequences, FiniteSetsExt

CONSTANTS
  Calls,        \* calls of query, write, submit (async) and health
  Asks,         \* what each call may ask
  Attempts,     \* max_retry_attempts
  MaxRestarts   \* bound on the restarts of the server

ASSUME DataPlatformAssumption ==
  /\ Attempts \in Nat \ {0} /\ MaxRestarts \in Nat
  /\ \A c \in Calls : \A a \in Asks[c] :
       /\ a.kind \in {"query", "submit", "write", "raw", "health"}
       /\ a.rows \in Seq(STRING) /\ a.bound \in BOOLEAN

VARIABLES
  call,      \* the client's side of each call
  flying,    \* attempts sent and not served yet
  stored,    \* the rows of the AI tables: copies of each written row
  results,   \* _ASYNC_RESULTS
  conn,      \* _CONN is open
  locked,    \* another process has the warehouse file
  restarts

vars == <<call, flying, stored, results, conn, locked, restarts>>

WriteOperations == {"ai_insight", "ai_audit", "ai_evaluation"}

-----------------------------------------------------------------------------
(* Values through the SQL API *)

Null == [type |-> "null", v |-> 0]
Of(type, v) == [type |-> type, v |-> v]

(* The type of a column, from one of its values. *)
SnowflakeType(sample) ==
  CASE sample.type = "bool"                             -> "BOOLEAN"
    [] sample.type = "int"                              -> "FIXED"
    [] sample.type = "decimal" /\ sample.v % 100 = 0    -> "FIXED"
    [] sample.type = "decimal" /\ sample.v % 100 # 0    -> "REAL"
    [] sample.type \in {"double", "null"}               -> "REAL"
    [] OTHER                                            -> "TEXT"

(* The first value that is not null decides. *)
ColumnType(column) ==
  LET known == {i \in DOMAIN column : column[i] # Null}
  IN SnowflakeType(IF known = {} THEN Null ELSE column[Min(known)])

(* int cuts the fraction off, towards zero. *)
Truncated(v) == 100 * (IF v >= 0 THEN v \div 100 ELSE -((-v) \div 100))

(* The client parses every value as the type of its column says. *)
Coerce(value, type) ==
  IF value = Null THEN Null
  ELSE CASE type = "FIXED" -> Of("int", Truncated(value.v))
         [] type = "REAL"  -> Of("double", value.v)
         [] OTHER          -> value

Rows(column) == [i \in DOMAIN column |-> Coerce(column[i], ColumnType(column))]

-----------------------------------------------------------------------------
NoHandle == <<>>
Fresh(ask) == [ask |-> ask, at |-> "idle", try |-> 0, status |-> 0,
               handle |-> NoHandle, read |-> <<>>]

TypeOK ==
  /\ \A c \in Calls :
       /\ call[c].ask \in Asks[c] /\ call[c].try \in 0..Attempts
       /\ call[c].at \in {"idle", "waiting", "done", "polled"}
       /\ call[c].status \in {0, 200, 400, 500, 502, 503, 504}
       /\ \A i \in DOMAIN call[c].ask.rows : stored[c][i] \in 0..Attempts
  /\ flying \subseteq Calls \X (1..Attempts)
  /\ \A h \in DOMAIN results : results[h].status \in {"RUNNING", "SUCCEEDED", "FAILED"}
  /\ conn \in BOOLEAN /\ locked \in BOOLEAN /\ restarts \in 0..MaxRestarts

Init ==
  /\ call \in [Calls -> UNION {{Fresh(a) : a \in Asks[c]} : c \in Calls}]
  /\ \A c \in Calls : call[c].ask \in Asks[c]
  /\ flying = {}
  /\ stored = [c \in Calls |-> [i \in DOMAIN call[c].ask.rows |-> 0]]
  /\ results = [h \in {} |-> 0]
  /\ conn = FALSE /\ locked \in BOOLEAN /\ restarts = 0

-----------------------------------------------------------------------------
(* The client *)

Update(c, record) == call' = [call EXCEPT ![c] = record]
Done(record, status) == [record EXCEPT !.at = "done", !.status = status]

Attempt(c, record) ==
  /\ Update(c, [record EXCEPT !.at = "waiting", !.try = @ + 1])
  /\ flying' = flying \cup {<<c, record.try + 1>>}

(* Seeded fault: one attempt too many. *)
FailedOnceMore(c, status) ==
  IF call[c].try <= Attempts
  THEN Attempt(c, call[c])
  ELSE Update(c, Done(call[c], status)) /\ UNCHANGED flying

(* A transient failure is tried again, as any POST is. *)
FailedAttempt(c, status) ==
  IF call[c].try < Attempts
  THEN Attempt(c, call[c])
  ELSE Update(c, Done(call[c], status)) /\ UNCHANGED flying

(* write: an operation off the list, or no rows, sends nothing. *)
Write(c) ==
  LET ask == call[c].ask
      unsent == IF ask.operation \notin WriteOperations THEN 502 ELSE 200 IN
  /\ call[c].at = "idle" /\ ask.kind = "write"
  /\ IF unsent = 502 \/ ask.rows = <<>>
     THEN Update(c, Done(call[c], unsent)) /\ UNCHANGED flying
     ELSE Attempt(c, call[c])
  /\ UNCHANGED <<stored, results, conn, locked, restarts>>

(* query; the other kinds are sent as they are ("raw" is a write whose      *)
(* sender did not go through write).                                        *)
Query(c) ==
  /\ call[c].at = "idle" /\ call[c].ask.kind \in {"query", "submit", "raw", "health"}
  /\ Attempt(c, call[c])
  /\ UNCHANGED <<stored, results, conn, locked, restarts>>

TimeOut(c) ==
  /\ call[c].at = "waiting"
  /\ FailedAttempt(c, 504)
  /\ UNCHANGED <<stored, results, conn, locked, restarts>>

-----------------------------------------------------------------------------
(* The server *)

(* What the client makes of the answer to attempt k, if it still waits for  *)
(* it and the answer gets through.                                          *)
Hears(c, k, status, record) ==
  \/ /\ call[c].at = "waiting" /\ call[c].try = k
     /\ IF status >= 500
        THEN \/ call[c].try < Attempts /\ Update(c, [call[c] EXCEPT !.try = @ + 1])
                /\ flying' = (flying \ {<<c, k>>}) \cup {<<c, k + 1>>}
             \/ call[c].try = Attempts /\ Update(c, Done(call[c], 503))
                /\ flying' = flying \ {<<c, k>>}
        ELSE Update(c, record) /\ flying' = flying \ {<<c, k>>}
  \/ flying' = flying \ {<<c, k>>} /\ UNCHANGED call

(* shared: the connection is opened once, and not while the file is locked. *)
Shared == conn \/ ~locked
Open == conn' = (conn \/ ~locked)

(* _validate: one SELECT or WITH statement. *)
Validate(ask) == ask.statement # "modifying"

(* The error of a statement that cannot be executed, 0 for none.  A binding *)
(* without a value, and a warehouse that cannot be opened, are no           *)
(* PlatformError.                                                           *)
Execute(ask) ==
  CASE ~ask.bound               -> 500
    [] ask.bound /\ ~Shared     -> 500
    [] OTHER                    -> IF ask.statement = "broken" THEN 502 ELSE 0
Opened(ask) == IF ask.bound THEN Open ELSE UNCHANGED conn

(* RateLimitMiddleware refuses any attempt but a health check before its    *)
(* handler sees it; the client makes a 400 of the 429.  (A body or a token  *)
(* that is not accepted fails every attempt of its call alike.)             *)
Limited(c, k) ==
  /\ call[c].ask.kind # "health"
  /\ Hears(c, k, 400, Done(call[c], 400))
  /\ UNCHANGED <<stored, results, conn>>

SubmitSync(c, k) ==
  LET ask == call[c].ask IN
  /\ ask.kind = "query"
  /\ IF ~Validate(ask)
     THEN Hears(c, k, 400, Done(call[c], 400)) /\ UNCHANGED conn
     ELSE /\ Hears(c, k, IF Execute(ask) = 0 THEN 200 ELSE Execute(ask),
                   [Done(call[c], 200) EXCEPT !.read = Rows(ask.column)])
          /\ Opened(ask)
  /\ UNCHANGED <<stored, results>>

(* Seeded fault: the handle is given out before the statement has run. *)
EntryLate(ask) == [status |-> "RUNNING", read |-> <<>>]

Entry(ask) ==
  IF Execute(ask) = 500 THEN [status |-> "RUNNING", read |-> <<>>]
  ELSE IF Execute(ask) = 502 THEN [status |-> "FAILED", read |-> <<>>]
  ELSE [status |-> "SUCCEEDED", read |-> Rows(ask.column)]

(* An exception that is no PlatformError leaves the entry as it was set     *)
(* first, and its handle is never told.                                     *)
SubmitAsync(c, k) ==
  LET ask == call[c].ask IN
  /\ ask.kind = "submit"
  /\ IF ~Validate(ask)
     THEN Hears(c, k, 400, Done(call[c], 400)) /\ UNCHANGED <<results, conn>>
     ELSE /\ results' = [h \in DOMAIN results \cup {<<c, k>>} |->
                           IF h = <<c, k>> THEN Entry(ask) ELSE results[h]]
          /\ Hears(c, k, IF Execute(ask) = 500 THEN 500 ELSE 200,
                   [Done(call[c], 200) EXCEPT !.handle = <<c, k>>])
          /\ Opened(ask)
  /\ UNCHANGED stored

Committed(c, n) ==
  stored' = [stored EXCEPT ![c] = [i \in DOMAIN @ |-> IF i <= n THEN @[i] + 1 ELSE @[i]]]

(* Seeded fault: a batch that failed part of the way is reported written. *)
InternalWriteLax(c, k) ==
  LET ask == call[c].ask IN
  /\ ask.kind \in {"write", "raw"} /\ Shared
  /\ \E n \in 0..Len(ask.rows) : Committed(c, n) /\ Hears(c, k, 200, Done(call[c], 200))
  /\ Open /\ UNCHANGED results

(* internal_write: a batch may fail after some of its rows. *)
InternalWrite(c, k) ==
  LET ask == call[c].ask IN
  /\ ask.kind \in {"write", "raw"}
  /\ \/ /\ ask.operation \notin WriteOperations
        /\ Hears(c, k, 400, Done(call[c], 400))
        /\ UNCHANGED <<stored, conn>>
     \/ /\ ask.operation \in WriteOperations /\ Shared
        /\ Committed(c, Len(ask.rows)) /\ Open
        /\ Hears(c, k, 200, Done(call[c], 200))
     \/ /\ ask.operation \in WriteOperations
        /\ IF Shared THEN \E n \in 0..(Len(ask.rows) - 1) : Committed(c, n)
                     ELSE UNCHANGED stored
        /\ Open
        /\ Hears(c, k, 502, call[c])
  /\ UNCHANGED results

Health(c, k) ==
  /\ call[c].ask.kind = "health"
  /\ Hears(c, k, IF Shared THEN 200 ELSE 502, Done(call[c], 200))
  /\ Open /\ UNCHANGED <<stored, results>>

Serve(c, k) ==
  /\ <<c, k>> \in flying
  /\ \/ Limited(c, k) \/ SubmitSync(c, k) \/ SubmitAsync(c, k)
     \/ InternalWrite(c, k) \/ Health(c, k)
  /\ UNCHANGED <<locked, restarts>>

(* poll: an unknown handle is 400, as the limiter's refusal is to its       *)
(* client, a failed statement 502.                                          *)
Poll(c) ==
  /\ call[c].at = "done" /\ call[c].handle # NoHandle
  /\ LET h == call[c].handle
         told(status) == [call[c] EXCEPT !.at = "polled", !.status = status] IN
     \/ Update(c, told(400))
     \/ Update(c, IF h \notin DOMAIN results THEN told(400)
                  ELSE IF results[h].status = "RUNNING" THEN call[c]
                  ELSE IF results[h].status = "FAILED" THEN told(502)
                  ELSE [call[c] EXCEPT !.at = "polled", !.read = results[h].read])
  /\ UNCHANGED <<flying, stored, results, conn, locked, restarts>>

Cancel(c) ==
  /\ call[c].handle # NoHandle /\ call[c].handle \in DOMAIN results
  /\ results' = [h \in DOMAIN results \ {call[c].handle} |-> results[h]]
  /\ UNCHANGED <<call, flying, stored, conn, locked, restarts>>

(* The server's process ends and another starts. *)
Restart ==
  /\ restarts < MaxRestarts /\ restarts' = restarts + 1
  /\ flying' = {} /\ results' = [h \in {} |-> 0] /\ conn' = FALSE
  /\ UNCHANGED <<call, stored, locked>>

(* Another process opens or leaves the file, which has one owner. *)
Lock ==
  /\ ~conn /\ locked' = ~locked
  /\ UNCHANGED <<call, flying, stored, results, conn, restarts>>

Next ==
  \/ \E c \in Calls : Write(c) \/ Query(c) \/ TimeOut(c) \/ Poll(c) \/ Cancel(c)
  \/ \E c \in Calls, k \in 1..Attempts : Serve(c, k)
  \/ Restart \/ Lock

Spec == Init /\ [][Next]_vars

-----------------------------------------------------------------------------
(* A write its caller was told of is stored whole, through retries, part    *)
(* of a batch failing, late attempts and restarts.  A refusal is true of    *)
(* the attempt it answers, which has stored nothing, though not of earlier  *)
(* ones: a write that was stored, and whose retry the limiter refuses, ends *)
(* as refused.  An operation off the list is never stored.  (A row may be   *)
(* stored more than once.)                                                  *)
AckedIsStored ==
  \A c \in Calls : call[c].ask.kind \in {"write", "raw"} =>
    /\ call[c].status = 200 => \A i \in DOMAIN stored[c] : stored[c][i] >= 1
    /\ call[c].status = 400 => \A i \in DOMAIN stored[c] : stored[c][i] < call[c].try
    /\ call[c].ask.operation \notin WriteOperations =>
         \A i \in DOMAIN stored[c] : stored[c][i] = 0

(* Whoever holds a handle never waits for nothing: its statement has ended, *)
(* or the handle is gone and a poll says so.  An entry left RUNNING for     *)
(* ever is one whose handle nobody was told.                                *)
HeldHandlesFinished ==
  \A c \in Calls : call[c].handle \in DOMAIN results => results[call[c].handle].status # "RUNNING"

(* data_api/app.py:135, a column's type is derived from a value so as not   *)
(* to "collapse the FIXED/REAL distinction that the client uses to decide   *)
(* whether to parse an integer or a float": a client reads the numbers the  *)
(* warehouse returned.                                                      *)
ValuesSurvive ==
  \A c \in Calls : \A i \in DOMAIN call[c].read :
    call[c].read[i].v = call[c].ask.column[i].v
=============================================================================
