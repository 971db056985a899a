----------------------------- MODULE CustomerScd2 -----------------------------
(***************************************************************************)
(* The customer dimension: RAW records staged by 06-transformations/       *)
(* 01-raw-to-staging-customer.sql and loaded into CORE.CUSTOMER, a Type 2  *)
(* slowly changing dimension, by the full rebuild of 06-transformations/   *)
(* 04-staging-to-core-scd2.sql, which also attaches every order to the     *)
(* customer version of its date.                                           *)
(*                                                                         *)
(* The scripts run one statement at a time, each committed by itself       *)
(* (local_warehouse/build.py, _run_script): a run may stop after any of    *)
(* them, and Snowpipe lands new RAW records between any two.  RAW is only  *)
(* ever added to.                                                          *)
(*                                                                         *)
(* Of a customer's attributes the load tells apart the match key, the      *)
(* value of the tracked-attribute hash and the source update time.         *)
(* DQ_STATUS is left out: a staged row is never 'FAIL', since the only     *)
(* rule that fails a row also keeps it out of STAGING.                     *)
(***************************************************************************)
EXTENDS Integers, FiniteSets

CONSTANTS
  Records,     \* what sources may send: [bk, match, hash, updated]
  Keys,        \* CUSTOMER_BK, ordered as the survivor rule orders them
  CreatedAt,   \* SOURCE_CREATED_AT of each customer
  NoTime,      \* an UPDATED_AT that is missing or that TRY_CAST rejects
  EndOfTime,   \* 9999-12-31
  FirstLoad,   \* the clock before the first load, after every source time
  Orders,      \* order dates: [bk, at]
  NoVersion,
  MaxLoads, MaxLosses  \* bounds on load runs and on losses of CORE

Dated(r) == r.updated # NoTime

ASSUME CustomerScd2Assumption ==
  /\ Keys \subseteq Int
  /\ CreatedAt \in [Keys -> Nat]
  /\ FirstLoad \in Nat /\ EndOfTime \in Nat
  /\ MaxLoads \in Nat /\ MaxLosses \in Nat
  /\ FirstLoad + MaxLoads < EndOfTime
  /\ NoTime \notin Nat
  /\ \A r \in Records :
       /\ r.bk \in Keys
       /\ Dated(r) => r.updated \in CreatedAt[r.bk]..FirstLoad
       /\ CreatedAt[r.bk] =< FirstLoad
  /\ \A o \in Orders : o.bk \in Keys /\ o.at \in Nat

VARIABLES
  raw,           \* RAW.RAW_CRM_CUSTOMER
  staging,       \* STAGING.STG_CUSTOMER
  core,          \* CORE.CUSTOMER
  orderVersion,  \* CORE.SALES_ORDER.CUSTOMER_SK of each order
  stage,         \* the last statement the running load has committed
  loads,         \* load runs begun; advances CURRENT_TIMESTAMP
  losses         \* how often CORE was lost

vars == <<raw, staging, core, orderVersion, stage, loads, losses>>

Now == FirstLoad + loads
Stages == {"idle", "emptied", "staged", "closed", "opened"}
Version == [sk : Keys \X Nat, bk : Keys, hash : {r.hash : r \in Records},
            from : Nat, to : Nat, current : BOOLEAN, num : Nat \ {0}]

TypeOK ==
  /\ raw \subseteq Records
  /\ staging \subseteq Records
  /\ core \subseteq Version
  /\ orderVersion \in [Orders -> (Keys \X Nat) \cup {NoVersion}]
  /\ stage \in Stages
  /\ loads \in 0..MaxLoads
  /\ losses \in 0..MaxLosses

Init ==
  /\ raw = {} /\ staging = {} /\ core = {}
  /\ orderVersion = [o \in Orders |-> NoVersion]
  /\ stage = "idle"
  /\ loads = 0 /\ losses = 0

-----------------------------------------------------------------------------
(* RAW -> STAGING *)

(* r may be ranked before q by SOURCE_UPDATED_AT DESC NULLS LAST. *)
Later(r, q) == Dated(q) => Dated(r) /\ r.updated >= q.updated

(* The row kept for each customer; between equals the engine chooses. *)
Replayed(k) == {r \in raw : r.bk = k}
Latest(k) == {r \in Replayed(k) : \A q \in Replayed(k) : Later(r, q)}
Landed == {r.bk : r \in raw}
Deduplicated == {d \in [Landed -> raw] : \A k \in Landed : d[k] \in Latest(k)}

(* SOURCE_CREATED_AT ASC, CUSTOMER_BK ASC: the oldest record survives. *)
Older(k, l) ==
  CreatedAt[k] < CreatedAt[l] \/ (CreatedAt[k] = CreatedAt[l] /\ k =< l)
Survivors(d) ==
  {d[k] : k \in {m \in Landed :
                   \A l \in Landed : d[l].match = d[m].match => Older(m, l)}}

(* Snowpipe lands a record. *)
Land(r) ==
  /\ r \notin raw
  /\ raw' = raw \cup {r}
  /\ UNCHANGED <<staging, core, orderVersion, stage, loads, losses>>

EmptyStaging ==
  /\ stage = "idle" /\ loads < MaxLoads
  /\ loads' = loads + 1
  /\ staging' = {}
  /\ stage' = "emptied"
  /\ UNCHANGED <<raw, core, orderVersion, losses>>

FillStaging ==
  /\ stage = "emptied"
  /\ \E d \in Deduplicated : staging' = Survivors(d)
  /\ stage' = "staged"
  /\ UNCHANGED <<raw, core, orderVersion, loads, losses>>

(* The INSERT fails, and the build goes on to the next script. *)
SkipStaging ==
  /\ stage = "emptied"
  /\ stage' = "staged"
  /\ UNCHANGED <<raw, staging, core, orderVersion, loads, losses>>

-----------------------------------------------------------------------------
(* STAGING -> CORE *)

(* Seeded fault: every staged customer's open version is superseded. *)
SupersedesAlways(s, v) == v.current /\ s.bk = v.bk

(* Seeded fault: closed versions are not excluded. *)
SupersedesClosed(s, v) == s.bk = v.bk /\ s.hash # v.hash

(* The staged row s differs from the open version v of its customer. *)
Supersedes(s, v) == v.current /\ s.bk = v.bk /\ s.hash # v.hash

OrNow(r) == IF Dated(r) THEN r.updated ELSE Now

(* Seeded fault: IS_CURRENT keeps its value. *)
ClosedStillCurrent(v, t) == [v EXCEPT !.to = t]

Closed(v, t) == [v EXCEPT !.to = t, !.current = FALSE]

CloseChanged ==
  /\ stage = "staged"
  /\ core' = {v \in core : \A s \in staging : ~Supersedes(s, v)}
               \cup {Closed(sv[2], OrNow(sv[1])) :
                       sv \in {p \in staging \X core : Supersedes(p[1], p[2])}}
  /\ stage' = "closed"
  /\ UNCHANGED <<raw, staging, orderVersion, loads, losses>>

(* Seeded fault: a closed version with the same hash counts as well. *)
UpToDateEver(s) == \E v \in core : v.bk = s.bk /\ v.hash = s.hash

UpToDate(s) == \E v \in core : v.bk = s.bk /\ v.current /\ v.hash = s.hash

(* COALESCE(MAX(VERSION_NUMBER), 0) *)
LastNumber(k) ==
  LET used == {0} \cup {v.num : v \in {w \in core : w.bk = k}}
  IN  CHOOSE n \in used : \A m \in used : m =< n

NextNumber(k) == LastNumber(k) + 1

NewVersion(s) ==
  [sk |-> <<s.bk, OrNow(s)>>, bk |-> s.bk, hash |-> s.hash,
   from |-> IF Dated(s) THEN s.updated ELSE CreatedAt[s.bk],
   to |-> EndOfTime, current |-> TRUE, num |-> NextNumber(s.bk)]

OpenNew ==
  /\ stage = "closed"
  /\ core' = core \cup {NewVersion(s) : s \in {t \in staging : ~UpToDate(t)}}
  /\ stage' = "opened"
  /\ UNCHANGED <<raw, staging, orderVersion, loads, losses>>

(* Seeded fault: the upper bound of the window is inclusive. *)
CoversBothEnds(v, o) == v.bk = o.bk /\ v.from =< o.at /\ o.at =< v.to

(* The version whose window covers the order's date; LIMIT 1 takes any. *)
Covers(v, o) == v.bk = o.bk /\ v.from =< o.at /\ o.at < v.to

Attachable(o) ==
  LET covering == {v \in core : Covers(v, o)}
  IN  IF covering = {} THEN {NoVersion} ELSE {v.sk : v \in covering}

AttachOrders ==
  /\ stage = "opened"
  /\ orderVersion' \in [Orders -> UNION {Attachable(o) : o \in Orders}]
  /\ \A o \in Orders : orderVersion'[o] \in Attachable(o)
  /\ stage' = "idle"
  /\ UNCHANGED <<raw, staging, core, loads, losses>>

(* A statement fails, or the process running the script dies. *)
Stop ==
  /\ stage # "idle"
  /\ stage' = "idle"
  /\ UNCHANGED <<raw, staging, core, orderVersion, loads, losses>>

(* CORE is corrupted and emptied, to be rebuilt from RAW. *)
LoseCore ==
  /\ stage = "idle" /\ core # {}
  /\ losses < MaxLosses
  /\ losses' = losses + 1
  /\ core' = {}
  /\ UNCHANGED <<raw, staging, orderVersion, stage, loads>>

Next ==
  \/ \E r \in Records : Land(r)
  \/ EmptyStaging \/ FillStaging \/ SkipStaging
  \/ CloseChanged \/ OpenNew \/ AttachOrders
  \/ Stop
  \/ LoseCore

Spec == Init /\ [][Next]_vars

-----------------------------------------------------------------------------
(* A customer never has two open versions, not even between the two        *)
(* statements of the load or after a run that stopped between them.        *)
OneCurrentVersion ==
  \A v, w \in core : v.bk = w.bk /\ v.current /\ w.current => v = w

(* The versions of a customer follow each other: each begins no earlier    *)
(* than the one numbered before it ends, only the last may be open, no     *)
(* number is used twice, and the date of an order lies in one window, so   *)
(* that the choice its LIMIT 1 makes never matters.                        *)
VersionsChain ==
  \A v, w \in core :
    /\ v.current => v.to = EndOfTime
    /\ v.from =< v.to
    /\ v.bk = w.bk /\ v # w => v.num # w.num
    /\ v.bk = w.bk /\ v.num < w.num => v.to =< w.from /\ ~v.current
    /\ \A o \in Orders : Covers(v, o) /\ Covers(w, o) => v = w

(* Once its INSERT has run, the load has left every staged customer with   *)
(* an open version holding the staged attributes, whatever earlier runs    *)
(* left behind.                                                            *)
LoadedIsCurrent ==
  stage = "opened" =>
    \A s \in staging : \E v \in core : v.bk = s.bk /\ v.current /\ v.hash = s.hash

(* Reloading what has not changed creates no version: a customer never has *)
(* more versions than records in RAW.                                      *)
NoSpuriousVersions ==
  \A k \in Keys : Cardinality({v \in core : v.bk = k}) =< Cardinality(Replayed(k))

(* Closed versions are never changed or removed, except when CORE is lost. *)
HistoryImmutable ==
  [][losses' = losses =>
       {v \in core : ~v.current} \subseteq {v \in core' : ~v.current}]_vars

=============================================================================
