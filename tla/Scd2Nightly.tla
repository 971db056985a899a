------------------------------ MODULE Scd2Nightly ------------------------------
(***************************************************************************)
(* The scheduled load of the customer dimension in Snowflake, beside the   *)
(* rebuild of CustomerScd2: the task DAG of 05-pipelines/                  *)
(* 04-orchestration-tasks.sql stages RAW and calls SP_LOAD_CORE_SCD2,      *)
(* which runs 05-pipelines/03-incremental-scd2-merge.sql and logs the run. *)
(*                                                                         *)
(* The incremental script reads a stream over STAGING.STG_CUSTOMER.  A     *)
(* stream is an offset: rows staged after it are the stream's INSERTs, a   *)
(* committed DML statement that reads the stream moves the offset to now,  *)
(* and so does CREATE OR REPLACE STREAM.  STAGING is replaced as a whole,  *)
(* so the stream holds all of it or none of it.                            *)
(*                                                                         *)
(* An operator runs the rebuild only while the DAG is not running.         *)
(***************************************************************************)
EXTENDS CustomerScd2

VARIABLES
  task,     \* what the DAG is about to run
  unread,   \* the stream has changes after its offset
  runLog,   \* STATUS of the latest 'staging-to-core-scd2' run
  verdict,  \* what the post-load checks returned in the latest run
  held      \* history: the customers with an open version when the DAG began

nightVars == <<task, unread, runLog, verdict, held>>
allVars == <<vars, nightVars>>

Tasks == {"idle", "stage", "gate", "stream", "pass1", "pass2", "checks", "done"}
HaveCurrent == {v.bk : v \in {w \in core : w.current}}
Stream == IF unread THEN staging ELSE {}

NightTypeOK ==
  /\ TypeOK
  /\ task \in Tasks /\ unread \in BOOLEAN
  /\ runLog \in {"none", "SUCCESS", "FAILED"}
  /\ verdict \in {"none", "OK", "FAILED"}
  /\ held \subseteq Keys

NightInit ==
  /\ Init
  /\ task = "idle" /\ unread = FALSE
  /\ runLog = "none" /\ verdict = "none"
  /\ held = {}

(* Every statement that changes STAGING puts changes in the stream. *)
Streamed == unread' = (unread \/ staging' # staging)

(* Snowpipe, the operator's rebuild, the loss of CORE. *)
Rebuild ==
  /\ task = "idle"
  /\ Next
  /\ Streamed
  /\ UNCHANGED <<task, runLog, verdict, held>>

(* Snowpipe does not wait for the DAG. *)
LandMeanwhile(r) ==
  /\ task # "idle"
  /\ Land(r)
  /\ UNCHANGED nightVars

-----------------------------------------------------------------------------
(* T_RAW_TO_STAGING *)

StageEmpty ==
  /\ task = "idle"
  /\ EmptyStaging
  /\ task' = "stage"
  /\ held' = HaveCurrent
  /\ verdict' = "none"
  /\ Streamed
  /\ UNCHANGED runLog

StageFill ==
  /\ task = "stage"
  /\ FillStaging
  /\ task' = "gate"
  /\ Streamed
  /\ UNCHANGED <<runLog, verdict, held>>

(* T_STAGING_TO_CORE, WHEN SYSTEM$STREAM_HAS_DATA *)
Gate ==
  /\ task = "gate"
  /\ \/ unread /\ task' = "stream" /\ UNCHANGED stage
     \/ ~unread /\ task' = "idle" /\ stage' = "idle"
  /\ UNCHANGED <<raw, staging, core, orderVersion, loads, losses,
                 unread, runLog, verdict, held>>

-----------------------------------------------------------------------------
(* SP_LOAD_CORE_SCD2: the statements of the incremental script *)

Proceed(from, to) ==
  /\ task = from /\ task' = to
  /\ UNCHANGED <<raw, staging, orderVersion, stage, loads, losses, held>>

(* Seeded fault: CREATE STREAM IF NOT EXISTS, which keeps the offset. *)
StreamKept ==
  /\ Proceed("stream", "pass1")
  /\ UNCHANGED <<core, unread, runLog, verdict>>

RecreateStream ==
  /\ Proceed("stream", "pass1")
  /\ unread' = FALSE
  /\ UNCHANGED <<core, runLog, verdict>>

(* COALESCE(SOURCE_UPDATED_AT, SOURCE_CREATED_AT, now) *)
ChangeAt(s) == IF Dated(s) THEN s.updated ELSE CreatedAt[s.bk]

MergeClose ==
  /\ Proceed("pass1", "pass2")
  /\ core' = {v \in core : \A s \in Stream : ~Supersedes(s, v)}
               \cup {Closed(sv[2], ChangeAt(sv[1])) :
                       sv \in {p \in Stream \X core : Supersedes(p[1], p[2])}}
  /\ unread' = FALSE
  /\ UNCHANGED <<runLog, verdict>>

MergeOpen ==
  /\ Proceed("pass2", "checks")
  /\ core' = core \cup
       {[NewVersion(s) EXCEPT !.sk = <<s.bk, ChangeAt(s)>>] :
          s \in {t \in Stream : /\ ~UpToDate(t)
                                /\ \A v \in core : v.sk # <<t.bk, ChangeAt(t)>>}}
  /\ unread' = FALSE
  /\ UNCHANGED <<runLog, verdict>>

(* The three SELECTs of the script's last block. *)
ChecksPass ==
  /\ OneCurrentVersion
  /\ \A v, w \in core :
       v.bk = w.bk /\ v.sk # w.sk => ~(v.from < w.to /\ w.from < v.to)
  /\ \A v \in core : v.current => v.to = EndOfTime

(* Seeded fault: the procedure logs the string the script returned. *)
LogReturned ==
  /\ Proceed("checks", "done")
  /\ verdict' = IF ChecksPass THEN "OK" ELSE "FAILED"
  /\ runLog' = verdict'
  /\ UNCHANGED <<core, unread>>

(* A failed check RETURNs a string, which the procedure does not look at. *)
ChecksAndLog ==
  /\ Proceed("checks", "done")
  /\ verdict' = IF ChecksPass THEN "OK" ELSE "FAILED"
  /\ runLog' = "SUCCESS"
  /\ UNCHANGED <<core, unread>>

DagEnds ==
  /\ task = "done"
  /\ task' = "idle" /\ stage' = "idle"
  /\ UNCHANGED <<raw, staging, core, orderVersion, loads, losses,
                 unread, runLog, verdict, held>>

(* A statement raises: the staging procedure's failure ends the DAG, the   *)
(* load procedure's is logged as well.                                     *)
NightStop ==
  /\ task \notin {"idle", "done"}
  /\ task' = "idle" /\ stage' = "idle"
  /\ runLog' = IF task \in {"stage", "gate"} THEN runLog ELSE "FAILED"
  /\ UNCHANGED <<raw, staging, core, orderVersion, loads, losses,
                 unread, verdict, held>>

NightNext ==
  \/ Rebuild
  \/ \E r \in Records : LandMeanwhile(r)
  \/ StageEmpty \/ StageFill \/ Gate
  \/ RecreateStream \/ MergeClose \/ MergeOpen \/ ChecksAndLog
  \/ DagEnds \/ NightStop

NightSpec == NightInit /\ [][NightNext]_allVars

-----------------------------------------------------------------------------
(* A scheduled run that reaches its end leaves no customer without an open *)
(* version who had one when it began: its closing pass never outruns its   *)
(* opening pass, although both read one stream.                            *)
NobodyLosesCurrent == task = "done" => held \subseteq HaveCurrent

-----------------------------------------------------------------------------
(* 03-incremental-scd2-merge.sql:8: "Both produce the same end state."  A  *)
(* run logged as a success leaves every staged customer up to date.        *)
SuccessMeansLoaded ==
  task = "done" /\ runLog = "SUCCESS" => \A s \in staging : UpToDate(s)
=============================================================================
