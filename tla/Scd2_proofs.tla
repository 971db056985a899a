------------------------------ MODULE Scd2_proofs ------------------------------
(***************************************************************************)
(* Theorems about CustomerScd2 and Scd2Nightly, for every set of records,  *)
(* customers and orders and every number of loads.                         *)
(*                                                                         *)
(* The argument for one open version per customer: STAGING holds one row   *)
(* per customer (StagedOnce), and between the two statements of the load   *)
(* every open version agrees with the staged row of its customer           *)
(* (ClosedFirst).  So the INSERT adds an open version only for customers   *)
(* that have none, and one for each.                                       *)
(*                                                                         *)
(* The versions of a customer form a chain because each was opened for a   *)
(* record of its own, and a staged record is no older than any version     *)
(* (Chained).                                                              *)
(*                                                                         *)
(* The scheduled load never takes a step that the rebuild does not         *)
(* (NightlyIsRebuild), so what holds of the rebuild holds of it as well.   *)
(***************************************************************************)
EXTENDS Scd2Nightly, FiniteSetTheorems, TLAPS

(* The records with the columns and the values of v. *)
Rows(v) == [sk : {v.sk}, bk : {v.bk}, hash : {v.hash}, from : {v.from},
            to : {v.to}, current : {v.current}, num : {v.num}]

CoreRows == \A v \in core : v \in Rows(v) /\ v.current \in BOOLEAN

LossesCounted == losses \in Int

StagedOnce == \A s, t \in staging : s.bk = t.bk => s = t

ClosedFirst ==
  stage = "closed" =>
    \A s \in staging : \A v \in core : v.bk = s.bk /\ v.current => v.hash = s.hash

Inv ==
  LossesCounted /\ CoreRows /\ StagedOnce /\ OneCurrentVersion /\ ClosedFirst /\ LoadedIsCurrent

-----------------------------------------------------------------------------
(* A closed version keeps its customer and attributes and is not current.  *)
LEMMA ClosedFields ==
  ASSUME NEW v, v \in Rows(v), NEW t
  PROVE  /\ Closed(v, t) \in Rows(Closed(v, t))
         /\ Closed(v, t).current = FALSE
         /\ Closed(v, t).bk = v.bk
BY DEF Closed, Rows

(* The survivors of any deduplication hold each customer at most once.     *)
LEMMA SurvivorsOnce ==
  ASSUME NEW d \in Deduplicated, NEW s \in Survivors(d), NEW t \in Survivors(d),
         s.bk = t.bk
  PROVE  s = t
<1>1. \A k \in Landed : d[k].bk = k
  BY DEF Deduplicated, Latest, Replayed
<1>2. PICK k \in Landed : s = d[k]
  BY DEF Survivors
<1>3. PICK l \in Landed : t = d[l]
  BY DEF Survivors
<1> QED
  BY <1>1, <1>2, <1>3

LEMMA InitInv == Init => Inv
BY DEF Init, Inv, LossesCounted, CoreRows, StagedOnce, OneCurrentVersion, ClosedFirst, LoadedIsCurrent

(* After the UPDATE every open version agrees with its staged row, and the *)
(* open versions are among those that were open before it.                 *)
LEMMA CloseChangedInv ==
  ASSUME Inv, CloseChanged
  PROVE  Inv'
<1>1. \A v \in core' : v.current =>
        /\ v \in core
        /\ \A s \in staging : ~Supersedes(s, v)
  BY ClosedFields DEF CloseChanged, Inv, CoreRows
<1>2. CoreRows'
  <2> SUFFICES ASSUME NEW v \in core' PROVE v \in Rows(v) /\ v.current \in BOOLEAN
    BY DEF CoreRows
  <2>1. CASE v \in core
    BY <2>1 DEF Inv, CoreRows
  <2>2. CASE v \notin core
    <3>1. PICK p \in staging \X core : v = Closed(p[2], OrNow(p[1]))
      BY <2>2 DEF CloseChanged
    <3>2. p[2] \in core /\ p[2] \in Rows(p[2])
      BY <3>1 DEF Inv, CoreRows
    <3> QED
      BY <3>1, <3>2, ClosedFields
  <2> QED
    BY <2>1, <2>2
<1>3. OneCurrentVersion'
  BY <1>1 DEF Inv, OneCurrentVersion
<1>4. ClosedFirst'
  BY <1>1 DEF CloseChanged, ClosedFirst, Supersedes
<1>5. LossesCounted' /\ StagedOnce' /\ LoadedIsCurrent'
  BY DEF Inv, CloseChanged, LossesCounted, StagedOnce, LoadedIsCurrent
<1> QED
  BY <1>2, <1>3, <1>4, <1>5 DEF Inv

(* The INSERT opens one version for each staged customer without one.      *)
LEMMA OpenNewInv ==
  ASSUME Inv, OpenNew
  PROVE  Inv'
<1> DEFINE Fresh == {NewVersion(s) : s \in {t \in staging : ~UpToDate(t)}}
<1>1. core' = core \cup Fresh /\ staging' = staging /\ stage = "closed" /\ stage' = "opened"
  BY DEF OpenNew
<1>2. ASSUME NEW s
      PROVE  /\ NewVersion(s) \in Rows(NewVersion(s))
             /\ NewVersion(s).bk = s.bk /\ NewVersion(s).hash = s.hash
             /\ NewVersion(s).current = TRUE
  BY DEF NewVersion, Rows
<1>3. ASSUME NEW v \in core, NEW w \in Fresh, v.current, v.bk = w.bk
      PROVE  FALSE
  <2>1. PICK s \in staging : w = NewVersion(s) /\ ~UpToDate(s)
    BY <1>3
  <2>2. v.bk = s.bk
    BY <2>1, <1>2, <1>3
  <2>3. v.hash = s.hash
    BY <2>2, <1>1, <1>3 DEF Inv, ClosedFirst
  <2> QED
    BY <2>1, <2>2, <2>3, <1>3 DEF UpToDate
<1>4. ASSUME NEW v \in Fresh, NEW w \in Fresh, v.bk = w.bk
      PROVE  v = w
  <2>1. PICK s \in staging : v = NewVersion(s)
    BY <1>4
  <2>2. PICK t \in staging : w = NewVersion(t)
    BY <1>4
  <2>3. s.bk = t.bk
    BY <1>2, <1>4, <2>1, <2>2
  <2>4. s = t
    BY <2>3 DEF Inv, StagedOnce
  <2> QED
    BY <2>1, <2>2, <2>4
<1>5. CoreRows'
  <2> SUFFICES ASSUME NEW v \in core' PROVE v \in Rows(v) /\ v.current \in BOOLEAN
    BY DEF CoreRows
  <2>1. CASE v \in core
    BY <2>1 DEF Inv, CoreRows
  <2>2. CASE v \in Fresh
    BY <2>2, <1>2
  <2> QED
    BY <2>1, <2>2, <1>1
<1>6. OneCurrentVersion'
  BY <1>1, <1>3, <1>4 DEF Inv, OneCurrentVersion
<1>7. LoadedIsCurrent'
  <2> SUFFICES ASSUME NEW s \in staging
               PROVE  \E v \in core' : v.bk = s.bk /\ v.current /\ v.hash = s.hash
    BY <1>1 DEF LoadedIsCurrent
  <2>1. CASE UpToDate(s)
    BY <2>1, <1>1 DEF UpToDate
  <2>2. CASE ~UpToDate(s)
    <3>1. NewVersion(s) \in core'
      BY <2>2, <1>1
    <3> QED
      BY <3>1, <1>2
  <2> QED
    BY <2>1, <2>2
<1>8. LossesCounted' /\ StagedOnce' /\ ClosedFirst'
  BY <1>1 DEF Inv, OpenNew, LossesCounted, StagedOnce, ClosedFirst
<1> QED
  BY <1>5, <1>6, <1>7, <1>8 DEF Inv

LEMMA NextInv == Inv /\ [Next]_vars => Inv'
<1> SUFFICES ASSUME Inv, [Next]_vars PROVE Inv'
  OBVIOUS
<1> USE DEF Inv, LossesCounted, CoreRows, StagedOnce, OneCurrentVersion, ClosedFirst, LoadedIsCurrent
<1>1. ASSUME NEW r \in Records, Land(r) PROVE Inv'
  BY <1>1 DEF Land
<1>2. CASE EmptyStaging
  BY <1>2 DEF EmptyStaging
<1>3. CASE FillStaging
  <2>1. PICK d \in Deduplicated : staging' = Survivors(d)
    BY <1>3 DEF FillStaging
  <2>2. StagedOnce'
    BY <2>1, SurvivorsOnce
  <2> QED
    BY <1>3, <2>2 DEF FillStaging
<1>4. CASE SkipStaging
  BY <1>4 DEF SkipStaging
<1>5. CASE CloseChanged
  BY <1>5, CloseChangedInv
<1>6. CASE OpenNew
  BY <1>6, OpenNewInv
<1>7. CASE AttachOrders
  BY <1>7 DEF AttachOrders
<1>8. CASE Stop
  BY <1>8 DEF Stop
<1>9. CASE LoseCore
  BY <1>9 DEF LoseCore
<1>10. CASE UNCHANGED vars
  BY <1>10 DEF vars
<1> QED
  BY <1>1, <1>2, <1>3, <1>4, <1>5, <1>6, <1>7, <1>8, <1>9, <1>10 DEF Next

LEMMA Invariance == Spec => []Inv
BY InitInv, NextInv, PTL DEF Spec

-----------------------------------------------------------------------------
(* A customer never has two open versions, whatever records arrive while a *)
(* load runs and wherever a run stops.                                     *)
THEOREM OneCurrent == Spec => []OneCurrentVersion
<1>1. Inv => OneCurrentVersion
  BY DEF Inv
<1> QED
  BY <1>1, Invariance, PTL

(* After the INSERT every staged customer has an open version with the     *)
(* staged attributes, whatever earlier runs left behind.                   *)
THEOREM LoadCompletes == Spec => []LoadedIsCurrent
<1>1. Inv => LoadedIsCurrent
  BY DEF Inv
<1> QED
  BY <1>1, Invariance, PTL

(* No step of a load changes or removes a closed version.                  *)
THEOREM ClosedVersionsStay == Spec => HistoryImmutable
<1> DEFINE Kept == losses' = losses =>
             {v \in core : ~v.current} \subseteq {v \in core' : ~v.current}
<1>1. [Next]_vars => [Kept]_vars
  <2> SUFFICES ASSUME Next, losses' = losses, NEW v \in core, ~v.current
               PROVE  v \in core'
    OBVIOUS
  <2>1. CASE CloseChanged
    BY <2>1 DEF CloseChanged, Supersedes
  <2>2. CASE OpenNew
    BY <2>2 DEF OpenNew
  <2>3. CASE core' = core
    BY <2>3
  <2>4. CASE LoseCore
    BY <2>4 DEF LoseCore
  <2> QED
    BY <2>1, <2>2, <2>3, <2>4 DEF Next, Land, EmptyStaging, FillStaging,
       SkipStaging, AttachOrders, Stop
<1> QED
  BY <1>1, PTL DEF Spec, HistoryImmutable

-----------------------------------------------------------------------------
(* Types of the rebuild *)

(* A customer is given at most one version by each load. *)
Numbered ==
  /\ stage # "idle" => loads > 0
  /\ \A v \in core :
       v.num =< loads /\ (stage \in {"emptied", "staged", "closed"} => v.num < loads)

Inside == Inv /\ TypeOK /\ Numbered

LEMMA Constants ==
  /\ FirstLoad \in Nat /\ EndOfTime \in Nat /\ NoTime \notin Nat
  /\ \A r \in Records :
       /\ r.bk \in Keys /\ CreatedAt[r.bk] \in Nat /\ CreatedAt[r.bk] =< FirstLoad
       /\ Dated(r) => /\ r.updated \in Nat /\ r.updated =< FirstLoad
                      /\ CreatedAt[r.bk] =< r.updated
<1>1. ASSUME NEW r \in Records
      PROVE  /\ r.bk \in Keys /\ CreatedAt[r.bk] \in Nat /\ CreatedAt[r.bk] =< FirstLoad
             /\ Dated(r) => r.updated \in CreatedAt[r.bk]..FirstLoad
  BY CustomerScd2Assumption
<1> QED
  BY <1>1, CustomerScd2Assumption

LEMMA LargestOf ==
  ASSUME NEW S, S \subseteq Nat, S # {}, NEW most \in Nat, \A x \in S : x =< most
  PROVE  \E n \in S : \A m \in S : m =< n
<1> DEFINE R == OpToRel(<, Nat)
           T == {most - x : x \in S}
<1>1. IsWellFoundedOn(R, Nat)
  BY NatLessThanWellFounded
<1>2. \A x, y \in Nat : x < y => <<x, y>> \in R
  BY DEF OpToRel
<1>3. T \subseteq Nat /\ T # {}
  OBVIOUS
<1> HIDE DEF R
<1>4. PICK t \in T : \A u \in T : ~ (<<u, t>> \in R)
  BY <1>1, <1>3, WFMin
<1>5. PICK n \in S : t = most - n
  BY <1>4
<1>6. ASSUME NEW m \in S PROVE m =< n
  <2>1. most - m \in T /\ t \in Nat /\ most - m \in Nat
    BY <1>3
  <2>2. ~(most - m < t)
    BY <1>2, <1>4, <2>1
  <2>3. m \in Nat /\ n \in Nat
    BY <1>6
  <2> QED
    BY <1>5, <2>2, <2>3
<1> QED
  BY <1>6

LEMMA Numbers ==
  ASSUME NEW most \in Nat, \A v \in core : v.num \in Nat /\ v.num =< most, NEW k
  PROVE  /\ NextNumber(k) \in Nat \ {0} /\ NextNumber(k) =< most + 1
         /\ \A v \in core : v.bk = k => v.num < NextNumber(k)
<1> DEFINE used == {0} \cup {v.num : v \in {w \in core : w.bk = k}}
<1>1. used \subseteq Nat /\ 0 \in used /\ \A n \in used : n =< most
  OBVIOUS
<1>2. \A v \in core : v.bk = k => v.num \in used
  OBVIOUS
<1>3. LastNumber(k) = CHOOSE n \in used : \A m \in used : m =< n
  BY DEF LastNumber
<1> HIDE DEF used
<1>4. \E n \in used : \A m \in used : m =< n
  BY <1>1, LargestOf
<1>5. LastNumber(k) \in used /\ \A m \in used : m =< LastNumber(k)
  BY <1>3, <1>4
<1>6. LastNumber(k) \in Nat /\ LastNumber(k) =< most
  BY <1>1, <1>5
<1>7. \A v \in core : v.bk = k => v.num =< LastNumber(k) /\ v.num \in Nat
  BY <1>2, <1>5
<1> QED
  BY <1>6, <1>7 DEF NextNumber

LEMMA NewVersionType ==
  ASSUME NEW s \in Records, TypeOK, NextNumber(s.bk) \in Nat \ {0}
  PROVE  NewVersion(s) \in Version
<1>1. s.bk \in Keys /\ CreatedAt[s.bk] \in Nat /\ (Dated(s) => s.updated \in Nat)
      /\ EndOfTime \in Nat
  BY Constants
<1>2. loads \in Nat /\ Now \in Nat
  BY CustomerScd2Assumption DEF TypeOK, Now
<1>3. OrNow(s) \in Nat /\ (IF Dated(s) THEN s.updated ELSE CreatedAt[s.bk]) \in Nat
  BY <1>1, <1>2 DEF OrNow
<1>4. s.hash \in {r.hash : r \in Records}
  OBVIOUS
<1> DEFINE from == IF Dated(s) THEN s.updated ELSE CreatedAt[s.bk]
           num == NextNumber(s.bk)
           at == OrNow(s)
<1>5. NewVersion(s) = [sk |-> <<s.bk, at>>, bk |-> s.bk, hash |-> s.hash, from |-> from,
                       to |-> EndOfTime, current |-> TRUE, num |-> num]
  BY DEF NewVersion
<1> HIDE DEF from, num, at
<1>6. from \in Nat /\ num \in Nat \ {0} /\ at \in Nat
  BY <1>3 DEF from, num, at
<1> QED
  BY <1>1, <1>4, <1>5, <1>6 DEF Version

LEMMA ClosedType ==
  ASSUME NEW v \in Version, NEW t \in Nat
  PROVE  Closed(v, t) \in Version /\ Closed(v, t).num = v.num
BY DEF Version, Closed

LEMMA TypesKept ==
  ASSUME Inside, [Next]_vars
  PROVE  TypeOK' /\ Numbered'
<1>1. /\ FirstLoad \in Nat /\ MaxLoads \in Nat /\ MaxLosses \in Nat /\ loads \in Nat /\ Now \in Nat
      /\ \A r \in Records : OrNow(r) \in Nat
  BY Constants, CustomerScd2Assumption DEF Inside, TypeOK, Now, OrNow
<1>2. \A v \in core : v \in Version /\ v.num \in Nat /\ v.num =< loads
  BY DEF Inside, TypeOK, Version, Numbered
<1>3. ASSUME core' = core, loads' = loads, stage' \in {"idle", stage} \/ stage = "emptied"
      PROVE  Numbered'
  BY <1>3 DEF Inside, Numbered
<1>4. ASSUME NEW r \in Records, Land(r) PROVE TypeOK' /\ Numbered'
  BY <1>3, <1>4 DEF Land, Inside, TypeOK
<1>5. CASE EmptyStaging
  <2>1. loads' \in 0..MaxLoads /\ loads' = loads + 1 /\ core' = core
    BY <1>1, <1>5 DEF EmptyStaging
  <2>2. TypeOK'
    BY <1>5, <2>1 DEF EmptyStaging, Inside, TypeOK, Stages
  <2>3. Numbered'
    BY <1>1, <1>2, <2>1 DEF Numbered
  <2> QED
    BY <2>2, <2>3
<1>6. CASE FillStaging
  <2>1. PICK d \in Deduplicated : staging' = Survivors(d)
    BY <1>6 DEF FillStaging
  <2>2. staging' \subseteq raw
    BY <2>1 DEF Survivors, Deduplicated
  <2> QED
    BY <1>3, <1>6, <2>2 DEF FillStaging, Inside, TypeOK, Stages
<1>7. CASE SkipStaging
  BY <1>3, <1>7 DEF SkipStaging, Inside, TypeOK, Stages
<1>8. CASE CloseChanged
  <2>1. ASSUME NEW v \in core'
        PROVE  v \in Version /\ \E w \in core : v.num = w.num
    <3>1. CASE v \in core
      BY <1>2, <3>1
    <3>2. CASE v \notin core
      <4>1. PICK p \in staging \X core : v = Closed(p[2], OrNow(p[1]))
        BY <1>8, <3>2 DEF CloseChanged
      <4>2. p[2] \in core /\ p[2] \in Version /\ OrNow(p[1]) \in Nat
        BY <1>1, <1>2, <4>1 DEF Inside, TypeOK
      <4> QED
        BY <4>1, <4>2, ClosedType
    <3> QED
      BY <3>1, <3>2
  <2>2. TypeOK'
    BY <1>8, <2>1 DEF CloseChanged, Inside, TypeOK, Stages
  <2>3. Numbered'
    BY <1>8, <2>1 DEF CloseChanged, Inside, Numbered
  <2> QED
    BY <2>2, <2>3
<1>9. CASE OpenNew
  <2>1. loads - 1 \in Int /\ \A v \in core : v.num \in Nat /\ v.num < loads
    BY <1>1, <1>2, <1>9 DEF OpenNew, Inside, Numbered
  <2>2. ASSUME NEW s \in staging
        PROVE  NewVersion(s) \in Version /\ NewVersion(s).num =< loads
    <3>1. s \in Records
      BY DEF Inside, TypeOK
    <3>2. NextNumber(s.bk) \in Nat \ {0} /\ NextNumber(s.bk) =< loads
      <4>1. loads - 1 \in Nat /\ \A v \in core : v.num \in Nat /\ v.num =< loads - 1
        BY <1>1, <1>9, <2>1 DEF OpenNew, Inside, Numbered
      <4> QED
        BY <1>1, <4>1, Numbers
    <3> QED
      BY <3>1, <3>2, NewVersionType DEF Inside, NewVersion
  <2>3. TypeOK'
    BY <1>9, <2>2 DEF OpenNew, Inside, TypeOK, Stages
  <2>4. Numbered'
    <3>1. stage' = "opened" /\ loads' = loads /\ loads > 0
      BY <1>9 DEF OpenNew, Inside, Numbered
    <3>2. \A v \in core' : v.num =< loads
      BY <1>2, <1>9, <2>2 DEF OpenNew
    <3> QED
      BY <3>1, <3>2 DEF Numbered
  <2> QED
    BY <2>3, <2>4
<1>10. CASE AttachOrders
  <2>1. ASSUME NEW o \in Orders PROVE Attachable(o) \subseteq (Keys \X Nat) \cup {NoVersion}
    BY <1>2 DEF Attachable, Version
  <2>2. orderVersion' \in [Orders -> (Keys \X Nat) \cup {NoVersion}]
    BY <1>10, <2>1 DEF AttachOrders
  <2> QED
    BY <1>3, <1>10, <2>2 DEF AttachOrders, Inside, TypeOK, Stages
<1>11. CASE Stop
  BY <1>3, <1>11 DEF Stop, Inside, TypeOK, Stages
<1>12. CASE LoseCore
  <2>1. losses' \in 0..MaxLosses
    BY <1>1, <1>12 DEF LoseCore, Inside, TypeOK
  <2> QED
    BY <1>12, <2>1 DEF LoseCore, Inside, TypeOK, Numbered
<1>13. CASE UNCHANGED vars
  BY <1>3, <1>13 DEF vars, Inside, TypeOK, Stages
<1> QED
  BY <1>4, <1>5, <1>6, <1>7, <1>8, <1>9, <1>10, <1>11, <1>12, <1>13 DEF Next

LEMMA InsideInit == Init => Inside
<1>1. Init => TypeOK /\ Numbered
  BY CustomerScd2Assumption DEF Init, TypeOK, Numbered, Stages
<1> QED
  BY <1>1, InitInv DEF Inside

LEMMA InsideNext == Inside /\ [Next]_vars => Inside'
BY NextInv, TypesKept DEF Inside

LEMMA Bounded == Spec => []Inside
BY InsideInit, InsideNext, PTL DEF Spec

(* The tables have their types; no customer gets more versions than there   *)
(* were loads, so a version number is never out of their count.             *)
THEOREM Typed == Spec => []TypeOK
<1>1. Inside => TypeOK
  BY DEF Inside
<1> QED
  BY <1>1, Bounded, PTL

-----------------------------------------------------------------------------
(* The scheduled load *)

Merging == {"pass1", "pass2", "checks", "done"}

(* Where the DAG is, its stream and the customers with an open version.     *)
Night ==
  /\ task \in Tasks /\ unread \in BOOLEAN
  /\ runLog \in {"none", "SUCCESS", "FAILED"} /\ verdict \in {"none", "OK", "FAILED"}
  /\ task = "stage" => stage = "emptied"
  /\ task \in {"gate", "stream"} \cup Merging => stage = "staged"
  /\ task \in Merging => ~unread
  /\ held \subseteq Keys /\ (task # "idle" => held = HaveCurrent)

(* CREATE OR REPLACE STREAM has emptied the stream: neither pass finds a    *)
(* row in it.                                                               *)
LEMMA MergeIdle ==
  ASSUME Night, MergeClose \/ MergeOpen
  PROVE  UNCHANGED vars
<1>1. Stream = {} /\ UNCHANGED <<raw, staging, orderVersion, stage, loads, losses>>
  BY DEF Night, Merging, Stream, MergeClose, MergeOpen, Proceed
<1>2. core' = core
  <2>1. CASE MergeClose
    BY <1>1, <2>1 DEF MergeClose
  <2>2. CASE MergeOpen
    BY <1>1, <2>2 DEF MergeOpen
  <2> QED
    BY <2>1, <2>2
<1> QED
  BY <1>1, <1>2 DEF vars

(* Every step of the DAG is one of the rebuild's, or none. *)
LEMMA NightStep ==
  ASSUME Night, [NightNext]_allVars
  PROVE  [Next]_vars
<1>1. CASE Rebuild
  BY <1>1 DEF Rebuild
<1>2. ASSUME NEW r \in Records, LandMeanwhile(r) PROVE Next
  BY <1>2 DEF LandMeanwhile, Next
<1>3. CASE StageEmpty
  BY <1>3 DEF StageEmpty, Next
<1>4. CASE StageFill
  BY <1>4 DEF StageFill, Next
<1>5. CASE Gate
  BY <1>5 DEF Gate, Night, vars, Next, Stop
<1>6. CASE RecreateStream
  BY <1>6 DEF RecreateStream, Proceed, vars
<1>7. CASE MergeClose \/ MergeOpen
  BY <1>7, MergeIdle
<1>8. CASE ChecksAndLog
  BY <1>8 DEF ChecksAndLog, Proceed, vars
<1>9. CASE DagEnds
  BY <1>9 DEF DagEnds, Night, Merging, vars, Next, Stop
<1>10. CASE NightStop
  BY <1>10 DEF NightStop, Night, Merging, Tasks, vars, Next, Stop
<1>11. CASE UNCHANGED allVars
  BY <1>11 DEF allVars, vars
<1> QED
  BY <1>1, <1>2, <1>3, <1>4, <1>5, <1>6, <1>7, <1>8, <1>9, <1>10, <1>11 DEF NightNext

LEMMA NightKept ==
  ASSUME TypeOK', Night, [NightNext]_allVars
  PROVE  Night'
<1>1. (staging' # staging) \in BOOLEAN
  OBVIOUS
<1>2. CASE Rebuild
  <2>1. unread' \in BOOLEAN
    BY <1>2 DEF Rebuild, Streamed, Night
  <2> QED
    BY <1>2, <2>1 DEF Rebuild, Night, Merging
<1>3. ASSUME NEW r \in Records, LandMeanwhile(r) PROVE Night'
  BY <1>3 DEF LandMeanwhile, nightVars, Land, Night, HaveCurrent, Merging
<1>4. CASE StageEmpty
  <2>1. unread' \in BOOLEAN
    BY <1>4 DEF StageEmpty, Streamed, Night
  <2>2. core' = core /\ stage' = "emptied" /\ task' = "stage" /\ held' = HaveCurrent
        /\ verdict' = "none" /\ runLog' = runLog
    BY <1>4 DEF StageEmpty, EmptyStaging
  <2>3. held' = HaveCurrent'
    BY <2>2 DEF HaveCurrent
  <2>4. held' \subseteq Keys
    BY <2>3 DEF HaveCurrent, TypeOK, Version
  <2> QED
    BY <2>1, <2>2, <2>3, <2>4 DEF Night, Merging, Tasks
<1>5. CASE StageFill
  <2>1. unread' \in BOOLEAN
    BY <1>5 DEF StageFill, Streamed, Night
  <2> QED
    BY <1>5, <2>1 DEF StageFill, FillStaging, Night, HaveCurrent, Merging, Tasks
<1>6. CASE Gate
  BY <1>6 DEF Gate, Night, HaveCurrent, Merging, Tasks
<1>7. CASE RecreateStream
  BY <1>7 DEF RecreateStream, Proceed, Night, HaveCurrent, Merging, Tasks
<1>8. CASE MergeClose \/ MergeOpen
  <2>1. UNCHANGED vars
    BY <1>8, MergeIdle
  <2>2. /\ task' \in {"pass2", "checks"} /\ unread' = FALSE /\ task # "idle"
        /\ task \in Merging /\ UNCHANGED <<runLog, verdict, held>>
    BY <1>8 DEF MergeClose, MergeOpen, Proceed, Merging
  <2> QED
    BY <2>1, <2>2 DEF vars, Night, HaveCurrent, Merging, Tasks
<1>9. CASE ChecksAndLog
  BY <1>9 DEF ChecksAndLog, Proceed, Night, HaveCurrent, Merging, Tasks
<1>10. CASE DagEnds
  BY <1>10 DEF DagEnds, Night, Merging, Tasks
<1>11. CASE NightStop
  BY <1>11 DEF NightStop, Night, Merging, Tasks
<1>12. CASE UNCHANGED allVars
  BY <1>12 DEF allVars, vars, nightVars, Night, HaveCurrent
<1> QED
  BY <1>2, <1>3, <1>4, <1>5, <1>6, <1>7, <1>8, <1>9, <1>10, <1>11, <1>12 DEF NightNext

LEMMA NightInvariance == NightSpec => [](Inside /\ Night)
<1>1. NightInit => Inside /\ Night
  BY InsideInit DEF NightInit, Night, Tasks, Merging
<1>2. Inside /\ Night /\ [NightNext]_allVars => (Inside /\ Night)'
  BY NightStep, InsideNext, NightKept DEF Inside
<1> QED
  BY <1>1, <1>2, PTL DEF NightSpec

(* The scheduled load implements the specification of the rebuild: with its *)
(* stream recreated at the top of every run                                 *)
(* (03-incremental-scd2-merge.sql:33), its MERGE and its INSERT change      *)
(* nothing, so that all it does to the tables the rebuild may do as well.   *)
THEOREM NightlyIsRebuild == NightSpec => Spec
<1>1. NightInit => Init
  BY DEF NightInit
<1>2. Inside /\ Night /\ [NightNext]_allVars => [Next]_vars
  BY NightStep
<1> QED
  BY <1>1, <1>2, NightInvariance, PTL DEF NightSpec, Spec

(* The tables, the DAG, its stream and its log have their types. *)
THEOREM NightTyped == NightSpec => []NightTypeOK
<1>1. Inside /\ Night => NightTypeOK
  BY DEF Inside, Night, NightTypeOK
<1> QED
  BY <1>1, NightInvariance, PTL

(* No scheduled run takes the open version of a customer away.              *)
THEOREM CurrentIsKept == NightSpec => []NobodyLosesCurrent
<1>1. Night => NobodyLosesCurrent
  BY DEF Night, NobodyLosesCurrent
<1> QED
  BY <1>1, NightInvariance, PTL

(* What the rebuild promises holds beside the scheduled load as well: one   *)
(* open version per customer, a load that leaves every staged customer up   *)
(* to date, and closed versions that stay.                                  *)
THEOREM NightlyKeepsPromises ==
  NightSpec => []OneCurrentVersion /\ []LoadedIsCurrent /\ HistoryImmutable
BY NightlyIsRebuild, OneCurrent, LoadCompletes, ClosedVersionsStay, PTL

-----------------------------------------------------------------------------
(* The versions of a customer *)

(* No two records of a customer carry one update time, and at most one of   *)
(* them carries none.  The load tells apart no others: of two records with  *)
(* one time the engine stages either.                         *)
OneRecordATime ==
  \A r, q \in Records : r.bk = q.bk /\ r.updated = q.updated => r = q

ChangedAt(r) == IF Dated(r) THEN r.updated ELSE CreatedAt[r.bk]

(* Version v was opened for record r; the surrogate key of a record without *)
(* a time is made of the clock.                                             *)
From(v, r) ==
  /\ r.bk = v.bk /\ r.hash = v.hash /\ v.from = ChangedAt(r)
  /\ IF Dated(r) THEN v.sk[2] = r.updated ELSE v.sk[2] > FirstLoad

(* A version comes from a record in RAW and was closed by a dated one.      *)
Sourced(versions, landed) ==
  \A v \in versions :
    /\ \E r \in landed : From(v, r)
    /\ v.current => v.to = EndOfTime
    /\ ~v.current => \E q \in landed : q.bk = v.bk /\ Dated(q) /\ v.to = q.updated
    /\ v.from =< v.to
    /\ ~v.current /\ v.sk[2] =< FirstLoad => v.from < v.to

(* The versions of a customer follow each other, one record each. *)
Follow(versions) ==
  \A v, w \in versions : v.bk = w.bk =>
    /\ v # w => v.num # w.num
    /\ v.num < w.num => v.to =< w.from /\ ~v.current
    /\ \A r \in Records : From(v, r) /\ From(w, r) => v = w

(* A staged record is no older than any version of its customer. *)
Newest(versions, staged) ==
  \A s \in staged : \A v \in versions : v.bk = s.bk =>
    IF Dated(s) THEN v.from =< s.updated /\ (~v.current => v.to =< s.updated)
    ELSE v.current /\ From(v, s)

Chained ==
  /\ IsFiniteSet(raw) /\ staging \subseteq raw
  /\ Sourced(core, raw) /\ Follow(core) /\ Newest(core, staging)

(* A record is dated by a natural number, or by nothing. *)
LEMMA FromOnce ==
  ASSUME OneRecordATime, NEW v, NEW r \in Records, NEW q \in Records, From(v, r), From(v, q)
  PROVE  r = q
<1>1. /\ Dated(r) => r.updated \in Nat /\ r.updated =< FirstLoad
      /\ Dated(q) => q.updated \in Nat /\ q.updated =< FirstLoad /\ FirstLoad \in Nat
  BY Constants
<1>2. Dated(r) <=> Dated(q)
  BY <1>1, Constants DEF From
<1>3. r.updated = q.updated
  BY <1>2 DEF From, Dated
<1> QED
  BY <1>3 DEF From, OneRecordATime

LEMMA VersionIs ==
  ASSUME TypeOK, NEW v \in core
  PROVE  /\ v \in Version /\ v.from \in Nat /\ v.to \in Nat /\ v.num \in Nat \ {0}
         /\ v.sk[2] \in Nat /\ v.current \in BOOLEAN /\ v.bk \in Keys
BY DEF TypeOK, Version

LEMMA LandChained ==
  ASSUME Chained, NEW r \in Records, Land(r)
  PROVE  Chained'
<1>1. IsFiniteSet(raw')
  BY FS_AddElement DEF Chained, Land
<1>2. Sourced(core, raw')
  BY DEF Chained, Land, Sourced
<1> QED
  BY <1>1, <1>2 DEF Chained, Land

LEMMA FillChained ==
  ASSUME OneRecordATime, Inside, Chained, FillStaging
  PROVE  Chained'
<1>1. PICK d \in Deduplicated : staging' = Survivors(d)
  BY DEF FillStaging
<1>2. UNCHANGED <<raw, core>> /\ raw \subseteq Records
  BY DEF FillStaging, Inside, TypeOK
<1>3. ASSUME NEW s \in staging'
      PROVE  s \in raw /\ s \in Latest(s.bk)
  <2>1. PICK k \in Landed : s = d[k]
    BY <1>1, <1>3 DEF Survivors
  <2> QED
    BY <2>1 DEF Deduplicated, Latest, Replayed
<1>4. ASSUME NEW s \in staging', NEW v \in core, v.bk = s.bk
      PROVE  IF Dated(s) THEN v.from =< s.updated /\ (~v.current => v.to =< s.updated)
             ELSE v.current /\ From(v, s)
  <2>1. s \in Records /\ \A q \in raw : q.bk = s.bk => Later(s, q)
    BY <1>2, <1>3 DEF Latest, Replayed
  <2>2. PICK r \in raw : From(v, r)
    BY DEF Chained, Sourced
  <2>3. ~v.current => \E q \in raw : q.bk = v.bk /\ Dated(q) /\ v.to = q.updated
    BY DEF Chained, Sourced
  <2>4. r \in Records /\ Later(s, r)
    BY <1>2, <1>4, <2>1, <2>2 DEF From
  <2>5. /\ Dated(r) => r.updated \in Nat
        /\ Dated(s) => s.updated \in Nat /\ CreatedAt[s.bk] =< s.updated
        /\ CreatedAt[s.bk] \in Nat
    BY <2>1, <2>4, Constants
  <2>6. CASE Dated(s)
    <3>1. v.from =< s.updated
      BY <1>4, <2>2, <2>4, <2>5, <2>6 DEF From, ChangedAt, Later
    <3>2. ~v.current => v.to =< s.updated
      <4> SUFFICES ASSUME ~v.current PROVE v.to =< s.updated
        OBVIOUS
      <4>1. PICK q \in raw : q.bk = v.bk /\ Dated(q) /\ v.to = q.updated
        BY <2>3
      <4>2. Later(s, q) /\ q.updated \in Nat
        BY <1>2, <1>4, <2>1, <4>1, Constants
      <4> QED
        BY <2>5, <2>6, <4>1, <4>2 DEF Later
    <3> QED
      BY <2>6, <3>1, <3>2
  <2>7. CASE ~Dated(s)
    <3>1. \A q \in raw : q.bk = s.bk => ~Dated(q)
      BY <2>1, <2>7 DEF Later
    <3>2. v.current
      BY <1>4, <2>3, <3>1
    <3>3. r = s
      BY <1>4, <2>1, <2>2, <2>4, <2>7, <3>1 DEF From, Dated, OneRecordATime
    <3> QED
      BY <2>2, <2>7, <3>2, <3>3
  <2> QED
    BY <2>6, <2>7
<1>5. Newest(core, staging')
  BY <1>4 DEF Newest
<1> QED
  BY <1>2, <1>3, <1>5 DEF Chained

(* Closing a version leaves all of it but its end. *)
SameBut(v, w) ==
  /\ v.sk = w.sk /\ v.bk = w.bk /\ v.hash = w.hash /\ v.from = w.from /\ v.num = w.num

LEMMA ClosedSame ==
  ASSUME NEW v \in Version, NEW t
  PROVE  SameBut(Closed(v, t), v) /\ Closed(v, t).to = t /\ Closed(v, t).current = FALSE
BY DEF Version, Closed, SameBut

LEMMA CloseChained ==
  ASSUME OneRecordATime, Inside, Chained, CloseChanged
  PROVE  Chained'
<1>1. UNCHANGED <<raw, staging>> /\ raw \subseteq Records /\ staging \subseteq raw /\ StagedOnce
      /\ FirstLoad \in Nat
  BY Constants DEF CloseChanged, Inside, Inv, TypeOK, Chained
<1>2. \A v \in core : v \in Version /\ v.from \in Nat /\ v.to \in Nat /\ v.sk[2] \in Nat
                      /\ v.num \in Nat /\ v.current \in BOOLEAN
  BY VersionIs DEF Inside
<1>3. ASSUME NEW v \in core, NEW s \in staging, Supersedes(s, v)
      PROVE  /\ Dated(s) /\ OrNow(s) = s.updated /\ s.updated \in Nat
             /\ v.from =< s.updated
             /\ v.sk[2] =< FirstLoad => v.from < s.updated
  <2>1. v.bk = s.bk /\ v.hash # s.hash /\ v.current
    BY <1>3 DEF Supersedes
  <2>2. Dated(s)
    BY <2>1 DEF Chained, Newest, From
  <2>3. OrNow(s) = s.updated /\ v.from =< s.updated
    BY <2>1, <2>2 DEF OrNow, Chained, Newest
  <2>4. s.updated \in Nat
    BY <1>1, <2>2, Constants
  <2>5. ASSUME v.sk[2] =< FirstLoad, v.from = s.updated PROVE FALSE
    <3>1. PICK r \in raw : From(v, r)
      BY DEF Chained, Sourced
    <3>2. Dated(r) /\ r.updated = v.from /\ r.bk = v.bk /\ r.hash = v.hash
      BY <1>1, <1>2, <2>5, <3>1 DEF From, ChangedAt
    <3>3. r = s
      BY <1>1, <2>1, <2>5, <3>2 DEF OneRecordATime
    <3> QED
      BY <2>1, <3>2, <3>3
  <2> QED
    BY <1>2, <2>2, <2>3, <2>4, <2>5
<1>4. ASSUME NEW v \in core'
      PROVE  \E w \in core :
               /\ SameBut(v, w)
               /\ \/ v = w /\ \A s \in staging : ~Supersedes(s, w)
                  \/ /\ ~v.current
                     /\ \E s \in staging : Supersedes(s, w) /\ v = Closed(w, OrNow(s))
                                           /\ v.to = s.updated
  <2>1. CASE v \in core /\ \A s \in staging : ~Supersedes(s, v)
    BY <2>1 DEF SameBut
  <2>2. CASE ~(v \in core /\ \A s \in staging : ~Supersedes(s, v))
    <3>1. PICK p \in staging \X core : Supersedes(p[1], p[2]) /\ v = Closed(p[2], OrNow(p[1]))
      BY <2>2 DEF CloseChanged
    <3>2. p[1] \in staging /\ p[2] \in core /\ p[2] \in Version /\ OrNow(p[1]) = p[1].updated
      BY <1>2, <1>3, <3>1
    <3>3. SameBut(v, p[2]) /\ v.to = p[1].updated /\ v.current = FALSE
      BY <3>1, <3>2, ClosedSame
    <3> QED
      BY <3>1, <3>2, <3>3
  <2> QED
    BY <2>1, <2>2
<1>5. Sourced(core', raw)
  <2> SUFFICES ASSUME NEW v \in core'
               PROVE  /\ \E r \in raw : From(v, r)
                      /\ v.current => v.to = EndOfTime
                      /\ ~v.current => \E q \in raw : q.bk = v.bk /\ Dated(q) /\ v.to = q.updated
                      /\ v.from =< v.to
                      /\ ~v.current /\ v.sk[2] =< FirstLoad => v.from < v.to
    BY DEF Sourced
  <2>1. PICK w \in core : /\ SameBut(v, w)
                          /\ \/ v = w
                             \/ /\ ~v.current
                                /\ \E s \in staging : Supersedes(s, w) /\ v.to = s.updated
    BY <1>4
  <2>2. CASE v = w
    BY <2>2 DEF Chained, Sourced
  <2>3. CASE ~v.current /\ \E s \in staging : Supersedes(s, w) /\ v.to = s.updated
    <3>1. PICK s \in staging : Supersedes(s, w) /\ v.to = s.updated
      BY <2>3
    <3>2. \E r \in raw : From(v, r)
      BY <2>1 DEF Chained, Sourced, SameBut, From
    <3>3. s \in raw /\ s.bk = v.bk /\ Dated(s)
      BY <1>1, <1>3, <2>1, <3>1 DEF SameBut, Supersedes
    <3>4. v.from =< v.to /\ (v.sk[2] =< FirstLoad => v.from < v.to)
      BY <1>3, <2>1, <3>1 DEF SameBut
    <3> QED
      BY <2>3, <3>1, <3>2, <3>3, <3>4
  <2> QED
    BY <2>1, <2>2, <2>3
<1>6. Follow(core')
  <2> SUFFICES ASSUME NEW v \in core', NEW w \in core', v.bk = w.bk
               PROVE  /\ v # w => v.num # w.num
                      /\ v.num < w.num => v.to =< w.from /\ ~v.current
                      /\ \A r \in Records : From(v, r) /\ From(w, r) => v = w
    BY DEF Follow
  <2>1. PICK x \in core : /\ SameBut(v, x)
                          /\ \/ v = x /\ \A s \in staging : ~Supersedes(s, x)
                             \/ \E s \in staging : Supersedes(s, x) /\ v = Closed(x, OrNow(s))
    BY <1>4
  <2>2. PICK y \in core : /\ SameBut(w, y)
                          /\ \/ w = y /\ \A s \in staging : ~Supersedes(s, y)
                             \/ \E s \in staging : Supersedes(s, y) /\ w = Closed(y, OrNow(s))
    BY <1>4
  <2>3. x = y => v = w
    <3>1. \A s, t \in staging : Supersedes(s, x) /\ Supersedes(t, x) => s = t
      BY <1>1 DEF StagedOnce, Supersedes
    <3> QED
      BY <2>1, <2>2, <3>1
  <2>4. /\ x # y => x.num # y.num
        /\ x.num < y.num => x.to =< y.from /\ ~x.current
        /\ \A r \in Records : From(x, r) /\ From(y, r) => x = y
    BY <2>1, <2>2 DEF SameBut, Chained, Follow
  <2>5. v.num < w.num => v.to =< w.from /\ ~v.current
    <3> SUFFICES ASSUME v.num < w.num PROVE v.to =< w.from /\ ~v.current
      OBVIOUS
    <3>1. x.to =< y.from /\ ~x.current
      BY <2>1, <2>2, <2>4 DEF SameBut
    <3>2. v = x
      BY <2>1, <3>1 DEF Supersedes
    <3> QED
      BY <2>2, <3>1, <3>2 DEF SameBut
  <2>6. \A r \in Records : From(v, r) /\ From(w, r) => v = w
    BY <2>1, <2>2, <2>3, <2>4 DEF SameBut, From
  <2> QED
    BY <2>1, <2>2, <2>3, <2>4, <2>5, <2>6 DEF SameBut
<1>7. Newest(core', staging)
  <2> SUFFICES ASSUME NEW s \in staging, NEW v \in core', v.bk = s.bk
               PROVE  IF Dated(s) THEN v.from =< s.updated /\ (~v.current => v.to =< s.updated)
                      ELSE v.current /\ From(v, s)
    BY DEF Newest
  <2>1. PICK w \in core : /\ SameBut(v, w)
                          /\ \/ v = w
                             \/ \E t \in staging : Supersedes(t, w) /\ v.to = t.updated
    BY <1>4
  <2>2. CASE v = w
    BY <2>2 DEF Chained, Newest
  <2>3. CASE \E t \in staging : Supersedes(t, w) /\ v.to = t.updated
    <3>1. PICK t \in staging : Supersedes(t, w) /\ v.to = t.updated
      BY <2>3
    <3>2. t = s
      BY <1>1, <2>1, <3>1 DEF StagedOnce, Supersedes, SameBut
    <3>3. Dated(s) /\ w.from =< s.updated /\ s.updated \in Nat
      BY <1>3, <3>1, <3>2
    <3> QED
      BY <2>1, <3>1, <3>2, <3>3 DEF SameBut
  <2> QED
    BY <2>1, <2>2, <2>3
<1> QED
  BY <1>1, <1>5, <1>6, <1>7 DEF Chained

LEMMA OpenedIs ==
  ASSUME Inside, stage # "idle", NEW s \in Records
  PROVE  /\ From(NewVersion(s), s) /\ NewVersion(s).bk = s.bk
         /\ NewVersion(s).from = ChangedAt(s) /\ NewVersion(s).from \in Nat
         /\ NewVersion(s).from =< NewVersion(s).to
         /\ NewVersion(s).current = TRUE /\ NewVersion(s).to = EndOfTime
         /\ NewVersion(s).num = NextNumber(s.bk)
<1> DEFINE v == NewVersion(s)
           at == OrNow(s)
           from == IF Dated(s) THEN s.updated ELSE CreatedAt[s.bk]
           num == NextNumber(s.bk)
<1>1. v = [sk |-> <<s.bk, at>>, bk |-> s.bk, hash |-> s.hash, from |-> from,
           to |-> EndOfTime, current |-> TRUE, num |-> num]
  BY DEF NewVersion
<1>2. at = (IF Dated(s) THEN s.updated ELSE Now) /\ from = ChangedAt(s)
  BY DEF OrNow, ChangedAt
<1>3. FirstLoad \in Nat /\ EndOfTime \in Nat /\ FirstLoad < EndOfTime /\ Now > FirstLoad
  BY Constants, CustomerScd2Assumption DEF Inside, TypeOK, Numbered, Now
<1>4. ChangedAt(s) \in Nat /\ ChangedAt(s) =< FirstLoad
  BY Constants DEF ChangedAt
<1> HIDE DEF v, at, from, num
<1>5. /\ v.sk[2] = at /\ v.bk = s.bk /\ v.hash = s.hash /\ v.from = from
      /\ v.to = EndOfTime /\ v.current = TRUE /\ v.num = num
  BY <1>1
<1>6. From(v, s)
  BY <1>2, <1>3, <1>5 DEF From
<1>7. v.from =< v.to
  BY <1>2, <1>3, <1>4, <1>5
<1> QED
  BY <1>2, <1>4, <1>5, <1>6, <1>7 DEF v, num

LEMMA OpenChained ==
  ASSUME OneRecordATime, Inside, Chained, OpenNew
  PROVE  Chained'
<1> DEFINE Fresh == {NewVersion(s) : s \in {t \in staging : ~UpToDate(t)}}
<1>1. UNCHANGED <<raw, staging>> /\ raw \subseteq Records /\ staging \subseteq raw /\ StagedOnce
      /\ FirstLoad \in Nat /\ core' = core \cup Fresh /\ stage = "closed"
  BY Constants DEF OpenNew, Inside, Inv, TypeOK, Chained
<1>2. \A v \in core : v \in Version /\ v.from \in Nat /\ v.to \in Nat /\ v.sk[2] \in Nat
                      /\ v.num \in Nat /\ v.current \in BOOLEAN
  BY VersionIs DEF Inside
<1>3. ASSUME NEW w \in Fresh
      PROVE  \E s \in staging :
               /\ w = NewVersion(s) /\ ~UpToDate(s) /\ From(w, s) /\ w.bk = s.bk
               /\ w.from = ChangedAt(s) /\ w.from =< w.to /\ w.current = TRUE
               /\ w.to = EndOfTime /\ w.num = NextNumber(s.bk)
  <2>1. PICK s \in staging : w = NewVersion(s) /\ ~UpToDate(s)
    BY <1>3
  <2>2. s \in Records /\ stage # "idle"
    BY <1>1
  <2> QED
    BY <2>1, <2>2, OpenedIs
<1>4. ASSUME NEW v \in core, NEW s \in staging, v.bk = s.bk, ~UpToDate(s)
      PROVE  /\ ~v.current /\ Dated(s) /\ v.to =< s.updated /\ ~From(v, s)
             /\ v.num < NextNumber(s.bk)
  <2>1. ~v.current
    BY <1>1, <1>2, <1>4 DEF Inside, Inv, ClosedFirst, UpToDate
  <2>2. Dated(s) /\ v.to =< s.updated
    BY <1>4, <2>1 DEF Chained, Newest
  <2>3. s.updated \in Nat /\ s.updated =< FirstLoad
    BY <1>1, <2>2, Constants
  <2>4. ASSUME From(v, s) PROVE FALSE
    <3>1. v.sk[2] =< FirstLoad /\ v.from = s.updated
      BY <2>2, <2>3, <2>4 DEF From, ChangedAt
    <3>2. v.from < v.to
      BY <2>1, <3>1 DEF Chained, Sourced
    <3> QED
      BY <1>2, <2>2, <2>3, <3>1, <3>2
  <2>5. v.num < NextNumber(s.bk)
    <3>1. loads \in Nat /\ \A x \in core : x.num \in Nat /\ x.num =< loads
      BY <1>2 DEF Inside, TypeOK, Numbered
    <3> QED
      BY <1>4, <3>1, Numbers
  <2> QED
    BY <2>1, <2>2, <2>4, <2>5
<1>5. Sourced(core', raw)
  <2>1. Sourced(Fresh, raw)
    <3> SUFFICES ASSUME NEW w \in Fresh
                 PROVE  /\ \E r \in raw : From(w, r)
                        /\ w.current = TRUE /\ w.to = EndOfTime /\ w.from =< w.to
      BY DEF Sourced
    <3>1. PICK s \in staging : From(w, s) /\ w.current = TRUE /\ w.to = EndOfTime
                               /\ w.from =< w.to
      BY <1>3
    <3> HIDE DEF Fresh
    <3> QED
      BY <1>1, <3>1
  <2> HIDE DEF Fresh
  <2> QED
    BY <1>1, <2>1 DEF Chained, Sourced
<1>6. ASSUME NEW v \in core, NEW w \in Fresh, v.bk = w.bk
      PROVE  /\ v.num < w.num /\ v.to =< w.from /\ ~v.current /\ w.current = TRUE
             /\ \A r \in Records : ~(From(v, r) /\ From(w, r))
  <2>1. PICK s \in staging : /\ ~UpToDate(s) /\ From(w, s) /\ w.bk = s.bk /\ w.current = TRUE
                             /\ w.from = ChangedAt(s) /\ w.num = NextNumber(s.bk)
    BY <1>3
  <2>2. /\ ~v.current /\ Dated(s) /\ v.to =< s.updated /\ ~From(v, s)
        /\ v.num < NextNumber(s.bk)
    BY <1>4, <1>6, <2>1
  <2>3. \A r \in Records : From(w, r) => r = s
    BY <1>1, <2>1, FromOnce
  <2> HIDE DEF Fresh
  <2> QED
    BY <2>1, <2>2, <2>3 DEF ChangedAt
<1>7. ASSUME NEW v \in Fresh, NEW w \in Fresh, v.bk = w.bk PROVE v = w
  <2>1. PICK s \in staging : v = NewVersion(s) /\ v.bk = s.bk
    BY <1>3
  <2>2. PICK t \in staging : w = NewVersion(t) /\ w.bk = t.bk
    BY <1>3
  <2>3. s = t
    BY <1>1, <1>7, <2>1, <2>2 DEF StagedOnce
  <2> QED
    BY <2>1, <2>2, <2>3
<1>8. \A w \in Fresh : w.num \in Nat
  <2> SUFFICES ASSUME NEW w \in Fresh PROVE w.num \in Nat
    OBVIOUS
  <2>1. PICK s \in staging : w.num = NextNumber(s.bk)
    BY <1>3
  <2>2. loads \in Nat /\ \A x \in core : x.num \in Nat /\ x.num =< loads
    BY <1>2 DEF Inside, TypeOK, Numbered
  <2> QED
    BY <2>1, <2>2, Numbers
<1> HIDE DEF Fresh
<1>9. Follow(core')
  <2> SUFFICES ASSUME NEW v \in core', NEW w \in core', v.bk = w.bk
               PROVE  /\ v # w => v.num # w.num
                      /\ v.num < w.num => v.to =< w.from /\ ~v.current
                      /\ \A r \in Records : From(v, r) /\ From(w, r) => v = w
    BY DEF Follow
  <2>1. CASE v \in core /\ w \in core
    BY <2>1 DEF Chained, Follow
  <2>2. CASE v \in core /\ w \in Fresh
    <3>1. /\ v.num < w.num /\ v.to =< w.from /\ ~v.current /\ w.current = TRUE
          /\ \A r \in Records : ~(From(v, r) /\ From(w, r))
      BY <1>6, <2>2
    <3>2. v.num \in Nat /\ w.num \in Nat
      BY <1>2, <1>8, <2>2, VersionIs DEF Inside
    <3>3. v.num # w.num
      BY ONLY <3>1, <3>2
    <3> QED
      BY ONLY <3>1, <3>3
  <2>3. CASE v \in Fresh /\ w \in core
    <3>1. /\ w.num < v.num /\ w.to =< v.from /\ ~w.current /\ v.current = TRUE
          /\ \A r \in Records : ~(From(w, r) /\ From(v, r))
      BY <1>6, <2>3
    <3>2. v.num \in Nat /\ w.num \in Nat
      BY <1>2, <1>8, <2>3, VersionIs DEF Inside
    <3>3. v.num # w.num /\ ~(v.num < w.num)
      BY ONLY <3>1, <3>2
    <3> QED
      BY ONLY <3>1, <3>3
  <2>4. CASE v \in Fresh /\ w \in Fresh
    <3>1. v = w /\ ~(v.num < w.num)
      BY <1>7, <1>8, <2>4
    <3> QED
      BY <3>1
  <2> QED
    BY <1>1, <2>1, <2>2, <2>3, <2>4
<1>10. Newest(core', staging)
  <2> SUFFICES ASSUME NEW s \in staging, NEW v \in core', v.bk = s.bk
               PROVE  IF Dated(s) THEN v.from =< s.updated /\ (~v.current => v.to =< s.updated)
                      ELSE v.current /\ From(v, s)
    BY DEF Newest
  <2>1. CASE v \in core
    BY <2>1 DEF Chained, Newest
  <2>2. CASE v \in Fresh
    <3>1. PICK t \in staging : /\ From(v, t) /\ v.bk = t.bk /\ v.from = ChangedAt(t)
                               /\ v.current = TRUE
      BY <1>3, <2>2
    <3>2. t = s
      BY <1>1, <3>1 DEF StagedOnce
    <3>3. Dated(s) => s.updated \in Nat
      BY <1>1, Constants
    <3> QED
      BY <3>1, <3>2, <3>3 DEF ChangedAt
  <2> QED
    BY <1>1, <2>1, <2>2
<1> QED
  BY <1>1, <1>5, <1>9, <1>10 DEF Chained

LEMMA ChainedInit == Init => Chained
BY FS_EmptySet DEF Init, Chained, Sourced, Follow, Newest

LEMMA ChainedNext ==
  ASSUME OneRecordATime, Inside, Chained, [Next]_vars
  PROVE  Chained'
<1>1. ASSUME UNCHANGED <<raw, core>>, staging' \in {staging, {}} PROVE Chained'
  BY <1>1 DEF Chained, Newest
<1>2. ASSUME core' = {}, UNCHANGED <<raw, staging>> PROVE Chained'
  BY <1>2 DEF Chained, Sourced, Follow, Newest
<1>3. ASSUME NEW r \in Records, Land(r) PROVE Chained'
  BY <1>3, LandChained
<1>4. CASE EmptyStaging \/ SkipStaging \/ AttachOrders \/ Stop \/ UNCHANGED vars
  BY <1>1, <1>4 DEF EmptyStaging, SkipStaging, AttachOrders, Stop, vars
<1>5. CASE FillStaging
  BY <1>5, FillChained
<1>6. CASE CloseChanged
  BY <1>6, CloseChained
<1>7. CASE OpenNew
  BY <1>7, OpenChained
<1>8. CASE LoseCore
  BY <1>2, <1>8 DEF LoseCore
<1> QED
  BY <1>3, <1>4, <1>5, <1>6, <1>7, <1>8 DEF Next

LEMMA ChainInvariance ==
  ASSUME OneRecordATime
  PROVE  Spec => [](Inside /\ Chained)
<1>1. Init => Inside /\ Chained
  BY InsideInit, ChainedInit
<1>2. Inside /\ Chained /\ [Next]_vars => (Inside /\ Chained)'
  BY InsideNext, ChainedNext
<1> QED
  BY <1>1, <1>2, PTL DEF Spec

(* The versions of a customer follow each other without a gap in their      *)
(* numbers' order and without overlap, and an order's date lies in at most  *)
(* one of them, if no two records of the customer carry one update time.    *)
THEOREM VersionsFollow ==
  ASSUME OneRecordATime
  PROVE  Spec => []VersionsChain
<1>1. Inside /\ Chained => VersionsChain
  <2> SUFFICES ASSUME Inside, Chained, NEW v \in core, NEW w \in core
               PROVE  /\ v.current => v.to = EndOfTime
                      /\ v.from =< v.to
                      /\ v.bk = w.bk /\ v # w => v.num # w.num
                      /\ v.bk = w.bk /\ v.num < w.num => v.to =< w.from /\ ~v.current
                      /\ \A o \in Orders : Covers(v, o) /\ Covers(w, o) => v = w
    BY DEF VersionsChain
  <2>1. /\ v.current => v.to = EndOfTime
        /\ v.from =< v.to
    BY DEF Chained, Sourced
  <2>2. \A x, y \in {v, w} :
          x.bk = y.bk =>
            /\ x # y => x.num # y.num
            /\ x.num < y.num => x.to =< y.from /\ ~x.current
    BY DEF Chained, Follow
  <2>3. ASSUME NEW o \in Orders, Covers(v, o), Covers(w, o), v # w PROVE FALSE
    <3>1. /\ v.from \in Nat /\ v.to \in Nat /\ v.num \in Nat
          /\ w.from \in Nat /\ w.to \in Nat /\ w.num \in Nat /\ o.at \in Nat
      BY VersionIs, CustomerScd2Assumption DEF Inside
    <3>2. v.bk = w.bk /\ v.from =< o.at /\ o.at < v.to /\ w.from =< o.at /\ o.at < w.to
      BY <2>3 DEF Covers
    <3>3. v.num < w.num \/ w.num < v.num
      BY <2>2, <2>3, <3>1, <3>2
    <3> QED
      BY <2>2, <3>1, <3>2, <3>3
  <2> QED
    BY <2>1, <2>2, <2>3
<1> QED
  BY <1>1, ChainInvariance, PTL

(* Loading the same records again opens no version: each version of a       *)
(* customer was opened for another record in RAW.                           *)
THEOREM ReloadsOpenNothing ==
  ASSUME OneRecordATime
  PROVE  Spec => []NoSpuriousVersions
<1>1. Inside /\ Chained => NoSpuriousVersions
  <2> SUFFICES ASSUME Inside, Chained, NEW k \in Keys
               PROVE  Cardinality({v \in core : v.bk = k}) =< Cardinality(Replayed(k))
    BY DEF NoSpuriousVersions
  <2> DEFINE mine == {v \in core : v.bk = k}
             landed == Replayed(k)
             f == [v \in mine |-> CHOOSE r \in raw : From(v, r)]
  <2>1. IsFiniteSet(landed)
    BY FS_Subset DEF Chained, Replayed
  <2>2. ASSUME NEW v \in mine PROVE f[v] \in landed /\ From(v, f[v]) /\ f[v] \in Records
    <3>1. \E r \in raw : From(v, r)
      BY DEF Chained, Sourced
    <3>2. f[v] \in raw /\ From(v, f[v])
      BY <3>1
    <3> QED
      BY <3>2 DEF Replayed, From, Inside, TypeOK
  <2>3. ASSUME NEW v \in mine, NEW w \in mine, f[v] = f[w] PROVE v = w
    BY <2>2, <2>3 DEF Chained, Follow
  <2>4. f \in [mine -> landed]
    BY <2>2
  <2> HIDE DEF f, mine, landed
  <2>5. f \in Injection(mine, landed)
    BY <2>3, <2>4 DEF Injection, IsInjective
  <2>6. Cardinality(mine) =< Cardinality(landed)
    BY <2>1, <2>5, FS_Injection
  <2> QED
    BY <2>6 DEF mine, landed
<1> QED
  BY <1>1, ChainInvariance, PTL

(* Both hold while the scheduled load and the rebuild take turns on CORE.   *)
THEOREM NightlyVersionsFollow ==
  ASSUME OneRecordATime
  PROVE  NightSpec => []VersionsChain /\ []NoSpuriousVersions
BY NightlyIsRebuild, VersionsFollow, ReloadsOpenNothing

-----------------------------------------------------------------------------
(* Surrogate keys *)

(* A surrogate key is of the customer of its version.                       *)
Keyed == \A v \in core : v.sk[1] = v.bk

KeysUnique == \A v, w \in core : v.sk = w.sk => v = w

LEMMA KeyedNext ==
  ASSUME Inside, Keyed, [Next]_vars
  PROVE  Keyed'
<1>1. \A v \in core : \A t : Closed(v, t).sk[1] = v.sk[1] /\ Closed(v, t).bk = v.bk
  <2> SUFFICES ASSUME NEW v \in core, NEW t
               PROVE  Closed(v, t).sk = v.sk /\ Closed(v, t).bk = v.bk
    OBVIOUS
  <2> QED
    BY ClosedSame, ZenonT(60) DEF Inside, TypeOK, SameBut
<1>2. CASE CloseChanged
  <2> SUFFICES ASSUME NEW w \in core' PROVE w.sk[1] = w.bk
    BY DEF Keyed
  <2>1. w \in core \/ \E sv \in staging \X core : w = Closed(sv[2], OrNow(sv[1]))
    BY <1>2 DEF CloseChanged
  <2> QED
    BY <1>1, <2>1 DEF Keyed
<1>3. CASE OpenNew
  <2> SUFFICES ASSUME NEW w \in core' PROVE w.sk[1] = w.bk
    BY DEF Keyed
  <2>1. w \in core \/ \E s \in staging : w = NewVersion(s)
    BY <1>3 DEF OpenNew
  <2> QED
    BY <2>1 DEF Keyed, NewVersion
<1>4. CASE UNCHANGED core \/ core' = {}
  BY <1>4 DEF Keyed
<1> QED
  BY <1>2, <1>3, <1>4 DEF Next, Land, EmptyStaging, FillStaging, SkipStaging, AttachOrders, Stop,
     LoseCore, vars

(* No two versions have one surrogate key, as                               *)
(* tests/data/test_warehouse_model.py:66 demands, if no two records of a    *)
(* customer carry one update time: the key is made of these two only.       *)
THEOREM SurrogateKeysUnique ==
  ASSUME OneRecordATime
  PROVE  Spec => []KeysUnique
<1>1. Inside /\ Chained /\ Keyed => KeysUnique
  <2> SUFFICES ASSUME Inside, Chained, Keyed, NEW v \in core, NEW w \in core, v.sk = w.sk
               PROVE  v = w
    BY DEF KeysUnique
  <2>1. v.bk = w.bk /\ v.sk[2] = w.sk[2] /\ v.sk[2] \in Nat /\ FirstLoad \in Nat
    BY VersionIs, Constants DEF Keyed, Inside
  <2>2. PICK r \in raw : From(v, r)
    BY DEF Chained, Sourced
  <2>3. PICK q \in raw : From(w, q)
    BY DEF Chained, Sourced
  <2>4. r \in Records /\ q \in Records /\ r.bk = q.bk
    BY <2>1, <2>2, <2>3 DEF Inside, TypeOK, From
  <2>5. r.updated = q.updated
    <3>1. /\ Dated(r) => r.updated \in Nat /\ r.updated =< FirstLoad
          /\ Dated(q) => q.updated \in Nat /\ q.updated =< FirstLoad
      BY <2>4, Constants
    <3>2. Dated(r) <=> Dated(q)
      BY <2>1, <2>2, <2>3, <3>1 DEF From
    <3> QED
      BY <2>1, <2>2, <2>3, <3>2 DEF From, Dated
  <2>6. r = q
    BY <2>4, <2>5 DEF OneRecordATime
  <2> QED
    BY <2>1, <2>2, <2>3, <2>4, <2>6 DEF Chained, Follow
<1>2. Init => Keyed
  BY DEF Init, Keyed
<1>3. Inside /\ Chained /\ Keyed /\ [Next]_vars => Keyed'
  BY KeyedNext
<1> QED
  BY <1>1, <1>2, <1>3, ChainInvariance, PTL DEF Spec
=============================================================================
