------------------------------ MODULE LocalBuild ------------------------------
(***************************************************************************)
(* local_warehouse/build.py: the warehouse file is unlinked and built      *)
(* again by scripts in a fixed order, the loader, the data-quality rules   *)
(* and the knowledge-base corpus.  A script that fails is recorded and the *)
(* build goes on; a failure of the loader or the rules ends it.  Builds    *)
(* run one after another, beside the data API, which opens the file when   *)
(* it is first asked and keeps it open.                                    *)
(*                                                                         *)
(* A file is what its tables hold: "part" is a table made from sources     *)
(* that were not all there.  The tables that a script fills count as one.  *)
(***************************************************************************)
EXTENDS KbCorpus

CONSTANTS
  Articles,     \* what a knowledge article may be
  MaxBuilds,    \* bound on the builds
  MaxFailures   \* bound on the steps that fail

ASSUME LocalBuildAssumption ==
  /\ MaxBuilds \in Nat /\ MaxFailures \in Nat
  /\ Articles \subseteq Seq(Part)

VARIABLES
  build,      \* the running or last build
  files,      \* every file there has been, by inode
  path,       \* the inode at LOCAL_WAREHOUSE_PATH, 0 for none
  conn,       \* the inode the data API has open, 0 for none
  failures

vars == <<build, files, path, conn, failures>>

-----------------------------------------------------------------------------
(* The steps *)

Ddl(makes) == [kind |-> "table", makes |-> makes, reads |-> {"schemas"}]
View(makes, reads) == [kind |-> "view", makes |-> {makes}, reads |-> reads]
Insert(makes, reads) == [kind |-> "insert", makes |-> {makes}, reads |-> reads]

DdlScripts ==
  <<View("schemas", {}),
    Ddl({"raw", "rejected"}), Ddl({"stgCustomer", "stgOrders", "stgService"}), Ddl({"core"}),
    Ddl({"orders", "support", "customer360"}), Ddl({"features", "scores", "corpus"}),
    Ddl({"rules", "results", "dictionary", "lineage"})>>

Summaries == {"orders", "support"}
Staging ==
  <<Insert("stgCustomer", {"raw"}), Insert("stgOrders", {"raw"}), Insert("stgService", {"raw"})>>
Analytics ==
  <<Insert("core", {"stgCustomer", "stgOrders", "stgService"}),
    Insert("orders", {"core"}), Insert("support", {"core", "orders"})>>
Features == Insert("features", {"core"} \cup Summaries)
Scores == Insert("scores", {"features"})
Customer360 == Insert("customer360", {"core", "scores"} \cup Summaries)

(* Seeded fault: the scripts in the order of their names. *)
TransformScriptsByName == Staging \o Analytics \o <<Customer360, Features, Scores>>

TransformScripts == Staging \o Analytics \o <<Features, Scores, Customer360>>

ViewScripts ==
  <<View("coreViews", {"core"}), View("apiViews", {"customer360", "features", "scores", "rules"})>>

DqScripts ==
  <<Insert("rules", {}), View("ruleViews", {"raw", "stgOrders", "core", "customer360", "results"}),
    Insert("rejected", {"raw", "stgCustomer", "stgOrders"})>>
GovernanceScripts == <<Insert("dictionary", {}), Insert("lineage", {})>>

LoadRaw == [kind |-> "load", makes |-> {"raw"}, reads |-> {}]
RunAll == [kind |-> "load", makes |-> {"results"}, reads |-> {"rules", "ruleViews"}]
BuildCorpus == [kind |-> "corpus", makes |-> {"corpus"}, reads |-> {"raw"}]

Steps ==
  DdlScripts \o <<LoadRaw>> \o TransformScripts \o ViewScripts
             \o DqScripts \o GovernanceScripts \o <<RunAll, BuildCorpus>>
Tables == UNION {Steps[i].makes : i \in DOMAIN Steps}
NewFile == [table |-> [t \in Tables |-> "absent"], article |-> <<>>, chunks |-> <<>>]

Fills(s) == s.kind \in {"insert", "load", "corpus"}

(* A statement finds the tables it names. *)
Ready(f, s) ==
  \A t \in s.reads \cup (IF Fills(s) THEN s.makes ELSE {}) : f.table[t] # "absent"

(* What a table is once its step is done. *)
Made(f, s) ==
  CASE s.kind = "table" -> "empty"
    [] s.kind = "view"  -> "full"
    [] Fills(s)         -> IF \A r \in s.reads : f.table[r] = "full" THEN "full" ELSE "part"

With(f, s, what) == [f EXCEPT !.table = [t \in Tables |-> IF t \in s.makes THEN what ELSE @[t]]]

Failing(f, s) ==
  {f} \cup (IF Fills(s) /\ Ready(f, s) THEN {With(f, s, "empty"), With(f, s, "part")} ELSE {})

-----------------------------------------------------------------------------
NoBuild == [n |-> 0, step |-> 0, inode |-> 0, errors |-> 0, exit |-> "none"]

(* The build's fields, and every inode named is a file that was made. *)
TypeOK ==
  /\ build.n \in 0..MaxBuilds /\ build.step \in 0..(Len(Steps) + 1)
  /\ build.errors \in 0..Len(Steps) /\ build.exit \in {"none", "0", "1"}
  /\ {build.inode, path, conn} \subseteq 0..Len(files)
  /\ \A i \in DOMAIN files : files[i].table \in [Tables -> {"absent", "empty", "part", "full"}]
  /\ failures \in 0..MaxFailures

Init == build = NoBuild /\ files = <<>> /\ path = 0 /\ conn = 0 /\ failures = 0

Running == build.step > 0 /\ build.exit = "none"

(* An unlinked file lasts as long as a process has it open. *)
Kept(open) == [i \in DOMAIN files |-> IF i \in open THEN files[i] ELSE NewFile]

(* The old file is unlinked, whoever has it open. *)
Start ==
  /\ ~Running /\ build.n < MaxBuilds
  /\ build' = [NoBuild EXCEPT !.n = build.n + 1, !.step = 1]
  /\ path' = 0 /\ files' = Kept({conn})
  /\ UNCHANGED <<conn, failures>>

Attached == IF path = 0 THEN Len(files) + 1 ELSE path

(* connect: what is at the path is opened, or a new file made. *)
Connect ==
  /\ path' = Attached
  /\ files' = IF path = 0 THEN Append(files, NewFile) ELSE files

(* The first script connects.  Another process that has the file open makes *)
(* that fail, and the build with it.                                        *)
Open ==
  /\ Running /\ build.inode = 0
  /\ \/ /\ path = 0 \/ path # conn
        /\ Connect /\ build' = [build EXCEPT !.inode = Attached]
     \/ /\ path # 0 /\ path = conn
        /\ build' = [build EXCEPT !.exit = "1"]
        /\ UNCHANGED <<files, path>>
  /\ UNCHANGED <<conn, failures>>

AtStep(kinds) ==
  Running /\ build.inode # 0 /\ build.step \in DOMAIN Steps /\ Steps[build.step].kind \in kinds
Step == Steps[build.step]
File == files[build.inode]

(* _run_script without an error; load_raw and run_all return. *)
StepDone ==
  /\ AtStep({"table", "view", "insert", "load"}) /\ Ready(File, Step)
  /\ files' = [files EXCEPT ![build.inode] = With(@, Step, Made(@, Step))]
  /\ build' = [build EXCEPT !.step = @ + 1]
  /\ UNCHANGED <<path, conn, failures>>

(* A step fails because a table is missing, or for a reason of its own. *)
Fails ==
  /\ \E f \in Failing(File, Step) : files' = [files EXCEPT ![build.inode] = f]
  /\ IF Ready(File, Step)
     THEN failures < MaxFailures /\ failures' = failures + 1
     ELSE UNCHANGED failures
  /\ UNCHANGED <<path, conn>>

(* A script, or the corpus: the error is kept and the build goes on. *)
StepFails ==
  /\ AtStep({"table", "view", "insert", "corpus"}) /\ Fails
  /\ build' = [build EXCEPT !.step = @ + 1, !.errors = @ + 1]

(* load_raw and run_all raise through build. *)
BuildAborts == AtStep({"load"}) /\ Fails /\ build' = [build EXCEPT !.exit = "1"]

(* build_corpus writes the document, then its chunks. *)
CorpusBuilt ==
  /\ AtStep({"corpus"}) /\ Ready(File, Step)
  /\ \E a \in Articles :
       files' = [files EXCEPT ![build.inode] =
                   [With(@, Step, Made(@, Step)) EXCEPT !.article = a, !.chunks = ChunkDocument(a)]]
  /\ build' = [build EXCEPT !.step = @ + 1]
  /\ UNCHANGED <<path, conn, failures>>

(* Seeded fault: the number of errors is the exit code. *)
ExitOfCount(errors) == IF errors = 0 THEN "0" ELSE IF errors = 1 THEN "1" ELSE "more"

ExitOf(errors) == IF errors = 0 THEN "0" ELSE "1"

Finish ==
  /\ Running /\ build.step = Len(Steps) + 1
  /\ build' = [build EXCEPT !.exit = ExitOf(build.errors)]
  /\ UNCHANGED <<files, path, conn, failures>>

(* The build is killed: what it wrote stays. *)
Killed ==
  /\ Running /\ build' = [build EXCEPT !.exit = "1"]
  /\ UNCHANGED <<files, path, conn, failures>>

(* The data API opens the file, unless the build has it. *)
ReaderOpens ==
  /\ conn = 0 /\ ~(Running /\ path # 0 /\ path = build.inode)
  /\ Connect /\ conn' = Attached
  /\ UNCHANGED <<build, failures>>

ReaderStops ==
  /\ conn # 0 /\ conn' = 0 /\ files' = Kept({path, build.inode})
  /\ UNCHANGED <<build, path, failures>>

Next ==
  \/ Start \/ Open \/ StepDone \/ StepFails \/ BuildAborts \/ CorpusBuilt \/ Finish \/ Killed
  \/ ReaderOpens \/ ReaderStops

Spec == Init /\ [][Next]_vars

-----------------------------------------------------------------------------
(* A build that exits with 0 leaves its own file at the path, with every    *)
(* table made from sources that were all there: CUSTOMER_360 wants the      *)
(* scores, the scores want the features, and a failed script only counts.   *)
SuccessMeansComplete ==
  build.exit = "0" =>
    /\ path = build.inode
    /\ \A t \in Tables : files[path].table[t] = "full"

(* An article that is in the corpus is in it whole: its chunks hold each of *)
(* its paragraphs once, in order and uncut, whatever failed since.          *)
ChunksWhole ==
  \A i \in DOMAIN files :
    files[i].table["corpus"] = "full" => Whole(files[i].article, files[i].chunks)
=============================================================================
