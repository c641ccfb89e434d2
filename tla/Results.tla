------------------------------ MODULE Results ------------------------------
(***************************************************************************)
(* The way of a Voltron result: the stages inside a container and its exit *)
(* status, the launcher that copies the archive or what there is of it,    *)
(* run.sh, which analyses and packs everything, and the later replay of    *)
(* coverage that was deferred.                                             *)
(*                                                                         *)
(* Any command may fail, and a container may be stopped at any moment.     *)
(* Containers share nothing and are stepped one after the other. A status  *)
(* is 0 or 1. Left out: what is only reported (synthesized components,     *)
(* samples of the fuzzer's state) and interrupts (module Launcher).        *)
(***************************************************************************)
EXTENDS Integers, Sequences, FiniteSets

CONSTANTS
    NumReplicas,    \* replications of the experiment
    Radix,          \* of the numbers in file names: 10
    MaxFailures     \* commands that fail, and containers that are stopped (a bound)

ASSUME ResultsAssumption ==
    NumReplicas \in Nat \ {0} /\ Radix \in Nat \ {0, 1} /\ MaxFailures \in Nat

VARIABLES
    settings,   \* [learn, deferred, compliance, batch]: VOLTRON_RUN_MODE=learn-export,
                \* VOLTRON_POSTPROCESS_MODE=fuzz-only, the compliance analysis, a model batch
    box,        \* the runner of each container: [at, status, compliance, learning, coverage, state]
    out,        \* its OUTDIR: [cases, queue, cov, report]
    archive,    \* OUTDIR.tar.gz in the container
    exit,       \* the container's exit status
    pipe,       \* where run_voltron.sh and run.sh are: "wait", "copy", "analyse", "ended"
    index,      \* of the replication that is copied
    saved,      \* the archive of each replication on the host
    experiment, \* the status of the launcher
    outcome,    \* the exit status of run.sh
    recovery,   \* of each replication: "none", "refused", "failed" or "package"
    failures

resultVars == <<settings, box, out, archive, exit, pipe, index, saved, experiment, outcome, recovery,
                failures>>

Replicas == 1..NumReplicas
Running == -1
Nothing == [cases |-> "none", queue |-> "absent", cov |-> "absent", report |-> "absent"]
NoFile == [Nothing EXCEPT !.cases = "nofile"]
Torn == [Nothing EXCEPT !.cases = "torn"]
Whole(file) == file \notin {NoFile, Torn}

ResultsInit ==
    /\ settings \in [learn : BOOLEAN, deferred : BOOLEAN, compliance : BOOLEAN, batch : BOOLEAN]
    /\ settings.learn => ~ settings.batch /\ ~ settings.deferred
    /\ box = [r \in Replicas |-> [at |-> "import", status |-> 1, compliance |-> 0, learning |-> 0,
                                  coverage |-> 0, state |-> "FAILED"]]
    /\ out = [r \in Replicas |-> Nothing] /\ archive = [r \in Replicas |-> NoFile]
    /\ exit = [r \in Replicas |-> Running]
    /\ pipe = "wait" /\ index = 1 /\ saved = [r \in Replicas |-> NoFile]
    /\ experiment = 0 /\ outcome = Running /\ recovery = [r \in Replicas |-> "none"]
    /\ failures = 0

Costs(ok) == IF ok THEN UNCHANGED failures ELSE failures < MaxFailures /\ failures' = failures + 1

----------------------------------------------------------------------------
(* profuzzbench_voltron_container.sh *)

hostVars == <<settings, pipe, index, saved, experiment, outcome, recovery>>

At(r, stage) == box[r].at = stage /\ exit[r] = Running /\ \A q \in 1..(r - 1) : exit[q] # Running
Goes(r, stage) == box' = [box EXCEPT ![r].at = stage]
Exits(r, status) == exit' = [exit EXCEPT ![r] = status]

\* A model batch that cannot be imported, or lacks generators, ends the container.
import_model_batch(r) ==
    /\ At(r, "import")
    /\ \/ Goes(r, "fuzz") /\ UNCHANGED <<exit, failures>>
       \/ settings.batch /\ Costs(FALSE) /\ Exits(r, 1) /\ UNCHANGED box
    /\ UNCHANGED <<out, archive, hostVars>>

\* cases: the test cases that the fuzzer retains, "bad" if none can be exported.
Fuzz(r) ==
    /\ At(r, "fuzz")
    /\ \E s \in 0..1 : Costs(s = 0) /\ box' = [box EXCEPT ![r].status = s, ![r].at = "compliance"]
    /\ \E c \in {"none", "good", "bad"} : out' = [out EXCEPT ![r].cases = c]
    /\ UNCHANGED <<archive, exit, hostVars>>

\* Pairs that are missing are no failure. A run that only learns stops here.
run_compliance_analysis(r) ==
    /\ At(r, "compliance")
    /\ \E s \in 0..1 :
       /\ Costs(s = 0)
       /\ IF settings.learn
          THEN box' = [box EXCEPT ![r].learning = s, ![r].state = "SKIPPED_LEARNING_ONLY", ![r].at = "report"]
          ELSE /\ s = 1 => settings.compliance
               /\ box' = [box EXCEPT ![r].compliance = s, ![r].at = "export"]
    /\ UNCHANGED <<out, archive, exit, hostVars>>

StartExport(r) ==
    /\ At(r, "export") /\ Goes(r, "exporting") /\ out' = [out EXCEPT ![r].queue = "part"]
    /\ UNCHANGED <<archive, exit, hostVars, failures>>

\* COVERAGE_STATUS=$? after an assignment is 0, also when the export failed.
DeferredTo(r, ok) ==
    box' = [box EXCEPT ![r].coverage = 0, ![r].state = IF ok THEN "DEFERRED" ELSE "DEFERRED_EXPORT_FAILED",
                       ![r].at = "report"]
Judged(r, ok, next) ==
    box' = [box EXCEPT ![r].coverage = IF ok THEN 0 ELSE 1, ![r].state = IF ok THEN "COMPLETED" ELSE "FAILED",
                       ![r].at = next]

\* The exporter fails if it can export none of the test cases it finds.
export_cases(r) ==
    /\ At(r, "exporting")
    /\ \E ok \in BOOLEAN :
          /\ ok => out[r].cases # "bad"
          /\ Costs(ok \/ out[r].cases = "bad")
          /\ out' = [out EXCEPT ![r].queue =
                        IF out[r].cases # "good" THEN "empty" ELSE IF ok THEN "full" ELSE "part"]
          /\ IF settings.deferred THEN DeferredTo(r, ok) ELSE Judged(r, ok, IF ok THEN "coverage" ELSE "report")
    /\ UNCHANGED <<archive, exit, hostVars>>

\* profuzzbench_voltron_coverage.sh: without test cases there is a header.
StartCoverage(r) ==
    /\ At(r, "coverage")
    /\ \/ Costs(FALSE) /\ Judged(r, FALSE, "report") /\ UNCHANGED out
       \/ /\ out[r].queue = "empty" /\ Judged(r, TRUE, "report")
          /\ out' = [out EXCEPT ![r].cov = "header"] /\ UNCHANGED failures
       \/ /\ out[r].queue # "empty" /\ Goes(r, "replaying")
          /\ out' = [out EXCEPT ![r].cov = "part"] /\ UNCHANGED failures
    /\ UNCHANGED <<archive, exit, hostVars>>

\* Only rows that are whole are kept; there must be one.
EndCoverage(r) ==
    /\ At(r, "replaying")
    /\ \/ Costs(FALSE) /\ Judged(r, FALSE, "report") /\ UNCHANGED out
       \/ Judged(r, TRUE, "report") /\ out' = [out EXCEPT ![r].cov = "rows"] /\ UNCHANGED failures
    /\ UNCHANGED <<archive, exit, hostVars>>

\* The report replaces an earlier one as a whole; that it is written is not checked.
write_postprocess_status(r) ==
    /\ At(r, "report") /\ Goes(r, "package")
    /\ \E s \in {box[r].state, "absent"} : Costs(s # "absent") /\ out' = [out EXCEPT ![r].report = s]
    /\ UNCHANGED <<archive, exit, hostVars>>

\* The archive has its name when it is whole; a failed mv is not noticed.
CreateArchive(r) ==
    /\ At(r, "package")
    /\ \/ Costs(FALSE) /\ Exits(r, 1) /\ UNCHANGED <<box, archive>>
       \/ /\ Goes(r, "exit") /\ UNCHANGED exit
          /\ \E a \in {out[r], NoFile} : Costs(a # NoFile) /\ archive' = [archive EXCEPT ![r] = a]
    /\ UNCHANGED <<out, hostVars>>

ExitStatusWithoutCoverage(b) == IF 1 \in {b.status, b.compliance, b.learning} THEN 1 ELSE 0
ExitStatus(b) == IF 1 \in {b.status, b.compliance, b.learning, b.coverage} THEN 1 ELSE 0
RunnerExits(r) ==
    At(r, "exit") /\ Exits(r, ExitStatus(box[r])) /\ UNCHANGED <<box, out, archive, hostVars, failures>>

\* docker stop, a lack of memory, the end of the host's daemon.
Stopped(r) ==
    /\ exit[r] = Running /\ \A q \in 1..(r - 1) : exit[q] # Running
    /\ Costs(FALSE) /\ Exits(r, 1) /\ UNCHANGED <<box, out, archive, hostVars>>

----------------------------------------------------------------------------
(* run_voltron.sh and run.sh *)

boxVars == <<settings, box, out, archive, exit>>

WaitForContainers ==
    /\ pipe = "wait" /\ \A r \in Replicas : exit[r] # Running
    /\ \E ok \in BOOLEAN : Costs(ok) /\ experiment' = IF ok /\ \A r \in Replicas : exit[r] = 0 THEN 0 ELSE 1
    /\ pipe' = "copy"
    /\ UNCHANGED <<boxVars, index, saved, outcome, recovery>>

\* The archive, or else the directory as it is, packed here. What is left of a
\* file that could not be written is not removed.
copy_container_result(r) ==
    /\ pipe = "copy" /\ index = r
    /\ \E f \in {archive[r], out[r], NoFile, Torn} :
          /\ Costs(f \in {archive[r], out[r]} \ {NoFile})
          /\ saved' = [saved EXCEPT ![r] = f]
          /\ experiment' = IF Whole(f) THEN experiment ELSE 1
    /\ IF r = NumReplicas THEN pipe' = "analyse" /\ UNCHANGED index ELSE index' = r + 1 /\ UNCHANGED pipe
    /\ UNCHANGED <<boxVars, outcome, recovery>>

\* The digits of every number up to top.
Digits(top) ==
    LET d[k \in 0..top] == IF k < Radix THEN <<k>> ELSE Append(d[k \div Radix], k % Radix)
    IN d

\* The name that sort -r puts first, as the number of replications: digit by
\* digit from the left, and the longer name if one begins the other.
Before(m, n) ==
    LET d == Digits(IF m <= n THEN n ELSE m)
        a == d[m]
        b == d[n]
        differ == {i \in DOMAIN a \cap DOMAIN b : a[i] # b[i]}
        first == CHOOSE i \in differ : \A j \in differ : i <= j
    IN IF differ = {} THEN Len(a) > Len(b) ELSE a[first] > b[first]
LastReplica(numbers) == CHOOSE m \in numbers : \A n \in numbers \ {m} : Before(m, n)

\* profuzzbench_generate_csv.sh asks every archive for coverage, but for those
\* whose report says that it is deferred.
Deferred(file) == Whole(file) /\ file.report = "DEFERRED"
Converted(file) == Whole(file) /\ (Deferred(file) \/ file.cov # "absent")
Measures(file) == Whole(file) /\ ~ Deferred(file) /\ file.cov \in {"part", "rows"}

\* fine: plots are drawn, states converted and files copied.
Analysis(files, fine) ==
    LET there == {r \in Replicas : files[r] # NoFile}
        looked == IF there = {} THEN {} ELSE 1..LastReplica(there)
    IN IF /\ fine /\ there # {}
          /\ \A r \in looked : Converted(files[r])
          /\ \E r \in looked : Measures(files[r]) \/ Deferred(files[r])
       THEN 0 ELSE 1

\* What is there is analysed and packed also after a failed experiment.
AnalyseAndPack ==
    /\ pipe = "analyse" /\ pipe' = "ended"
    /\ \E fine, packed \in BOOLEAN :
          /\ Costs(fine /\ packed)
          /\ outcome' = IF packed /\ experiment = 0 THEN Analysis(saved, fine) ELSE 1
    /\ UNCHANGED <<boxVars, index, saved, experiment, recovery>>

----------------------------------------------------------------------------
(* profuzzbench_recover_voltron_coverage.sh *)

Recover(r) ==
    /\ pipe = "ended" /\ recovery[r] = "none"
    /\ \E s \in IF Whole(saved[r]) /\ saved[r].queue \in {"part", "full"} THEN {"failed", "package"} ELSE {"refused"} :
          Costs(s # "failed") /\ recovery' = [recovery EXCEPT ![r] = s]
    /\ UNCHANGED <<boxVars, pipe, index, saved, experiment, outcome>>

AllRecovered == pipe = "ended" /\ (\A r \in Replicas : recovery[r] # "none") /\ UNCHANGED resultVars

ResultsNext ==
    \/ \E r \in Replicas :
          \/ import_model_batch(r) \/ Fuzz(r) \/ run_compliance_analysis(r)
          \/ StartExport(r) \/ export_cases(r) \/ StartCoverage(r) \/ EndCoverage(r)
          \/ write_postprocess_status(r) \/ CreateArchive(r) \/ RunnerExits(r) \/ Stopped(r)
          \/ copy_container_result(r) \/ Recover(r)
    \/ WaitForContainers \/ AnalyseAndPack \/ AllRecovered

ResultsSpec == ResultsInit /\ [][ResultsNext]_resultVars

----------------------------------------------------------------------------
(* Properties *)

\* The queue holds every test case that can be exported.
QueueComplete(file) == file.queue = IF file.cases = "good" THEN "full" ELSE "empty"

\* An experiment ends with 0 only if each container did all that it was asked to
\* and its coverage is measured, or there was nothing to measure, or it can be
\* replayed: what the container's status hides when an export fails, the analysis
\* tells. One that only learns never ends with 0; and with fewer replications
\* than two digits take, none is left out.
SuccessMeansMeasured ==
    outcome = 0 =>
       /\ ~ settings.learn
       /\ \A n \in 1..(Radix - 1) : LastReplica(1..n) = n
       /\ \A r \in Replicas :
             LET f == saved[r] IN
             /\ box[r].status = 0 /\ box[r].compliance = 0 /\ Whole(f)
             /\ \/ f.cov = "rows"
                \/ f.cov = "header" /\ f.cases = "none"
                \/ Deferred(f) /\ QueueComplete(f) /\ f.cases # "bad"

\* Of whatever was copied, also from a container that was stopped: coverage that
\* is said to be deferred is not refused by the recovery if there was a test case.
DeferredIsReplayable ==
    \A r \in Replicas :
       /\ Deferred(saved[r]) => QueueComplete(saved[r])
       /\ recovery[r] = "refused" => ~ (Deferred(saved[r]) /\ saved[r].cases = "good")
       /\ (Whole(saved[r]) /\ saved[r].report = "COMPLETED") => saved[r].cov \in {"header", "rows"}

\* run.sh ends with 0 only if every container did what it was asked to and its
\* coverage is measured or can be: the analysis tells what a container's exit
\* status hides when its export fails.  And a copied archive, also of a container
\* that was stopped, holds every test case if it says that coverage is deferred.
ResultsTruthful == SuccessMeansMeasured /\ DeferredIsReplayable
=============================================================================
