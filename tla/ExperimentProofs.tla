-------------------------- MODULE ExperimentProofs --------------------------
(***************************************************************************)
(* The three sides of an experiment, one after the other.                  *)
(*                                                                         *)
(* Launcher: what the exit statuses of the executor and its launchers say, *)
(* for any number of jobs and replications, any interrupts and faults of   *)
(* docker.  The inductive invariant follows a launcher through its         *)
(* replications: until its handler begins, cids are those started so far,  *)
(* but for the one that has just been started.                             *)
(*                                                                         *)
(* SharedFiles: what is true of the files that launchers share, for every  *)
(* number of launchers, replications and profiles, and every mixture of    *)
(* helpers that fail or are killed.  One argument per lock: whoever is     *)
(* between reading and writing a file holds its lock, so what it has read  *)
(* is still true when it writes.                                           *)
(*                                                                         *)
(* Results: what the exit status of run.sh and the archives say, for every *)
(* setting and any number of commands that fail and containers that are    *)
(* stopped.  The invariant says of each stage what is in OUTDIR, so that   *)
(* it is known wherever the container was stopped.                         *)
(***************************************************************************)
EXTENDS Launcher, SharedFiles, Results, TLAPS

----------------------------------------------------------------------------
----------------------------------------------------------------------------
(* The executor and its launchers *)

\* A launcher by itself.
Started(j) ==
    /\ lpc[j] \in {"none", "setup"} => launched[j] = 0
    /\ lpc[j] \in {"none", "setup", "launch", "watch", "collect"} => cids[j] = 1 .. launched[j]
    /\ lpc[j] = "launched" => launched[j] >= 1 /\ cids[j] = 1 .. (launched[j] - 1)
    /\ lpc[j] \in {"watch", "collect"} => launched[j] = Runs
    /\ lpc[j] \in {"quiesce", "stop"} => cids[j] = 1 .. launched[j] \/ cids[j] = 1 .. (launched[j] - 1)
    /\ \A i \in Replications : i > launched[j] => container[j][i] = "none"

StatusFollows(j) ==
    /\ lpc[j] \notin Over => lstatus[j] \in {0, 1}
    /\ lpc[j] = "killed" => lstatus[j] = Killed
    /\ lpc[j] = "collect" /\ lstatus[j] = 0 => \A i \in Replications : container[j][i] = "ok"
    /\ lpc[j] = "exited" /\ lstatus[j] = 0 =>
          \A i \in Replications : container[j][i] = "ok" /\ i \in archived[j]

HandlerFollows(j) ==
    lpc[j] = "salvage" \/ (lpc[j] = "exited" /\ lstatus[j] = 130) =>
        \A i \in Replications : container[j][i] = "running" => i = launched[j] /\ i \notin cids[j]

JobInv(j) == Started(j) /\ StatusFollows(j) /\ HandlerFollows(j)

\* The executor knows every job that it has forked, but for the one just
\* forked; it takes the end of a subshell for that of its launcher until it
\* kills subshells itself, and then it does not exit with 0.
ExecutorInv ==
    /\ \A j \in Jobs : j > forked => lpc[j] = "none" /\ subshell[j] = "none" /\ j \notin jobPids
    /\ epc = "fork" => jobPids = 1 .. forked
    /\ epc = "forked" => forked >= 1 /\ jobPids = 1 .. (forked - 1)
    /\ epc = "wait" => jobPids = Jobs
    /\ epc \in {"fork", "forked", "wait"} => \A j \in Jobs : subshell[j] = "gone" => lpc[j] \in Over
    /\ epc = "exited" /\ estatus = 0 => \A j \in Jobs : lpc[j] = "exited" /\ lstatus[j] = 0

LauncherInv == TypeOK /\ (\A j \in Jobs : JobInv(j)) /\ ExecutorInv

----------------------------------------------------------------------------
(* Types *)

LEMMA InitInv == Init => LauncherInv
<1> SUFFICES ASSUME Init PROVE LauncherInv
  OBVIOUS
<1>1. TypeOK
  <2>1. NumJobs \in Nat /\ Runs \in Nat /\ MaxInterrupts \in Nat
    BY LauncherAssumption
  <2>2. 0 \in 0 .. NumJobs /\ 0 \in 0 .. Runs /\ 0 \in 0 .. MaxInterrupts
    BY <2>1
  <2> QED BY <2>2 DEF Init, TypeOK
<1>2. \A j \in Jobs : JobInv(j)
  BY DEF Init, JobInv, Started, StatusFollows, HandlerFollows, Over
<1>3. ExecutorInv
  BY DEF Init, ExecutorInv, Over
<1> QED BY <1>1, <1>2, <1>3 DEF LauncherInv

Places == {"none", "setup"} \union Working \union Handling \union Over
LauncherStatuses == {0, 1, 2, 125, 130, Killed}
Conditions == {"none", "running", "unstopped", "ok", "failed", "stopped"}

\* A step of a launcher keeps the types.
LEMMA LauncherType ==
    ASSUME TypeOK, NEW j \in Jobs, Started(j), LauncherStep(j)
    PROVE  TypeOK'
<1> DEFINE T1 == lpc' \in [Jobs -> Places] /\ lsignal' \in [Jobs -> BOOLEAN]
           T2 == lstatus' \in [Jobs -> LauncherStatuses]
           T3 == launched' \in [Jobs -> 0 .. Runs]
           T4 == cids' \in [Jobs -> SUBSET Replications]
           T5 == container' \in [Jobs -> [Replications -> Conditions]]
           T6 == archived' \in [Jobs -> SUBSET Replications]
<1>0. /\ lpc \in [Jobs -> Places] /\ lsignal \in [Jobs -> BOOLEAN] /\ lstatus \in [Jobs -> LauncherStatuses]
      /\ launched \in [Jobs -> 0 .. Runs] /\ cids \in [Jobs -> SUBSET Replications]
      /\ container \in [Jobs -> [Replications -> Conditions]] /\ archived \in [Jobs -> SUBSET Replications]
  BY DEF TypeOK, Places, LauncherStatuses, Conditions
<1>1. /\ UNCHANGED <<epc, forked, jobPids, esignal, estatus, subshell, interrupts>>
      /\ Runs \in Nat /\ launched[j] \in Int
      /\ launched[j] < Runs => launched[j] + 1 \in 0 .. Runs /\ launched[j] + 1 \in Replications
  BY <1>0, LauncherAssumption DEF LauncherStep, executorVars, Replications
<1>2. ASSUME T1, T2, T3, T4, T5, T6 PROVE TypeOK'
  BY <1>1, <1>2 DEF TypeOK, Places, LauncherStatuses, Conditions
<1> USE DEF Places, LauncherStatuses, Working, Handling, Over
<1>3. T1
  <2>1. \/ UNCHANGED lpc
        \/ \E place \in Places : lpc' = [lpc EXCEPT ![j] = place]
    BY DEF LauncherStep, Prepare, PrepareFails, DockerRun, DockerRunFails, RecordId, StartWatching, Watch,
           Collect, EnterHandler, Quiesce, StopContainers, Salvage, LauncherGoto, LauncherExit
  <2>2. lsignal' = lsignal \/ lsignal' = [lsignal EXCEPT ![j] = FALSE]
    BY DEF LauncherStep, Prepare, PrepareFails, DockerRun, DockerRunFails, RecordId, StartWatching, Watch,
           Collect, EnterHandler, Quiesce, StopContainers, Salvage
  <2> HIDE DEF Places
  <2>3. lpc' \in [Jobs -> Places]
    BY <1>0, <2>1
  <2>4. lsignal' \in [Jobs -> BOOLEAN]
    BY <1>0, <2>2
  <2> QED BY <2>3, <2>4
<1>4. T2
  <2>1. CASE PrepareFails(j) \/ DockerRunFails(j) \/ Salvage(j)
    <3>1. UNCHANGED lstatus \/ \E status \in {2, 125, 130} : lstatus' = [lstatus EXCEPT ![j] = status]
      BY <2>1 DEF PrepareFails, DockerRunFails, Salvage, LauncherExit
    <3>2. CASE UNCHANGED lstatus
      BY <1>0, <3>2
    <3>3. ASSUME NEW status \in {2, 125, 130}, lstatus' = [lstatus EXCEPT ![j] = status] PROVE T2
      <4>1. status \in LauncherStatuses
        OBVIOUS
      <4> HIDE DEF LauncherStatuses
      <4> QED BY <1>0, <3>3, <4>1
    <3> QED BY <3>1, <3>2, <3>3
  <2>2. CASE Watch(j)
    BY <1>0, <2>2 DEF Watch
  <2>3. CASE Collect(j)
    <3>1. lstatus[j] \in LauncherStatuses
      BY <1>0
    <3> QED BY <1>0, <2>3, <3>1 DEF Collect, LauncherExit
  <2>4. CASE UNCHANGED lstatus
    BY <1>0, <2>4
  <2> QED BY <2>1, <2>2, <2>3, <2>4
          DEF LauncherStep, Prepare, DockerRun, RecordId, StartWatching, EnterHandler, Quiesce, StopContainers
<1>5. T3
  <2>1. CASE DockerRun(j) \/ DockerRunFails(j)
    BY <1>0, <1>1, <2>1 DEF DockerRun, DockerRunFails
  <2>2. CASE UNCHANGED launched
    BY <1>0, <2>2
  <2> QED BY <2>1, <2>2 DEF LauncherStep, Prepare, PrepareFails, RecordId, StartWatching, Watch, Collect,
                            EnterHandler, Quiesce, StopContainers, Salvage
<1>6. T4
  <2>1. CASE DockerRunFails(j)
    BY <1>0, <1>1, <2>1 DEF DockerRunFails
  <2>2. CASE RecordId(j)
    <3>1. launched[j] \in Replications
      BY <1>0, <1>1, <2>2 DEF RecordId, LauncherGoto, Started, Replications
    <3> QED BY <1>0, <2>2, <3>1 DEF RecordId
  <2>3. CASE UNCHANGED cids
    BY <1>0, <2>3
  <2> QED BY <2>1, <2>2, <2>3 DEF LauncherStep, Prepare, PrepareFails, DockerRun, StartWatching, Watch, Collect,
                                  EnterHandler, Quiesce, StopContainers, Salvage
<1>7. T5
  <2>1. container[j] \in [Replications -> Conditions]
    BY <1>0
  <2>2. CASE DockerRun(j)
    <3> DEFINE c == [container[j] EXCEPT ![launched[j] + 1] = "running"]
    <3>1. c \in [Replications -> Conditions]
      BY <2>1 DEF Conditions
    <3>2. container' = [container EXCEPT ![j] = c]
      BY <2>2 DEF DockerRun
    <3> HIDE DEF c
    <3> QED BY <1>0, <3>1, <3>2
  <2>3. CASE StopContainers(j)
    <3>1. PICK refused \in SUBSET cids[j] :
            container' = [container EXCEPT ![j] = [i \in Replications |->
                IF i \notin cids[j] \/ @[i] # "running" THEN @[i]
                ELSE IF i \in refused THEN "unstopped" ELSE "stopped"]]
      BY <2>3 DEF StopContainers
    <3> DEFINE c == [i \in Replications |->
                        IF i \notin cids[j] \/ container[j][i] # "running" THEN container[j][i]
                        ELSE IF i \in refused THEN "unstopped" ELSE "stopped"]
    <3>2. c \in [Replications -> Conditions]
      BY <2>1 DEF Conditions
    <3>3. container' = [container EXCEPT ![j] = c]
      BY <3>1
    <3> HIDE DEF c
    <3> QED BY <1>0, <3>2, <3>3
  <2>4. CASE UNCHANGED container
    BY <1>0, <2>4
  <2> QED BY <2>2, <2>3, <2>4 DEF LauncherStep, Prepare, PrepareFails, DockerRunFails, RecordId, StartWatching,
                                  Watch, Collect, EnterHandler, Quiesce, Salvage
<1>8. T6
  <2>1. CASE Collect(j) \/ Salvage(j)
    <3>1. PICK copied \in SUBSET cids[j] : archived' = [archived EXCEPT ![j] = @ \cup copied]
      BY <2>1 DEF Collect, Salvage, Copied
    <3>2. copied \subseteq Replications
      BY <1>0
    <3> QED BY <1>0, <3>1, <3>2
  <2>2. CASE UNCHANGED archived
    BY <1>0, <2>2
  <2> QED BY <2>1, <2>2 DEF LauncherStep, Prepare, PrepareFails, DockerRun, DockerRunFails, RecordId,
                            StartWatching, Watch, EnterHandler, Quiesce, StopContainers
<1> QED BY <1>2, <1>3, <1>4, <1>5, <1>6, <1>7, <1>8

\* So do signals,
LEMMA SignalType ==
    ASSUME TypeOK, NEW S, SignalLaunchers(S)
    PROVE  /\ lpc' \in [Jobs -> {"none", "setup"} \union Working \union Handling \union Over]
           /\ lsignal' \in [Jobs -> BOOLEAN]
           /\ lstatus' \in [Jobs -> {0, 1, 2, 125, 130, Killed}]
<1>1. lsignal' \in [Jobs -> BOOLEAN]
  BY DEF SignalLaunchers
<1>2. lpc' \in [Jobs -> {"none", "setup"} \union Working \union Handling \union Over]
  BY DEF SignalLaunchers, TypeOK, Over
<1>3. lstatus' \in [Jobs -> {0, 1, 2, 125, 130, Killed}]
  BY DEF SignalLaunchers, TypeOK
<1> QED BY <1>1, <1>2, <1>3

\* and every other step.
LEMMA TypeStep == ASSUME LauncherInv, [Next]_vars PROVE TypeOK'
<1> USE DEF TypeOK
<1>0. TypeOK /\ forked \in Int /\ NumJobs \in Nat /\ MaxInterrupts \in Nat
  BY LauncherAssumption DEF LauncherInv
<1>1. CASE UNCHANGED vars \/ Finished
  BY <1>0, <1>1 DEF vars, Finished, executorVars, launcherVars
<1>2. ASSUME NEW j \in Jobs, LauncherStep(j) PROVE TypeOK'
  BY <1>2, LauncherType DEF LauncherInv, JobInv
<1>3. ASSUME NEW j \in Jobs, ContainerStep(j) PROVE TypeOK'
  <2>1. container' \in [Jobs -> [Replications -> {"none", "running", "unstopped", "ok", "failed", "stopped"}]]
    BY <1>0, <1>3 DEF ContainerStep, ContainerEnds
  <2>2. UNCHANGED <<epc, forked, jobPids, esignal, estatus, subshell, interrupts,
                    lpc, lsignal, lstatus, launched, cids, archived>>
    BY <1>3 DEF ContainerStep, ContainerEnds, executorVars
  <2> QED BY <1>0, <2>1, <2>2
<1>4. ASSUME NEW j \in Jobs, SubshellEnds(j) PROVE TypeOK'
  BY <1>0, <1>4 DEF SubshellEnds, launcherVars
<1>5. CASE Interrupt
  <2>1. PICK S : SignalLaunchers(S)
    BY <1>5 DEF Interrupt
  <2>2. interrupts' \in 0 .. MaxInterrupts
    BY <1>0, <1>5 DEF Interrupt
  <2>3. epc' \in {"fork", "forked", "wait", "signal", "reap", "exited", "killed"} /\ esignal' \in BOOLEAN
    BY <1>0, <1>5 DEF Interrupt, SignalExecutor
  <2>4. UNCHANGED <<forked, jobPids, estatus, subshell, launched, cids, container, archived>>
    BY <1>5 DEF Interrupt
  <2> QED BY <1>0, <2>1, <2>2, <2>3, <2>4, SignalType
<1>6. CASE Fork
  <2>1. forked + 1 \in Jobs /\ forked + 1 \in 0 .. NumJobs
    BY <1>0, <1>6 DEF Fork, Jobs
  <2> QED BY <1>0, <1>6, <2>1 DEF Fork
<1>7. CASE RecordJob
  <2>1. forked \in Jobs
    BY <1>0, <1>7 DEF RecordJob, LauncherInv, ExecutorInv, Jobs
  <2> QED BY <1>0, <1>7, <2>1 DEF RecordJob, launcherVars
<1>8. CASE StartWaiting \/ WaitJobs \/ EnterExecutionHandler \/ ReapJobs
  <2>1. epc' \in {"wait", "exited", "signal"} /\ esignal' \in BOOLEAN /\ estatus' \in {0, 1, 130}
    BY <1>0, <1>8 DEF StartWaiting, WaitJobs, EnterExecutionHandler, ReapJobs
  <2>2. UNCHANGED <<forked, jobPids, subshell, interrupts, lpc, lsignal, lstatus, launched, cids,
                    container, archived>>
    BY <1>8 DEF StartWaiting, WaitJobs, EnterExecutionHandler, ReapJobs, launcherVars
  <2> QED BY <1>0, <2>1, <2>2
<1>9. CASE SignalJobs
  <2>1. subshell' \in [Jobs -> {"none", "alive", "gone"}]
    BY <1>0, <1>9 DEF SignalJobs
  <2>2. epc' = "reap" /\ UNCHANGED <<forked, jobPids, esignal, estatus, launched, cids, container,
                                    archived, interrupts>>
    BY <1>9 DEF SignalJobs
  <2>3. SignalLaunchers(jobPids \intersect Voltron)
    BY <1>9 DEF SignalJobs
  <2> QED BY <1>0, <2>1, <2>2, <2>3, SignalType
<1> QED BY <1>1, <1>2, <1>3, <1>4, <1>5, <1>6, <1>7, <1>8, <1>9 DEF Next, ExecutorStep

----------------------------------------------------------------------------
(* A launcher by itself *)

\* What JobInv is about stays as it is.
SameJob(j) ==
    /\ lpc'[j] = lpc[j] /\ lstatus'[j] = lstatus[j] /\ launched'[j] = launched[j] /\ cids'[j] = cids[j]
    /\ container'[j] = container[j] /\ archived'[j] = archived[j]

LEMMA SameJobKeeps == ASSUME NEW j \in Jobs, JobInv(j), SameJob(j) PROVE JobInv(j)'
  BY DEF JobInv, Started, StatusFollows, HandlerFollows, SameJob

\* A step of one launcher does not touch another.
LEMMA OthersStay ==
    ASSUME TypeOK, NEW j \in Jobs, NEW k \in Jobs, j # k, LauncherStep(k) \/ ContainerStep(k)
    PROVE  SameJob(j)
<1> USE DEF TypeOK, SameJob, LauncherGoto, LauncherExit
<1>1. CASE ContainerStep(k)
  BY <1>1 DEF ContainerStep, ContainerEnds
<1>2. CASE Prepare(k) \/ PrepareFails(k) \/ DockerRun(k) \/ DockerRunFails(k) \/ RecordId(k)
  BY <1>2 DEF Prepare, PrepareFails, DockerRun, DockerRunFails, RecordId
<1>3. CASE StartWatching(k) \/ Watch(k) \/ EnterHandler(k) \/ Quiesce(k) \/ StopContainers(k)
  BY <1>3 DEF StartWatching, Watch, EnterHandler, Quiesce, StopContainers
<1>4. CASE Collect(k) \/ Salvage(k)
  BY <1>4 DEF Collect, Salvage, Copied
<1> QED BY <1>1, <1>2, <1>3, <1>4 DEF LauncherStep

\* Each step of a launcher keeps its invariant.
LEMMA OwnStep == ASSUME TypeOK, NEW j \in Jobs, JobInv(j), LauncherStep(j) PROVE JobInv(j)'
<1> USE DEF JobInv, Started, StatusFollows, HandlerFollows, LauncherGoto, LauncherExit, Working, Over
<1>0. /\ lpc \in [Jobs -> Places] /\ lstatus \in [Jobs -> LauncherStatuses]
      /\ launched \in [Jobs -> 0 .. Runs] /\ cids \in [Jobs -> SUBSET Replications]
      /\ container \in [Jobs -> [Replications -> Conditions]] /\ archived \in [Jobs -> SUBSET Replications]
      /\ launched[j] \in Int
  BY DEF TypeOK, Places, LauncherStatuses, Conditions
<1>1. CASE Prepare(j) \/ PrepareFails(j)
  BY <1>0, <1>1 DEF Prepare, PrepareFails
<1>2. CASE DockerRun(j)
  <2>1. /\ lpc[j] = "launch" /\ lpc'[j] = "launched" /\ launched'[j] = launched[j] + 1
        /\ lstatus'[j] = lstatus[j] /\ cids'[j] = cids[j]
    BY <1>0, <1>2 DEF DockerRun
  <2>2. launched'[j] >= 1 /\ cids'[j] = 1 .. (launched'[j] - 1)
    BY <1>0, <2>1
  <2>3. \A i \in Replications : i # launched[j] + 1 => container'[j][i] = container[j][i]
    BY <1>0, <1>2 DEF DockerRun
  <2>4. ASSUME NEW i \in Replications, i > launched'[j] PROVE container'[j][i] = "none"
    <3>1. i # launched[j] + 1 /\ i > launched[j]
      BY <1>0, <2>1, <2>4 DEF Replications
    <3>2. container'[j][i] = container[j][i]
      BY <2>3, <2>4, <3>1
    <3>3. container[j][i] = "none"
      BY <2>4, <3>1
    <3> QED BY <3>2, <3>3
  <2> QED BY <2>1, <2>2, <2>4
<1>3. CASE DockerRunFails(j)
  <2>1. CASE j \in Voltron
    BY <1>0, <1>3, <2>1 DEF DockerRunFails
  <2>2. CASE j \notin Voltron
    <3>1. /\ lpc[j] = "launch" /\ lpc'[j] = "launch" /\ launched'[j] = launched[j] + 1
          /\ lstatus'[j] = lstatus[j] /\ cids'[j] = cids[j] \union {launched[j] + 1}
          /\ container'[j] = container[j]
      BY <1>0, <1>3, <2>2 DEF DockerRunFails
    <3>2. cids'[j] = 1 .. launched'[j]
      BY <1>0, <3>1
    <3>3. \A i \in Replications : i > launched'[j] => container'[j][i] = "none"
      BY <1>0, <3>1 DEF Replications
    <3> QED BY <3>1, <3>2, <3>3
  <2> QED BY <2>1, <2>2
<1>4. CASE RecordId(j)
  <2>1. /\ lpc[j] = "launched" /\ lpc'[j] = "launch" /\ launched'[j] = launched[j]
        /\ lstatus'[j] = lstatus[j] /\ cids'[j] = cids[j] \union {launched[j]}
        /\ container'[j] = container[j]
    BY <1>0, <1>4 DEF RecordId
  <2>2. cids'[j] = 1 .. launched'[j]
    BY <1>0, <2>1
  <2> QED BY <2>1, <2>2
<1>5. CASE StartWatching(j)
  BY <1>0, <1>5 DEF StartWatching
<1>6. CASE Watch(j)
  <2>1. /\ lpc[j] = "watch" /\ lpc'[j] = "collect" /\ launched'[j] = launched[j] /\ cids'[j] = cids[j]
        /\ container' = container
        /\ lstatus'[j] = 1 \/ (lstatus'[j] = 0 /\ \A i \in cids[j] : container[j][i] = "ok")
    BY <1>0, <1>6 DEF Watch
  <2>2. cids[j] = Replications
    BY <2>1 DEF Replications
  <2> QED BY <2>1, <2>2
<1>7. CASE Collect(j)
  <2>1. PICK copied \in SUBSET cids[j] :
          /\ archived' = [archived EXCEPT ![j] = @ \union copied]
          /\ lstatus' = [lstatus EXCEPT ![j] = IF copied = cids[j] THEN lstatus[j] ELSE 1]
    BY <1>7 DEF Collect, Copied
  <2>2. /\ lpc[j] = "collect" /\ lpc'[j] = "exited" /\ container' = container /\ cids'[j] = cids[j]
        /\ launched'[j] = launched[j]
    BY <1>0, <1>7 DEF Collect
  <2>3. cids[j] = Replications
    BY <2>2 DEF Replications
  <2>4. lstatus'[j] \in {0, 1} /\ (lstatus'[j] = 0 => lstatus[j] = 0 /\ copied = Replications)
    BY <1>0, <2>1, <2>2, <2>3
  <2>5. lstatus'[j] = 0 => \A i \in Replications : i \in archived'[j]
    BY <1>0, <2>1, <2>4
  <2> QED BY <2>2, <2>4, <2>5
<1>8. CASE EnterHandler(j) \/ Quiesce(j)
  BY <1>0, <1>8 DEF EnterHandler, Quiesce
<1>9. CASE StopContainers(j)
  <2>1. /\ lpc[j] = "stop" /\ lpc'[j] = "salvage" /\ lstatus'[j] = lstatus[j] /\ cids'[j] = cids[j]
        /\ launched'[j] = launched[j]
        /\ \A i \in Replications :
              IF i \notin cids[j] \/ container[j][i] # "running" THEN container'[j][i] = container[j][i]
              ELSE container'[j][i] \in {"unstopped", "stopped"}
    BY <1>0, <1>9 DEF StopContainers
  <2>2. ASSUME NEW i \in Replications, container'[j][i] = "running" PROVE i \notin cids[j] /\ i <= launched[j]
    <3>1. i \notin cids[j] /\ container[j][i] = "running"
      BY <2>1, <2>2
    <3> QED BY <1>0, <3>1 DEF Replications
  <2>3. \A i \in Replications : i \notin cids[j] /\ i <= launched[j] => i = launched[j]
    BY <1>0, <2>1 DEF Replications
  <2>4. \A i \in Replications : i > launched[j] => container'[j][i] = "none"
    BY <1>0, <2>1 DEF Replications
  <2> QED BY <2>1, <2>2, <2>3, <2>4
<1>10. CASE Salvage(j)
  BY <1>0, <1>10 DEF Salvage
<1> QED BY <1>1, <1>2, <1>3, <1>4, <1>5, <1>6, <1>7, <1>8, <1>9, <1>10 DEF LauncherStep

\* A container that ends was running.
LEMMA OwnContainer == ASSUME TypeOK, NEW j \in Jobs, JobInv(j), ContainerStep(j) PROVE JobInv(j)'
<1>1. PICK i \in Replications, how \in {"ok", "failed"} :
        container[j][i] \in Alive /\ container' = [container EXCEPT ![j][i] = how]
  BY DEF ContainerStep, ContainerEnds
<1>2. UNCHANGED <<lpc, lstatus, launched, cids, archived>>
  BY DEF ContainerStep, ContainerEnds
<1>3. \A k \in Replications : /\ container[j][k] = "ok" => container'[j][k] = "ok"
                              /\ container'[j][k] = "running" => container[j][k] = "running"
                              /\ container[j][k] = "none" => container'[j][k] = "none"
  BY <1>1 DEF TypeOK, Alive
<1>4. cids[j] \subseteq Replications
  BY DEF TypeOK
<1> QED BY <1>2, <1>3, <1>4 DEF JobInv, Started, StatusFollows, HandlerFollows

\* A signal only ends launchers that are not yet, or no longer, prepared for it.
LEMMA SignalKeeps ==
    ASSUME TypeOK, NEW j \in Jobs, JobInv(j), NEW S, SignalLaunchers(S),
           UNCHANGED <<launched, cids, container, archived>>
    PROVE  JobInv(j)'
<1>1. CASE j \in S /\ lpc[j] \in Handling \union {"setup"}
  <2>1. lpc'[j] = "killed" /\ lstatus'[j] = Killed
    BY <1>1 DEF SignalLaunchers
  <2> QED BY <2>1 DEF JobInv, Started, StatusFollows, HandlerFollows, Over
<1>2. CASE ~ (j \in S /\ lpc[j] \in Handling \union {"setup"})
  <2>1. SameJob(j)
    BY <1>2 DEF SignalLaunchers, SameJob
  <2> QED BY <2>1, SameJobKeeps
<1> QED BY <1>1, <1>2

LEMMA JobStep == ASSUME LauncherInv, [Next]_vars, NEW j \in Jobs PROVE JobInv(j)'
<1>0. TypeOK /\ JobInv(j)
  BY DEF LauncherInv
<1>1. ASSUME NEW k \in Jobs, LauncherStep(k) \/ ContainerStep(k) PROVE JobInv(j)'
  BY <1>0, <1>1, OwnStep, OwnContainer, OthersStay, SameJobKeeps
<1>2. CASE Interrupt \/ SignalJobs
  BY <1>0, <1>2, SignalKeeps DEF Interrupt, SignalJobs
<1>3. CASE Fork
  <2>1. CASE j = forked + 1
    <3>1. lpc[j] = "none" /\ lpc'[j] = "setup"
      BY <1>0, <1>3, <2>1 DEF Fork, LauncherInv, ExecutorInv, TypeOK
    <3>2. UNCHANGED <<lstatus, launched, cids, container, archived>>
      BY <1>3 DEF Fork
    <3> QED BY <1>0, <3>1, <3>2 DEF JobInv, Started, StatusFollows, HandlerFollows, Over
  <2>2. CASE j # forked + 1
    <3>1. SameJob(j)
      BY <1>0, <1>3, <2>2 DEF Fork, SameJob, TypeOK
    <3> QED BY <1>0, <3>1, SameJobKeeps
  <2> QED BY <2>1, <2>2
<1>4. ASSUME UNCHANGED launcherVars PROVE JobInv(j)'
  BY <1>0, <1>4, SameJobKeeps DEF launcherVars, SameJob
<1>5. CASE RecordJob \/ StartWaiting \/ WaitJobs \/ EnterExecutionHandler \/ ReapJobs
  BY <1>4, <1>5 DEF RecordJob, StartWaiting, WaitJobs, EnterExecutionHandler, ReapJobs
<1>6. ASSUME NEW k \in Jobs, SubshellEnds(k) PROVE JobInv(j)'
  BY <1>4, <1>6 DEF SubshellEnds
<1>7. CASE UNCHANGED vars \/ Finished
  BY <1>4, <1>7 DEF Finished, vars
<1> QED BY <1>1, <1>2, <1>3, <1>5, <1>6, <1>7 DEF Next, ExecutorStep

----------------------------------------------------------------------------
(* The executor *)

\* A launcher neither starts nor ends an end.
LEMMA OverStays ==
    ASSUME TypeOK, NEW j \in Jobs, NEW k \in Jobs, LauncherStep(k), lpc[j] \in Over \union {"none"}
    PROVE  lpc'[j] = lpc[j] /\ lstatus'[j] = lstatus[j]
<1>1. j # k
  BY DEF Over, LauncherStep, Prepare, PrepareFails, DockerRun, DockerRunFails, RecordId, StartWatching, Watch,
         Collect, EnterHandler, Quiesce, StopContainers, Salvage, LauncherGoto, Working
<1> QED BY <1>1, OthersStay DEF SameJob

LEMMA ExecutorStepKeeps == ASSUME LauncherInv, [Next]_vars PROVE ExecutorInv'
<1> USE DEF ExecutorInv
<1>0. TypeOK /\ ExecutorInv /\ forked \in Int /\ NumJobs \in Nat /\ forked <= NumJobs
  BY LauncherAssumption DEF LauncherInv, TypeOK
<1>1. ASSUME NEW k \in Jobs, LauncherStep(k) PROVE ExecutorInv'
  <2>1. UNCHANGED <<epc, forked, jobPids, estatus, subshell>>
    BY <1>1 DEF LauncherStep, executorVars
  <2>2. \A j \in Jobs : lpc[j] \in Over \union {"none"} => lpc'[j] = lpc[j] /\ lstatus'[j] = lstatus[j]
    BY <1>0, <1>1, OverStays
  <2> QED BY <1>0, <2>1, <2>2 DEF Over
<1>2. ASSUME UNCHANGED <<executorVars, lpc, lstatus>> PROVE ExecutorInv'
  BY <1>0, <1>2 DEF executorVars
<1>3. ASSUME NEW k \in Jobs, ContainerStep(k) PROVE ExecutorInv'
  BY <1>2, <1>3 DEF ContainerStep, ContainerEnds
<1>4. CASE UNCHANGED vars \/ Finished
  BY <1>2, <1>4 DEF vars, Finished, launcherVars
<1>5. ASSUME NEW k \in Jobs, SubshellEnds(k) PROVE ExecutorInv'
  <2>1. /\ UNCHANGED <<epc, forked, jobPids, estatus, lpc, lstatus>>
        /\ \A j \in Jobs : subshell'[j] # subshell[j] => j = k
        /\ lpc[k] \in Over
    BY <1>0, <1>5 DEF SubshellEnds, launcherVars, TypeOK
  <2> QED BY <1>0, <2>1 DEF Over
<1>6. ASSUME NEW S, SignalLaunchers(S), NEW j \in Jobs, lpc[j] \in Over \union {"none"}
      PROVE  lpc'[j] = lpc[j] /\ lstatus'[j] = lstatus[j]
  BY <1>6 DEF SignalLaunchers, Over, Handling
<1>7. CASE Interrupt
  <2>1. PICK S : SignalLaunchers(S)
    BY <1>7 DEF Interrupt
  <2>2. UNCHANGED <<forked, jobPids, estatus, subshell>> /\ (epc' = epc \/ epc' = "killed")
    BY <1>7 DEF Interrupt, SignalExecutor
  <2> QED BY <1>0, <1>6, <2>1, <2>2 DEF Over
<1>8. CASE SignalJobs
  <2>1. /\ epc' = "reap" /\ UNCHANGED <<forked, jobPids>>
        /\ \A j \in Jobs : subshell'[j] = IF j \in jobPids \ Voltron THEN "gone" ELSE subshell[j]
    BY <1>8 DEF SignalJobs
  <2>2. SignalLaunchers(jobPids \intersect Voltron)
    BY <1>8 DEF SignalJobs
  <2> QED BY <1>0, <1>6, <2>1, <2>2
<1>9. CASE Fork
  <2>1. /\ epc = "fork" /\ epc' = "forked" /\ forked' = forked + 1 /\ forked >= 0 /\ UNCHANGED <<jobPids, lstatus>>
        /\ \A j \in Jobs : j # forked + 1 => subshell'[j] = subshell[j] /\ lpc'[j] = lpc[j]
        /\ \A j \in Jobs : j = forked + 1 => subshell'[j] = "alive"
    BY <1>0, <1>9 DEF Fork, TypeOK
  <2> QED BY <1>0, <2>1 DEF Jobs
<1>10. CASE RecordJob
  BY <1>0, <1>10 DEF RecordJob, launcherVars
<1>11. CASE StartWaiting
  BY <1>0, <1>11 DEF StartWaiting, launcherVars, Jobs
<1>12. CASE WaitJobs
  <2>1. /\ epc = "wait" /\ epc' = "exited" /\ \A j \in Jobs : lpc[j] \in Over
        /\ estatus' = 0 => \A j \in Jobs : lstatus[j] = 0
        /\ UNCHANGED <<forked, jobPids, subshell, lpc, lstatus>>
    BY <1>0, <1>12 DEF WaitJobs, launcherVars
  <2>2. \A j \in Jobs : lpc[j] = "killed" => lstatus[j] # 0
    BY DEF LauncherInv, JobInv, StatusFollows, Killed
  <2> QED BY <1>0, <2>1, <2>2 DEF Over
<1>13. CASE EnterExecutionHandler \/ ReapJobs
  BY <1>0, <1>13 DEF EnterExecutionHandler, ReapJobs, launcherVars
<1> QED BY <1>1, <1>3, <1>4, <1>5, <1>7, <1>8, <1>9, <1>10, <1>11, <1>12, <1>13 DEF Next, ExecutorStep

----------------------------------------------------------------------------

LEMMA LauncherInvariant == Spec => []LauncherInv
<1>1. Init => LauncherInv
  BY InitInv
<1>2. LauncherInv /\ [Next]_vars => LauncherInv'
  BY TypeStep, JobStep, ExecutorStepKeeps DEF LauncherInv
<1> QED BY <1>1, <1>2, PTL DEF Spec

\* Every reachable state of the executor, its launchers and their containers is
\* well typed: recorded containers and archives are replications of the job.
THEOREM LauncherTypeCorrect == Spec => []TypeOK
<1>1. LauncherInv => TypeOK
  BY DEF LauncherInv
<1> QED BY <1>1, LauncherInvariant, PTL

\* Exit status 0 of the executor means that every container of every job ended
\* well and that its archive was copied, whatever failed and whoever was
\* interrupted on the way.
THEOREM StatusAlwaysTruthful == Spec => []StatusTruthful
<1>1. LauncherInv => StatusTruthful
  BY DEF LauncherInv, ExecutorInv, JobInv, StatusFollows, StatusTruthful
<1> QED BY <1>1, LauncherInvariant, PTL

\* A launcher that reaches the end of its handler leaves nothing running but
\* what docker stop failed on and at most the container it was starting when
\* the signal came, wherever that was.
THEOREM HandlerAlwaysLosesAtMostOne == Spec => []HandlerLosesAtMostOne
<1>1. LauncherInv => HandlerLosesAtMostOne
  BY DEF LauncherInv, JobInv, HandlerFollows, HandlerLosesAtMostOne
<1> QED BY <1>1, LauncherInvariant, PTL

----------------------------------------------------------------------------
(* A SIGTERM to an executor of Voltron jobs, with a daemon that does not    *)
(* fail: the other cases lose containers, as the runs show.                *)

OnlyTerminated == Voltron = Jobs /\ Interrupts = {"terminate"} /\ ~ DaemonFaults

Quiet(j) == \A i \in cids[j] : container[j][i] \notin Alive

\* A launcher hears of nothing before the executor signals it, and its subshell
\* is itself; whoever has left it behind has left no recorded container running.
StopInv(j) ==
    /\ epc \in {"fork", "forked", "wait", "signal"} => ~ lsignal[j] /\ lpc[j] \notin Handling \union {"killed"}
    /\ lpc[j] \in {"collect", "salvage"} \/ lpc[j] \in Over => Quiet(j)
    /\ \A i \in Replications : container[j][i] # "unstopped"
    /\ subshell[j] = "gone" => lpc[j] \in Over
    /\ epc = "exited" /\ estatus = 130 /\ j \in jobPids => lpc[j] \in Over

LEMMA StopByLauncher ==
    ASSUME TypeOK, OnlyTerminated, NEW j \in Jobs, JobInv(j), StopInv(j), LauncherStep(j)
    PROVE  StopInv(j)'
<1> USE DEF StopInv, Quiet, LauncherGoto, LauncherExit, Working, Handling, Over
<1>0. /\ lpc \in [Jobs -> Places] /\ lsignal \in [Jobs -> BOOLEAN]
      /\ UNCHANGED <<epc, estatus, jobPids, subshell>>
  BY DEF TypeOK, Places, LauncherStep, executorVars
<1>1. CASE Prepare(j) \/ StartWatching(j) \/ RecordId(j)
  BY <1>0, <1>1 DEF Prepare, StartWatching, RecordId
<1>8. CASE DockerRun(j)
  <2>1. \A i \in Replications : container'[j][i] \in {container[j][i], "running"}
    BY <1>8 DEF DockerRun, TypeOK
  <2> QED BY <1>0, <1>8, <2>1 DEF DockerRun
<1>2. CASE PrepareFails(j) \/ DockerRunFails(j)
  BY <1>2 DEF PrepareFails, DockerRunFails, OnlyTerminated
<1>3. CASE Watch(j)
  BY <1>0, <1>3 DEF Watch, OnlyTerminated
<1>4. CASE Collect(j)
  BY <1>0, <1>4 DEF Collect
<1>5. CASE EnterHandler(j) \/ Quiesce(j)
  BY <1>0, <1>5 DEF EnterHandler, Quiesce
<1>6. CASE StopContainers(j)
  <2>1. \A i \in Replications : container'[j][i] =
           IF i \notin cids[j] \/ container[j][i] # "running" THEN container[j][i] ELSE "stopped"
    BY <1>6 DEF StopContainers, OnlyTerminated, TypeOK
  <2>2. \A i \in Replications : container[j][i] # "unstopped"
    OBVIOUS
  <2> QED BY <1>0, <1>6, <2>1, <2>2 DEF StopContainers, TypeOK, Alive
<1>7. CASE Salvage(j)
  BY <1>0, <1>7 DEF Salvage
<1> QED BY <1>1, <1>2, <1>3, <1>4, <1>5, <1>6, <1>7, <1>8 DEF LauncherStep

\* A step of another launcher does not signal this one either.
LEMMA OthersSilent ==
    ASSUME TypeOK, NEW j \in Jobs, NEW k \in Jobs, j # k, LauncherStep(k) \/ ContainerStep(k)
    PROVE  lsignal'[j] = lsignal[j] /\ UNCHANGED <<epc, estatus, jobPids, subshell>>
BY DEF TypeOK, LauncherStep, ContainerStep, executorVars, ContainerEnds, Prepare, PrepareFails, DockerRun,
       DockerRunFails, RecordId, StartWatching, Watch, Collect, EnterHandler, Quiesce, StopContainers, Salvage

LEMMA StopStep ==
    ASSUME LauncherInv, OnlyTerminated, \A j \in Jobs : StopInv(j), [Next]_vars, NEW j \in Jobs
    PROVE  StopInv(j)'
<1>0. TypeOK /\ JobInv(j) /\ ExecutorInv /\ StopInv(j) /\ forked \in Int /\ NumJobs \in Nat
  BY LauncherAssumption DEF LauncherInv, TypeOK
<1>1. ASSUME SameJob(j), lsignal'[j] = lsignal[j], UNCHANGED <<epc, estatus, jobPids, subshell>>
      PROVE  StopInv(j)'
  BY <1>0, <1>1 DEF StopInv, Quiet, SameJob
<1>2. ASSUME NEW k \in Jobs, LauncherStep(k) PROVE StopInv(j)'
  BY <1>0, <1>1, <1>2, StopByLauncher, OthersStay, OthersSilent
<1>3. ASSUME NEW k \in Jobs, ContainerStep(k) PROVE StopInv(j)'
  <2>1. PICK i \in Replications, how \in {"ok", "failed"} :
          container[k][i] \in Alive /\ container' = [container EXCEPT ![k][i] = how]
    BY <1>3 DEF ContainerStep, ContainerEnds
  <2>2. \A r \in Replications : /\ container'[j][r] \in Alive => container[j][r] \in Alive
                                /\ container'[j][r] # "unstopped"
    BY <1>0, <2>1 DEF TypeOK, Alive, StopInv
  <2>3. cids[j] \subseteq Replications
    BY <1>0 DEF TypeOK
  <2>4. UNCHANGED <<epc, estatus, jobPids, subshell, lpc, lsignal, cids>>
    BY <1>3 DEF ContainerStep, ContainerEnds, executorVars
  <2> QED BY <1>0, <2>2, <2>3, <2>4 DEF StopInv, Quiet
<1>4. ASSUME NEW k \in Jobs, SubshellEnds(k) PROVE StopInv(j)'
  BY <1>0, <1>4 DEF SubshellEnds, launcherVars, TypeOK, StopInv, Quiet
<1>5. CASE Interrupt
  <2>1. SignalLaunchers({}) /\ SignalExecutor
    BY <1>5 DEF Interrupt, OnlyTerminated
  <2>2. lpc'[j] = lpc[j] /\ lsignal'[j] = lsignal[j]
    BY <1>0, <2>1 DEF SignalLaunchers, TypeOK
  <2>3. (epc' = epc \/ epc' = "killed") /\ UNCHANGED <<estatus, jobPids, subshell, cids, container>>
    BY <1>5, <2>1 DEF Interrupt, SignalExecutor
  <2> QED BY <1>0, <2>2, <2>3 DEF StopInv, Quiet
<1>6. CASE Fork
  <2>1. CASE j = forked + 1
    <3>1. /\ lpc'[j] = "setup" /\ subshell'[j] = "alive" /\ epc' = "forked" /\ lsignal' = lsignal
          /\ epc = "fork" /\ container' = container
      BY <1>0, <1>6, <2>1 DEF Fork, TypeOK
    <3> QED BY <1>0, <3>1 DEF StopInv, Over, Handling
  <2>2. CASE j # forked + 1
    BY <1>0, <1>6, <2>2 DEF Fork, TypeOK, StopInv, Quiet
  <2> QED BY <2>1, <2>2
<1>7. CASE RecordJob \/ StartWaiting \/ EnterExecutionHandler
  BY <1>0, <1>7 DEF RecordJob, StartWaiting, EnterExecutionHandler, launcherVars, StopInv, Quiet
<1>8. CASE WaitJobs \/ ReapJobs
  BY <1>0, <1>8 DEF WaitJobs, ReapJobs, launcherVars, StopInv, Quiet
<1>9. CASE SignalJobs
  <2>1. /\ epc = "signal" /\ epc' = "reap" /\ subshell'[j] = subshell[j] /\ UNCHANGED <<cids, container>>
        /\ SignalLaunchers(jobPids \intersect Voltron)
    BY <1>0, <1>9 DEF SignalJobs, OnlyTerminated, TypeOK
  <2>2. lpc[j] \notin Handling \union {"killed"}
    BY <1>0, <2>1 DEF StopInv
  <2>3. CASE lpc'[j] = lpc[j]
    BY <1>0, <2>1, <2>3 DEF StopInv, Quiet
  <2>4. CASE lpc'[j] # lpc[j]
    <3>1. lpc[j] = "setup" /\ lpc'[j] = "killed"
      BY <2>1, <2>2, <2>4 DEF SignalLaunchers
    <3>2. cids[j] = {}
      BY <1>0, <3>1 DEF JobInv, Started
    <3> QED BY <2>1, <3>1, <3>2 DEF StopInv, Quiet, Over
  <2> QED BY <2>3, <2>4
<1>10. CASE UNCHANGED vars \/ Finished
  BY <1>0, <1>1, <1>10 DEF Finished, vars, executorVars, launcherVars, SameJob
<1> QED BY <1>2, <1>3, <1>4, <1>5, <1>6, <1>7, <1>8, <1>9, <1>10 DEF Next, ExecutorStep

\* SIGTERM to an executor of Voltron jobs, as often as it comes: when the
\* executor has handled it, no container that a launcher had recorded runs on.
THEOREM RecordedAlwaysStopped == OnlyTerminated /\ Spec => []RecordedContainersStopped
<1> SUFFICES ASSUME OnlyTerminated PROVE Spec => []RecordedContainersStopped
  OBVIOUS
<1>1. Init => \A j \in Jobs : StopInv(j)
  BY DEF Init, StopInv, Quiet, Over, Handling
<1>2. LauncherInv /\ (\A j \in Jobs : StopInv(j)) /\ [Next]_vars => (\A j \in Jobs : StopInv(j))'
  BY StopStep
<1>3. LauncherInv /\ (\A j \in Jobs : StopInv(j)) => RecordedContainersStopped
  BY DEF LauncherInv, TypeOK, StopInv, Quiet, RecordedContainersStopped
<1> QED BY <1>1, <1>2, <1>3, LauncherInvariant, PTL DEF Spec

----------------------------------------------------------------------------
----------------------------------------------------------------------------
(* The files that launchers share *)

(* Types *)

Prewarming == {"prewarm", "build", "retire", "publish"}
Recording == {"startedRead", "finishedRead"}
Counting == {"truncate", "count"}
Steps == Prewarming \cup Recording \cup Counting \cup
         {"copy", "place", "pick", "run", "started", "finished", "stopped", "done"}
Events == {"started", "finished"}

FilesTypeOK ==
    /\ pc \in [Launchers -> Steps] /\ rep \in [Launchers -> 1..NumReplications]
    /\ prewarm \in [Launchers -> {"unknown", "ok", "failed"}]
    /\ locks \in [{"template", "counter", "manifest"} -> Launchers \cup {NoOne, "client"}]
    /\ template \in {"none", "leftover", "part", "ready", "nested"}
    /\ temporary \in [Launchers -> {"none", "part", "ready"}]
    /\ copy \in [Launchers -> {"none", "whole", "old"}]
    /\ cacheOf \in [Containers -> {"none", "whole", "old"}]
    /\ counter \in Int /\ read \in [Launchers -> Nat] /\ picked \in [Profiles -> Nat]
    /\ manifest \in [Containers -> SUBSET Events] /\ reported \in [Containers -> SUBSET Events]
    /\ seen \in [Launchers -> [Containers -> SUBSET Events]]
    /\ reset \in BOOLEAN

\* Division with a remainder.
LEMMA Division ==
    ASSUME NEW N \in Nat \ {0}, NEW n \in Nat
    PROVE  n = N * (n \div N) + (n % N)
  BY SMT

\* The number after n, counted round a circle of N.
LEMMA NextInTurn ==
    ASSUME NEW N \in Nat \ {0}, NEW n \in Nat
    PROVE  /\ n % N \in 0..(N - 1)
           /\ (n + 1) % N = IF n % N = N - 1 THEN 0 ELSE (n % N) + 1
<1> DEFINE q == n \div N
           q2 == (n + 1) \div N
           r == n % N
           r2 == (n + 1) % N
<1>1. /\ n \in Int /\ N \in Int /\ N >= 1 /\ r \in 0..(N - 1) /\ r2 \in 0..(N - 1) /\ q \in Int /\ q2 \in Int
  BY SMT
<1>2. n = N * q + r
  BY Division
<1>3. n + 1 = N * q2 + r2
  BY Division, n + 1 \in Nat
<1> HIDE DEF q, q2, r, r2
<1>4. q2 = q \/ q2 = q + 1 \/ q2 - q >= 2 \/ q2 - q <= -1
  BY <1>1
<1>5. N * q2 = N * q + N * (q2 - q)
  BY <1>1, SMT
<1>6. r + 1 = N * (q2 - q) + r2
  <2> DEFINE a == N * q
             b == N * q2
             c == N * (q2 - q)
  <2>1. a \in Int /\ b \in Int /\ c \in Int
    BY <1>1
  <2>2. n = a + r /\ n + 1 = b + r2 /\ b = a + c
    BY <1>2, <1>3, <1>5
  <2> HIDE DEF a, b, c
  <2>3. r + 1 = c + r2
    BY <1>1, <2>1, <2>2
  <2> QED BY <2>3 DEF c
<1>7. CASE q2 = q
  <2>1. N * (q2 - q) = 0
    BY <1>1, <1>7
  <2>2. r + 1 = r2
    BY <1>1, <1>6, <2>1
  <2> QED BY <1>1, <2>2 DEF r, r2
<1>8. CASE q2 = q + 1
  <2>1. N * (q2 - q) = N
    BY <1>1, <1>8
  <2>2. r = N - 1 /\ r2 = 0
    BY <1>1, <1>6, <2>1
  <2> QED BY <1>1, <2>2 DEF r, r2
<1>9. CASE q2 - q >= 2
  <2>1. N * (q2 - q) >= 2 * N
    BY <1>1, <1>9, SMT
  <2> QED BY <1>1, <1>6, <2>1
<1>10. CASE q2 - q <= -1
  <2>1. N * (q2 - q) <= -N
    BY <1>1, <1>10, SMT
  <2> QED BY <1>1, <1>6, <2>1
<1> QED BY <1>4, <1>7, <1>8, <1>9, <1>10

\* The initial states are well typed.
LEMMA FilesTypeInit == ASSUME FilesInit PROVE FilesTypeOK
<1>1. NoRecords \in [Containers -> SUBSET Events] /\ 1 \in 1..NumReplications /\ counter \in Int
  BY FilesAssumption DEF FilesInit, NoRecords, Absent, Empty
<1> QED BY <1>1 DEF FilesInit, FilesTypeOK, Steps, Prewarming

\* A record with one more event is a record.
LEMMA EventAdded ==
    ASSUME NEW C, NEW f \in [C -> SUBSET Events], NEW c, NEW e \in Events
    PROVE  [f EXCEPT ![c] = @ \cup {e}] \in [C -> SUBSET Events]
<1>1. \A d \in C : [f EXCEPT ![c] = @ \cup {e}][d] \in SUBSET Events
  OBVIOUS
<1> QED BY <1>1

\* Every step keeps the types.
LEMMA FilesTypeStep ==
    ASSUME FilesTypeOK, [FilesNext]_filesVars
    PROVE  FilesTypeOK'
<1> USE DEF FilesTypeOK, Steps, Prewarming, Recording, Counting,
            Goto, Takes, Releases, Faulty, templateVars, copyVars, counterVars, manifestVars
<1>1. CASE UNCHANGED filesVars
  BY <1>1 DEF filesVars
<1>2. CASE ClientEnds \/ AllEnded
  BY <1>2 DEF ClientEnds, AllEnded, filesVars
<1>3. ASSUME NEW l \in Launchers, LockTemplate(l) \/ Build(l) \/ Retire(l) \/ Publish(l) \/ PrewarmStops(l)
      PROVE  FilesTypeOK'
  <2>1. CASE LockTemplate(l)
    <3>1. CASE template = "ready"
      <4>1. pc' = [pc EXCEPT ![l] = "copy"] /\ prewarm' = [prewarm EXCEPT ![l] = "ok"]
        BY <2>1, <3>1 DEF LockTemplate
      <4>2. UNCHANGED <<rep, locks, template, temporary, copy, cacheOf, counter, read, picked, reset,
                        manifest, seen, reported>>
        BY <2>1, <3>1 DEF LockTemplate
      <4> QED BY <4>1, <4>2
    <3>2. CASE template # "ready"
      <4>1. pc' = [pc EXCEPT ![l] = "build"] /\ locks' = [locks EXCEPT !["template"] = l]
            /\ temporary' = [temporary EXCEPT ![l] = "part"]
        BY <2>1, <3>2 DEF LockTemplate
      <4>2. UNCHANGED <<rep, prewarm, template, copy, cacheOf, counterVars, manifestVars>>
        BY <2>1, <3>2 DEF LockTemplate
      <4> QED BY <4>1, <4>2
    <3> QED BY <3>1, <3>2
  <2>2. CASE Build(l)
    BY <2>2 DEF Build
  <2>3. CASE Retire(l)
    BY <2>3 DEF Retire
  <2>4. CASE Publish(l)
    BY <2>4 DEF Publish
  <2>5. CASE PrewarmStops(l)
    BY <2>5 DEF PrewarmStops
  <2> QED BY <1>3, <2>1, <2>2, <2>3, <2>4, <2>5
<1>4. ASSUME NEW l \in Launchers, StartCopy(l) \/ Place(l) \/ CopyStops(l) \/ StartContainer(l)
      PROVE  FilesTypeOK'
  <2>1. CASE StartCopy(l)
    <3>1. CASE template = "none"
      BY <2>1, <3>1 DEF StartCopy
    <3>2. ASSUME NEW which \in {"whole", "old"}, copy' = [copy EXCEPT ![l] = which],
                 pc' = [pc EXCEPT ![l] = "place"]
          PROVE  FilesTypeOK'
      <4>1. UNCHANGED <<rep, prewarm, locks, template, temporary, cacheOf, counter, read, picked,
                        reset, manifest, seen, reported>>
        BY <2>1 DEF StartCopy
      <4> QED BY <3>2, <4>1
    <3>3. template # "none" => /\ pc' = [pc EXCEPT ![l] = "place"]
                               /\ \/ copy' = [copy EXCEPT ![l] = "whole"]
                                  \/ copy' = [copy EXCEPT ![l] = "old"]
      BY <2>1 DEF StartCopy
    <3> QED BY <3>1, <3>2, <3>3
  <2>2. CASE Place(l)
    BY <2>2 DEF Place
  <2>3. CASE CopyStops(l) \/ StartContainer(l)
    BY <2>3 DEF CopyStops, StartContainer
  <2> QED BY <1>4, <2>1, <2>2, <2>3
<1>5. ASSUME NEW l \in Launchers, LockCounter(l) \/ Truncate(l) \/ Count(l) \/ SelectStops(l)
      PROVE  FilesTypeOK'
  <2>1. NumProfiles \in Nat \ {0} /\ 0 \in Profiles
    BY FilesAssumption DEF Profiles
  <2>2. read[l] % NumProfiles \in Profiles
    BY <2>1, NextInTurn DEF Profiles
  <2>3. CASE LockCounter(l)
    BY <2>3 DEF LockCounter
  <2>4. CASE Truncate(l)
    BY <2>4 DEF Truncate, Empty
  <2>5. CASE Count(l)
    BY <2>2, <2>5 DEF Count
  <2>6. CASE SelectStops(l)
    BY <2>1, <2>6 DEF SelectStops
  <2> QED BY <1>5, <2>3, <2>4, <2>5, <2>6
<1>6. ASSUME NEW l \in Launchers, LockManifest(l)
      PROVE  FilesTypeOK'
  BY <1>6 DEF LockManifest
<1>7. ASSUME NEW l \in Launchers, AfterRecord(l), pc[l] \in Recording
      PROVE  rep' \in [Launchers -> 1..NumReplications] /\ pc' \in [Launchers -> Steps]
  BY <1>7, FilesAssumption DEF AfterRecord
<1>8. ASSUME NEW l \in Launchers, ReplaceManifest(l) PROVE FilesTypeOK'
  <2> DEFINE c == <<l, rep[l]>>
             event == IF pc[l] = "startedRead" THEN "started" ELSE "finished"
  <2>1. AfterRecord(l) /\ pc[l] \in Recording
    BY <1>8 DEF ReplaceManifest
  <2>2. /\ manifest' = [seen[l] EXCEPT ![c] = @ \cup {event}]
        /\ reported' = [reported EXCEPT ![c] = @ \cup {event}]
        /\ event \in Events
    BY <1>8 DEF ReplaceManifest, Events
  <2> HIDE DEF event, c
  <2>3. manifest' \in [Containers -> SUBSET Events] /\ reported' \in [Containers -> SUBSET Events]
    <3>1. ASSUME NEW f \in [Containers -> SUBSET Events]
          PROVE  [f EXCEPT ![c] = @ \cup {event}] \in [Containers -> SUBSET Events]
      BY <2>2, EventAdded
    <3>2. seen[l] \in [Containers -> SUBSET Events] /\ reported \in [Containers -> SUBSET Events]
      OBVIOUS
    <3> QED BY <2>2, <3>1, <3>2, Zenon
  <2>4. rep' \in [Launchers -> 1..NumReplications] /\ pc' \in [Launchers -> Steps]
    BY <1>7, <2>1
  <2>5. Releases(l, "manifest") /\ UNCHANGED <<prewarm, template, temporary, copy, cacheOf, counter, read,
                                              picked, reset, seen>>
    BY <1>8 DEF ReplaceManifest
  <2> QED BY <2>3, <2>4, <2>5
<1>9. ASSUME NEW l \in Launchers, RecorderStops(l) PROVE FilesTypeOK'
  BY <1>9, FilesAssumption DEF RecorderStops, AfterRecord
<1> QED BY <1>1, <1>2, <1>3, <1>4, <1>5, <1>6, <1>8, <1>9 DEF FilesNext

----------------------------------------------------------------------------
(* The manifest: what a recorder has read is what is there, for it has the *)
(* lock.                                                                   *)

ManifestInv ==
    /\ \A l \in Launchers : pc[l] \in Recording => locks["manifest"] = l /\ seen[l] = manifest
    /\ RecordsKept

\* Every step keeps it: the manifest changes under the lock only.
LEMMA ManifestStep ==
    ASSUME FilesTypeOK, ManifestInv, [FilesNext]_filesVars
    PROVE  ManifestInv'
<1> USE DEF FilesTypeOK, ManifestInv, RecordsKept, Recording,
            Goto, Takes, Releases, Faulty, templateVars, copyVars, counterVars, manifestVars
<1>1. CASE UNCHANGED filesVars \/ AllEnded
  BY <1>1 DEF AllEnded, filesVars
<1>2. CASE ClientEnds
  BY <1>2 DEF ClientEnds
<1>3. ASSUME NEW l \in Launchers, LockTemplate(l) \/ Build(l) \/ Retire(l) \/ Publish(l) \/ PrewarmStops(l)
      PROVE  ManifestInv'
  BY <1>3 DEF LockTemplate, Build, Retire, Publish, PrewarmStops
<1>4. ASSUME NEW l \in Launchers, StartCopy(l) \/ Place(l) \/ CopyStops(l) \/ StartContainer(l)
      PROVE  ManifestInv'
  BY <1>4 DEF StartCopy, Place, CopyStops, StartContainer
<1>5. ASSUME NEW l \in Launchers, LockCounter(l) \/ Truncate(l) \/ Count(l) \/ SelectStops(l)
      PROVE  ManifestInv'
  BY <1>5 DEF LockCounter, Truncate, Count, SelectStops
<1>6. ASSUME NEW l \in Launchers, LockManifest(l)
      PROVE  ManifestInv'
  BY <1>6, FilesAssumption DEF LockManifest
<1>7. ASSUME NEW l \in Launchers, AfterRecord(l), pc[l] \in Recording, Releases(l, "manifest")
      PROVE  \A k \in Launchers : pc'[k] \notin Recording
  BY <1>7 DEF AfterRecord
<1>8. ASSUME NEW l \in Launchers, ReplaceManifest(l) PROVE ManifestInv'
  <2>1. \A k \in Launchers : pc'[k] \notin Recording
    BY <1>7, <1>8 DEF ReplaceManifest
  <2>2. seen[l] = manifest
    BY <1>8 DEF ReplaceManifest
  <2> DEFINE c == <<l, rep[l]>>
             event == IF pc[l] = "startedRead" THEN "started" ELSE "finished"
  <2>3. /\ manifest' = [manifest EXCEPT ![c] = @ \cup {event}]
        /\ reported' = [reported EXCEPT ![c] = @ \cup {event}]
    BY <1>8, <2>2 DEF ReplaceManifest
  <2> HIDE DEF event, c
  <2>4. RecordsKept'
    BY <2>3
  <2> QED BY <2>1, <2>4
<1>9. ASSUME NEW l \in Launchers, RecorderStops(l) PROVE ManifestInv'
  BY <1>9 DEF RecorderStops, AfterRecord
<1> QED BY <1>1, <1>2, <1>3, <1>4, <1>5, <1>6, <1>8, <1>9 DEF FilesNext

----------------------------------------------------------------------------
(* The template: only the holder of the lock builds one, and only while    *)
(* none is ready, so a prewarming that ended well left one for ever.       *)

TemplateInv ==
    /\ CachesWhole
    /\ \A l \in Launchers :
          /\ IF pc[l] \in Prewarming THEN prewarm[l] = "unknown" ELSE prewarm[l] # "unknown"
          /\ pc[l] \in Prewarming \ {"prewarm"} => locks["template"] = l /\ template # "ready"
          /\ pc[l] = "publish" => template = "none" /\ temporary[l] = "ready"
          /\ pc[l] = "retire" => temporary[l] = "ready"
          /\ prewarm[l] = "ok" => template = "ready"
          /\ pc[l] = "place" /\ copy[l] = "old" => prewarm[l] = "failed"

\* Every step keeps it.
LEMMA TemplateStep ==
    ASSUME FilesTypeOK, TemplateInv, [FilesNext]_filesVars
    PROVE  TemplateInv'
<1> USE DEF FilesTypeOK, TemplateInv, CachesWhole, Prewarming,
            Goto, Takes, Releases, Faulty, templateVars, copyVars, counterVars, manifestVars
<1>0. \A c \in Containers : c[1] \in Launchers
  BY DEF Containers
<1>1. CASE UNCHANGED filesVars \/ AllEnded
  BY <1>1 DEF AllEnded, filesVars
<1>2. CASE ClientEnds
  BY <1>2, FilesAssumption DEF ClientEnds
<1>3. ASSUME NEW l \in Launchers, LockTemplate(l) PROVE TemplateInv'
  <2>1. CASE template = "ready"
    BY <1>0, <1>3, <2>1 DEF LockTemplate
  <2>2. CASE template # "ready"
    <3>1. pc' = [pc EXCEPT ![l] = "build"] /\ locks' = [locks EXCEPT !["template"] = l]
          /\ temporary' = [temporary EXCEPT ![l] = "part"] /\ UNCHANGED <<prewarm, template, copyVars>>
      BY <1>3, <2>2 DEF LockTemplate
    <3>2. pc[l] = "prewarm" /\ \A k \in Launchers : pc[k] \notin Prewarming \ {"prewarm"}
      BY <1>3, FilesAssumption DEF LockTemplate
    <3> QED BY <1>0, <2>2, <3>1, <3>2
  <2> QED BY <2>1, <2>2
<1>4. ASSUME NEW l \in Launchers, Build(l) \/ Retire(l) PROVE TemplateInv'
  BY <1>0, <1>4 DEF Build, Retire
<1>5. ASSUME NEW l \in Launchers, Publish(l) PROVE TemplateInv'
  BY <1>0, <1>5 DEF Publish
<1>6. ASSUME NEW l \in Launchers, PrewarmStops(l) PROVE TemplateInv'
  BY <1>0, <1>6, FilesAssumption DEF PrewarmStops
<1>7. ASSUME NEW l \in Launchers, StartCopy(l) PROVE TemplateInv'
  <2>1. /\ pc[l] = "copy" /\ prewarm[l] # "unknown" /\ UNCHANGED <<prewarm, locks, template, temporary, cacheOf>>
        /\ pc' \in {[pc EXCEPT ![l] = "stopped"], [pc EXCEPT ![l] = "place"]}
    BY <1>7 DEF StartCopy
  <2>2. \A k \in Launchers : pc'[k] = pc[k] \/ (k = l /\ pc'[k] \in {"stopped", "place"})
    BY <2>1
  <2>3. \A k \in Launchers : k # l => copy'[k] = copy[k]
    BY <1>7 DEF StartCopy
  <2>4. prewarm[l] = "ok" => copy'[l] # "old"
    BY <1>7 DEF StartCopy
  <2>5. prewarm[l] \in {"ok", "failed"}
    BY <2>1
  <2>6. ASSUME NEW k \in Launchers, pc'[k] = "place", copy'[k] = "old" PROVE prewarm[k] = "failed"
    BY <2>2, <2>3, <2>4, <2>5, <2>6
  <2> QED BY <2>1, <2>2, <2>6
<1>8. ASSUME NEW l \in Launchers, Place(l) PROVE TemplateInv'
  BY <1>0, <1>8 DEF Place, Containers
<1>9. ASSUME NEW l \in Launchers, CopyStops(l) \/ StartContainer(l) \/ LockManifest(l) PROVE TemplateInv'
  <2>1. CASE CopyStops(l)
    BY <1>0, <2>1 DEF CopyStops
  <2>2. CASE StartContainer(l)
    BY <1>0, <2>2 DEF StartContainer
  <2>3. CASE LockManifest(l)
    BY <1>0, <2>3 DEF LockManifest
  <2> QED BY <1>9, <2>1, <2>2, <2>3
<1>10. ASSUME NEW l \in Launchers, LockCounter(l) \/ Truncate(l) \/ Count(l) \/ SelectStops(l)
       PROVE  TemplateInv'
  BY <1>0, <1>10 DEF LockCounter, Truncate, Count, SelectStops
<1>11. ASSUME NEW l \in Launchers, ReplaceManifest(l) \/ RecorderStops(l) PROVE TemplateInv'
  <2>1. UNCHANGED <<prewarm, template, temporary, copy, cacheOf>> /\ locks'["template"] = locks["template"]
    BY <1>11 DEF ReplaceManifest, RecorderStops
  <2>2. /\ pc[l] \notin Prewarming /\ \A k \in Launchers \ {l} : pc'[k] = pc[k]
        /\ pc'[l] \in {"copy", "finished", "done"}
    BY <1>11 DEF ReplaceManifest, RecorderStops, AfterRecord
  <2> QED BY <1>0, <2>1, <2>2
<1> QED
  BY <1>1, <1>2, <1>3, <1>4, <1>5, <1>6, <1>7, <1>8, <1>9, <1>10, <1>11 DEF FilesNext

----------------------------------------------------------------------------
(* The counter: the profiles taken once more than the others lie between   *)
(* the one that was first in this round and the one that is next.          *)

Between(first, next, p) == IF first <= next THEN first <= p /\ p < next ELSE first <= p \/ p < next

\* taken[p] after turns of which n is the next.
InTurn(taken, n) ==
    \E first \in Profiles, k \in Nat :
       \A p \in Profiles : taken[p] = IF Between(first, n % NumProfiles, p) THEN k + 1 ELSE k

\* No profile is more than one ahead.
LEMMA TurnsBalance ==
    ASSUME NEW taken \in [Profiles -> Nat], NEW n \in Nat, InTurn(taken, n),
           NEW p \in Profiles, NEW q \in Profiles
    PROVE  taken[p] <= taken[q] + 1
  BY FilesAssumption DEF InTurn

\* Taking the next profile leads to the next turn.
LEMMA TurnTaken ==
    ASSUME NEW taken \in [Profiles -> Nat], NEW n \in Nat, InTurn(taken, n)
    PROVE  InTurn([taken EXCEPT ![n % NumProfiles] = @ + 1], n + 1)
<1> DEFINE r == n % NumProfiles
           after == (n + 1) % NumProfiles
           now == [taken EXCEPT ![r] = @ + 1]
<1>1. NumProfiles \in Nat \ {0} /\ r \in Profiles /\ after = IF r = NumProfiles - 1 THEN 0 ELSE r + 1
  BY NextInTurn, FilesAssumption DEF Profiles
<1>2. PICK first \in Profiles, k \in Nat :
         \A p \in Profiles : taken[p] = IF Between(first, r, p) THEN k + 1 ELSE k
  BY FilesAssumption DEF InTurn
<1>3. \A p \in Profiles : now[p] = IF p = r \/ Between(first, r, p) THEN k + 1 ELSE k
  BY <1>1, <1>2 DEF Between, Profiles
<1> HIDE DEF r, after, now
<1>4. CASE after = first
  <2>1. \A p \in Profiles : (p = r \/ Between(first, r, p)) /\ ~ Between(first, after, p)
    BY <1>1, <1>4 DEF Between, Profiles
  <2>2. \A p \in Profiles : now[p] = IF Between(first, after, p) THEN k + 2 ELSE k + 1
    BY <1>3, <2>1
  <2>3. \E m \in Nat : \A p \in Profiles : now[p] = IF Between(first, after, p) THEN m + 1 ELSE m
    <3> WITNESS k + 1 \in Nat
    <3> QED BY <2>2
  <2> QED BY <2>3 DEF InTurn, now, after, r
<1>5. CASE after # first
  <2>1. \A p \in Profiles : (p = r \/ Between(first, r, p)) <=> Between(first, after, p)
    BY <1>1, <1>5 DEF Between, Profiles
  <2>2. \A p \in Profiles : now[p] = IF Between(first, after, p) THEN k + 1 ELSE k
    BY <1>3, <2>1
  <2> QED BY <2>2 DEF InTurn, now, after, r
<1> QED BY <1>4, <1>5

Current == IF counter >= 0 THEN counter ELSE 0

CounterInv ==
    /\ ProfilesInTurn
    /\ locks["counter"] = NoOne /\ ~ reset => InTurn(picked, Current)
    /\ \A l \in Launchers :
          pc[l] \in Counting => locks["counter"] = l /\ (~ reset => InTurn(picked, read[l]))

\* Whatever number is in the file at first, the turns begin there.
LEMMA CounterInit == ASSUME FilesInit PROVE CounterInv
<1>1. NumProfiles \in Nat \ {0} /\ Current \in Nat
  BY FilesAssumption DEF FilesInit, Current, Absent, Empty
<1>2. Current % NumProfiles \in Profiles
  BY <1>1, NextInTurn DEF Profiles
<1>3. \A p \in Profiles : picked[p] = IF Between(Current % NumProfiles, Current % NumProfiles, p) THEN 0 + 1 ELSE 0
  BY <1>2 DEF FilesInit, Between, Profiles
<1>4. InTurn(picked, Current)
  BY <1>2, <1>3, 0 \in Nat DEF InTurn
<1> QED BY <1>4 DEF CounterInv, FilesInit, ProfilesInTurn, Counting

\* Every step keeps it: the number that is read is the one that is next.
LEMMA CounterStep ==
    ASSUME FilesTypeOK, CounterInv, [FilesNext]_filesVars
    PROVE  CounterInv'
<1> USE DEF FilesTypeOK, CounterInv, ProfilesInTurn, Counting, Current,
            Goto, Takes, Releases, Faulty, templateVars, copyVars, counterVars, manifestVars
<1>1. CASE UNCHANGED filesVars \/ AllEnded
  BY <1>1 DEF AllEnded, filesVars
<1>2. CASE ClientEnds
  BY <1>2 DEF ClientEnds
<1>3. ASSUME NEW l \in Launchers, LockTemplate(l) \/ Build(l) \/ Retire(l) \/ Publish(l) \/ PrewarmStops(l)
      PROVE  CounterInv'
  BY <1>3 DEF LockTemplate, Build, Retire, Publish, PrewarmStops
<1>4. ASSUME NEW l \in Launchers, StartCopy(l) \/ Place(l) \/ CopyStops(l) \/ StartContainer(l)
      PROVE  CounterInv'
  BY <1>4 DEF StartCopy, Place, CopyStops, StartContainer
<1>5. ASSUME NEW l \in Launchers, LockCounter(l) PROVE CounterInv'
  BY <1>5, FilesAssumption DEF LockCounter
<1>6. ASSUME NEW l \in Launchers, Truncate(l) PROVE CounterInv'
  BY <1>6, FilesAssumption DEF Truncate
<1>7. ASSUME NEW l \in Launchers, Count(l) PROVE CounterInv'
  <2>1. /\ pc[l] = "count" /\ locks["counter"] = l /\ pc' = [pc EXCEPT ![l] = "run"]
        /\ locks' = [locks EXCEPT !["counter"] = NoOne] /\ UNCHANGED <<reset, read>>
        /\ counter' = read[l] + 1 /\ picked' = [picked EXCEPT ![read[l] % NumProfiles] = @ + 1]
    BY <1>7 DEF Count
  <2>2. ~ reset => InTurn(picked', read[l] + 1)
    BY <2>1, TurnTaken
  <2>3. ~ reset => \A p, q \in Profiles : picked'[p] <= picked'[q] + 1
    <3>1. picked' \in [Profiles -> Nat] /\ read[l] + 1 \in Nat
      BY FilesTypeStep
    <3> QED BY <2>2, <3>1, TurnsBalance
  <2>4. \A k \in Launchers : pc'[k] \notin Counting
    BY <2>1
  <2>5. Current' = read[l] + 1
    BY <2>1
  <2> QED BY <2>1, <2>2, <2>3, <2>4, <2>5
<1>8. ASSUME NEW l \in Launchers, SelectStops(l) PROVE CounterInv'
  <2>1. reset' /\ pc[l] \in Counting /\ \A k \in Launchers : pc'[k] \notin Counting
    BY <1>8 DEF SelectStops
  <2> QED BY <2>1
<1>9. ASSUME NEW l \in Launchers, LockManifest(l) PROVE CounterInv'
  BY <1>9 DEF LockManifest
<1>10. ASSUME NEW l \in Launchers, ReplaceManifest(l) \/ RecorderStops(l) PROVE CounterInv'
  <2>1. UNCHANGED <<counter, read, picked, reset>> /\ locks'["counter"] = locks["counter"]
    BY <1>10 DEF ReplaceManifest, RecorderStops
  <2>2. pc'[l] \notin Counting /\ \A k \in Launchers \ {l} : pc'[k] = pc[k]
    BY <1>10 DEF ReplaceManifest, RecorderStops, AfterRecord
  <2> QED BY <2>1, <2>2
<1> QED BY <1>1, <1>2, <1>3, <1>4, <1>5, <1>6, <1>7, <1>8, <1>9, <1>10 DEF FilesNext

----------------------------------------------------------------------------
(* Theorems *)

FilesInv == FilesTypeOK /\ ManifestInv /\ TemplateInv /\ CounterInv

\* The variables keep their types: in particular a counter that is read is a
\* number, whatever was left in the file, and a profile that is taken is one.
THEOREM FilesTypeCorrect == FilesSpec => []FilesTypeOK
<1>1. FilesInit => FilesTypeOK
  BY FilesTypeInit
<1>2. FilesTypeOK /\ [FilesNext]_filesVars => FilesTypeOK'
  BY FilesTypeStep
<1> QED BY <1>1, <1>2, PTL DEF FilesSpec

\* However many launchers share the host and whichever of their helpers fail or
\* are killed: containers get whole caches, profiles are taken in turn, and no
\* record of a container is lost.
THEOREM SharedFilesStaySound == FilesSpec => []SharedFilesSound
<1>1. FilesInit => FilesInv
  <2> SUFFICES ASSUME FilesInit PROVE ManifestInv /\ TemplateInv
    BY FilesTypeInit, CounterInit DEF FilesInv
  <2>1. ManifestInv
    BY DEF FilesInit, ManifestInv, RecordsKept, Recording, NoRecords
  <2>2. TemplateInv
    BY DEF FilesInit, TemplateInv, CachesWhole, Prewarming
  <2> QED BY <2>1, <2>2
<1>2. FilesInv /\ [FilesNext]_filesVars => FilesInv'
  BY FilesTypeStep, ManifestStep, TemplateStep, CounterStep DEF FilesInv
<1>3. FilesInv => SharedFilesSound
  BY DEF FilesInv, ManifestInv, TemplateInv, CounterInv, SharedFilesSound
<1> QED BY <1>1, <1>2, <1>3, PTL DEF FilesSpec

----------------------------------------------------------------------------
----------------------------------------------------------------------------
(* The results *)

(* The names of the replications *)

\* As long as every number has one digit, sort -r puts the largest first.
LEMMA OneDigit ==
    ASSUME NEW m \in Nat, NEW n \in Nat, m < Radix, n < Radix, m # n
    PROVE  Before(m, n) <=> m > n
<1> DEFINE top == IF m <= n THEN n ELSE m
           Recursion(d) == d = [k \in 0 .. top |-> IF k < Radix THEN <<k>> ELSE Append(d[k \div Radix], k % Radix)]
           single == [k \in 0 .. top |-> <<k>>]
           d == Digits(top)
<1>1. top \in Nat /\ m \in 0 .. top /\ n \in 0 .. top /\ Radix \in Nat /\ \A k \in 0 .. top : k < Radix
  BY ResultsAssumption
<1>2. Recursion(single)
  BY <1>1
<1>3. d = CHOOSE f : Recursion(f)
  BY DEF Digits
<1>4. Recursion(d)
  <2> HIDE DEF Recursion, d
  <2> QED BY <1>2, <1>3
<1>5. d[m] = <<m>> /\ d[n] = <<n>>
  <2> HIDE DEF d, top
  <2> QED BY <1>1, <1>4
<1>6. DEFINE differ == {i \in DOMAIN d[m] \cap DOMAIN d[n] : d[m][i] # d[n][i]}
             first == CHOOSE i \in differ : \A j \in differ : i <= j
<1>7. differ = {1}
  <2> HIDE DEF d
  <2> QED BY <1>5
<1>8. first = 1
  <2> HIDE DEF differ
  <2> QED BY <1>7
<1>9. Before(m, n) = IF differ = {} THEN Len(d[m]) > Len(d[n]) ELSE d[m][first] > d[n][first]
  BY DEF Before
<1>10. d[m][1] = m /\ d[n][1] = n
  <2> HIDE DEF d
  <2> QED BY <1>5
<1> HIDE DEF differ, first, d, top
<1> QED BY <1>7, <1>8, <1>9, <1>10

LEMMA LastIsLargest ==
    ASSUME NEW n \in Nat, n >= 1, n < Radix
    PROVE  LastReplica(1 .. n) = n
<1> DEFINE First(m) == \A k \in (1 .. n) \ {m} : Before(m, k)
<1>1. Radix \in Nat
  BY ResultsAssumption
<1>2. n \in 1 .. n /\ First(n)
  <2>1. ASSUME NEW k \in (1 .. n) \ {n} PROVE Before(n, k)
    <3>1. k \in Nat /\ k < Radix /\ n > k /\ n # k
      BY <1>1
    <3> QED BY <3>1, OneDigit
  <2> QED BY <2>1
<1>3. ASSUME NEW m \in 1 .. n, First(m) PROVE m = n
  <2>1. SUFFICES ASSUME m # n PROVE FALSE
    OBVIOUS
  <2>2. Before(m, n)
    BY <1>2, <1>3, <2>1
  <2>3. m \in Nat /\ m < Radix /\ ~ m > n
    BY <1>1
  <2> QED BY <2>1, <2>2, <2>3, OneDigit
<1>4. LastReplica(1 .. n) = CHOOSE m \in 1 .. n : First(m)
  BY DEF LastReplica
<1> HIDE DEF First
<1> QED BY <1>2, <1>3, <1>4

----------------------------------------------------------------------------
(* A container *)

Stages == {"import", "fuzz", "compliance", "export", "exporting", "coverage", "replaying",
           "report", "package", "exit"}
States == {"FAILED", "SKIPPED_LEARNING_ONLY", "DEFERRED", "DEFERRED_EXPORT_FAILED", "COMPLETED"}
Box == [at : Stages, status : 0 .. 1, compliance : 0 .. 1, learning : 0 .. 1, coverage : 0 .. 1, state : States]
OutDir == [cases : {"none", "good", "bad"}, queue : {"absent", "part", "empty", "full"},
           cov : {"absent", "header", "part", "rows"}, report : States \union {"absent"}]

\* What the state of a container that is about to report says of its OUTDIR.
Judgement(s, b, o) ==
    /\ s.learn => b.state = "SKIPPED_LEARNING_ONLY"
    /\ b.state = "FAILED" => b.coverage = 1
    /\ b.state \in {"SKIPPED_LEARNING_ONLY", "DEFERRED", "DEFERRED_EXPORT_FAILED"} => o.cov = "absent"
    /\ b.state = "SKIPPED_LEARNING_ONLY" => s.learn
    /\ b.state = "DEFERRED" => QueueComplete(o) /\ o.cases # "bad"
    /\ b.state = "COMPLETED" => o.cov = "rows" \/ (o.cov = "header" /\ o.cases = "none")

\* The runner b, its OUTDIR o, the archive a and the exit status e.
Delivers(s, b, o, a, e) ==
    /\ b.at \notin {"replaying", "report", "package", "exit"} => o.cov = "absent"
    /\ b.at \notin {"package", "exit"} => o.report = "absent"
    /\ b.at \in {"package", "exit"} => o.report \in {"absent", b.state}
    /\ b.at \in {"export", "exporting", "coverage", "replaying"} => ~ s.learn
    /\ b.at \in {"coverage", "replaying"} => QueueComplete(o) /\ o.cases # "bad"
    /\ b.at \in {"report", "package", "exit"} => Judgement(s, b, o)
    /\ a \in {NoFile, o} /\ (a # NoFile => b.at = "exit")
    /\ e = 0 => b.at = "exit" /\ 1 \notin {b.status, b.compliance, b.learning, b.coverage}

BoxInv(r) == Delivers(settings, box[r], out[r], archive[r], exit[r])

BoxTypes ==
    /\ settings \in [learn : BOOLEAN, deferred : BOOLEAN, compliance : BOOLEAN, batch : BOOLEAN]
    /\ box \in [Replicas -> Box] /\ out \in [Replicas -> OutDir]
    /\ archive \in [Replicas -> OutDir \union {NoFile}] /\ exit \in [Replicas -> {Running, 0, 1}]

----------------------------------------------------------------------------
(* The host *)

\* What was copied of each container; whether all went well so far.
HostInv ==
    /\ pipe \in {"wait", "copy", "analyse", "ended"} /\ index \in Replicas
    /\ experiment \in {0, 1} /\ outcome \in {Running, 0, 1}
    /\ saved \in [Replicas -> OutDir \union {NoFile, Torn}]
    /\ recovery \in [Replicas -> {"none", "refused", "failed", "package"}]
    /\ failures \in Nat
    /\ pipe = "wait" => index = 1 /\ saved = [r \in Replicas |-> NoFile]
    /\ pipe # "wait" => \A r \in Replicas : exit[r] # Running
    /\ \A r \in Replicas : saved[r] \in {NoFile, Torn, archive[r], out[r]}
    /\ pipe # "wait" /\ experiment = 0 =>
          \A r \in Replicas : exit[r] = 0 /\ (r < index \/ pipe # "copy" => Whole(saved[r]))
    /\ pipe # "ended" => outcome = Running /\ \A r \in Replicas : recovery[r] = "none"
    /\ outcome = 0 => experiment = 0 /\ \A r \in Replicas : Converted(saved[r])
    /\ \A r \in Replicas : recovery[r] = "refused" => ~ (Whole(saved[r]) /\ saved[r].queue \in {"part", "full"})

ResultsInv == BoxTypes /\ (\A r \in Replicas : BoxInv(r)) /\ HostInv

----------------------------------------------------------------------------

LEMMA ResultsInitInv == ResultsInit => ResultsInv
<1> SUFFICES ASSUME ResultsInit PROVE ResultsInv
  OBVIOUS
<1>1. Nothing \in OutDir /\ Nothing.cov = "absent" /\ Nothing.report = "absent"
  BY DEF Nothing, OutDir
<1>2. BoxTypes
  BY <1>1 DEF ResultsInit, BoxTypes, Box, Stages, States
<1>3. ASSUME NEW r \in Replicas PROVE BoxInv(r)
  BY <1>1, <1>3 DEF ResultsInit, BoxInv, Delivers, Running
<1>4. HostInv
  <2>1. 1 \in Replicas
    BY ResultsAssumption DEF Replicas
  <2> QED BY <2>1 DEF ResultsInit, HostInv, Running
<1> QED BY <1>2, <1>3, <1>4 DEF ResultsInv

\* A step of container r gives it other values b, o, a and e.
Becomes(r, b, o, a, e) ==
    /\ box' = [box EXCEPT ![r] = b] /\ out' = [out EXCEPT ![r] = o]
    /\ archive' = [archive EXCEPT ![r] = a] /\ exit' = [exit EXCEPT ![r] = e]

\* While a container runs, the host waits, and nothing of it has been copied.
LEMMA ContainerKeeps ==
    ASSUME ResultsInv, NEW r \in Replicas, exit[r] = Running, UNCHANGED hostVars, failures' \in Nat,
           NEW b \in Box, NEW o \in OutDir, NEW a \in OutDir \union {NoFile}, NEW e \in {Running, 0, 1},
           Becomes(r, b, o, a, e), Delivers(settings, b, o, a, e)
    PROVE  ResultsInv'
<1>1. BoxTypes'
  BY DEF ResultsInv, BoxTypes, Becomes, hostVars
<1>2. ASSUME NEW q \in Replicas PROVE BoxInv(q)'
  <2>1. settings' = settings
    BY DEF hostVars
  <2>2. CASE q = r
    BY <2>1, <2>2 DEF ResultsInv, BoxTypes, Becomes, BoxInv
  <2>3. CASE q # r
    <3>1. BoxInv(q)
      BY DEF ResultsInv
    <3>2. box'[q] = box[q] /\ out'[q] = out[q] /\ archive'[q] = archive[q] /\ exit'[q] = exit[q]
      BY <2>3 DEF ResultsInv, BoxTypes, Becomes
    <3> QED BY <2>1, <3>1, <3>2 DEF BoxInv
  <2> QED BY <2>2, <2>3
<1>3. HostInv'
  <2>1. pipe = "wait" /\ HostInv
    BY DEF ResultsInv, HostInv
  <2> QED BY <2>1 DEF HostInv, hostVars
<1> QED BY <1>1, <1>2, <1>3 DEF ResultsInv

\* What a running container may rely on, and what its step leaves as it was.
LEMMA RunningBox ==
    ASSUME ResultsInv, NEW r \in Replicas, exit[r] = Running
    PROVE  /\ box[r] \in Box /\ out[r] \in OutDir /\ archive[r] \in OutDir \union {NoFile}
           /\ Delivers(settings, box[r], out[r], archive[r], Running)
           /\ settings \in [learn : BOOLEAN, deferred : BOOLEAN, compliance : BOOLEAN, batch : BOOLEAN]
           /\ UNCHANGED box => box' = [box EXCEPT ![r] = box[r]]
           /\ UNCHANGED out => out' = [out EXCEPT ![r] = out[r]]
           /\ UNCHANGED archive => archive' = [archive EXCEPT ![r] = archive[r]]
           /\ UNCHANGED exit => exit' = [exit EXCEPT ![r] = Running]
           /\ failures \in Nat
<1>1. box \in [Replicas -> Box] /\ out \in [Replicas -> OutDir]
      /\ archive \in [Replicas -> OutDir \union {NoFile}] /\ exit \in [Replicas -> {Running, 0, 1}]
  BY DEF ResultsInv, BoxTypes
<1>2. Delivers(settings, box[r], out[r], archive[r], Running)
  BY DEF ResultsInv, BoxInv
<1> QED BY <1>1, <1>2 DEF ResultsInv, BoxTypes, HostInv

LEMMA CostsCounted == ASSUME failures \in Nat, NEW ok \in BOOLEAN, Costs(ok) PROVE failures' \in Nat
  BY DEF Costs

\* Most steps change the runner and its OUTDIR only.
LEMMA RunnerKeeps ==
    ASSUME ResultsInv, NEW r \in Replicas, exit[r] = Running, UNCHANGED hostVars, failures' \in Nat,
           NEW c \in Box, NEW p \in OutDir, UNCHANGED <<archive, exit>>,
           box' = [box EXCEPT ![r] = c], out' = [out EXCEPT ![r] = p],
           Delivers(settings, c, p, archive[r], Running)
    PROVE  ResultsInv'
<1>1. archive[r] \in OutDir \union {NoFile} /\ Becomes(r, c, p, archive[r], Running)
  BY RunningBox DEF Becomes
<1> QED BY <1>1, ContainerKeeps

LEMMA ImportKeeps == ASSUME ResultsInv, NEW r \in Replicas, import_model_batch(r) PROVE ResultsInv'
<1>1. exit[r] = Running /\ box[r].at = "import" /\ UNCHANGED <<out, archive>> /\ UNCHANGED hostVars
  BY DEF import_model_batch, At
<1>2. PICK b, o, a : b = box[r] /\ o = out[r] /\ a = archive[r]
  OBVIOUS
<1>3. /\ b \in Box /\ o \in OutDir /\ a \in OutDir \union {NoFile} /\ failures \in Nat
      /\ Delivers(settings, b, o, a, Running)
      /\ out' = [out EXCEPT ![r] = o] /\ archive' = [archive EXCEPT ![r] = a]
  BY <1>1, <1>2, RunningBox
<1>4. CASE Goes(r, "fuzz") /\ UNCHANGED <<exit, failures>>
  <2>1. PICK c : c = [b EXCEPT !.at = "fuzz"]
    OBVIOUS
  <2>2. Becomes(r, c, o, a, Running)
    BY <1>1, <1>2, <1>3, <1>4, <2>1, RunningBox DEF Goes, Becomes
  <2>3. c \in Box
    BY <1>3, <2>1 DEF Box, Stages
  <2>4. Delivers(settings, c, o, a, Running)
    BY <1>1, <1>2, <1>3, <2>1 DEF Delivers, Running, Box, Stages
  <2> QED BY <1>1, <1>3, <1>4, <2>2, <2>3, <2>4, ContainerKeeps
<1>5. CASE Costs(FALSE) /\ Exits(r, 1) /\ UNCHANGED box
  <2>1. Becomes(r, b, o, a, 1)
    BY <1>1, <1>2, <1>3, <1>5, RunningBox DEF Exits, Becomes
  <2>2. Delivers(settings, b, o, a, 1)
    BY <1>3 DEF Delivers
  <2>3. failures' \in Nat
    BY <1>3, <1>5, CostsCounted
  <2> QED BY <1>1, <1>3, <2>1, <2>2, <2>3, ContainerKeeps
<1> QED BY <1>4, <1>5 DEF import_model_batch
LEMMA FuzzKeeps == ASSUME ResultsInv, NEW r \in Replicas, Fuzz(r) PROVE ResultsInv'
<1>1. exit[r] = Running /\ box[r].at = "fuzz" /\ UNCHANGED <<archive, exit>> /\ UNCHANGED hostVars
  BY DEF Fuzz, At
<1>2. PICK b, o, a : b = box[r] /\ o = out[r] /\ a = archive[r]
  OBVIOUS
<1>3. /\ b \in Box /\ o \in OutDir /\ a \in OutDir \union {NoFile} /\ failures \in Nat
      /\ Delivers(settings, b, o, a, Running) /\ settings.learn \in BOOLEAN /\ settings.deferred \in BOOLEAN
      /\ UNCHANGED box => box' = [box EXCEPT ![r] = b]
      /\ UNCHANGED out => out' = [out EXCEPT ![r] = o]
  BY <1>1, <1>2, RunningBox
<1>4. PICK s \in 0 .. 1, k \in {"none", "good", "bad"} :
        /\ Costs(s = 0) /\ box' = [box EXCEPT ![r].status = s, ![r].at = "compliance"]
        /\ out' = [out EXCEPT ![r].cases = k]
  BY DEF Fuzz
<1>5. PICK c, p : c = [b EXCEPT !.status = s, !.at = "compliance"] /\ p = [o EXCEPT !.cases = k]
  OBVIOUS
<1>6. box' = [box EXCEPT ![r] = c] /\ out' = [out EXCEPT ![r] = p]
  BY <1>2, <1>4, <1>5
<1>7. c \in Box /\ p \in OutDir
  BY <1>3, <1>4, <1>5 DEF Box, Stages, OutDir
<1>8. a = NoFile /\ Delivers(settings, c, p, a, Running)
  BY <1>1, <1>2, <1>3, <1>5 DEF Delivers, Running, Box, OutDir
<1>9. failures' \in Nat
  BY <1>3, <1>4, CostsCounted
<1> QED BY <1>1, <1>2, <1>6, <1>7, <1>8, <1>9, RunnerKeeps

LEMMA ComplianceKeeps == ASSUME ResultsInv, NEW r \in Replicas, run_compliance_analysis(r) PROVE ResultsInv'
<1>1. exit[r] = Running /\ box[r].at = "compliance" /\ UNCHANGED <<archive, exit>> /\ UNCHANGED hostVars
  BY DEF run_compliance_analysis, At
<1>2. PICK b, o, a : b = box[r] /\ o = out[r] /\ a = archive[r]
  OBVIOUS
<1>3. /\ b \in Box /\ o \in OutDir /\ a \in OutDir \union {NoFile} /\ failures \in Nat
      /\ Delivers(settings, b, o, a, Running) /\ settings.learn \in BOOLEAN /\ settings.deferred \in BOOLEAN
      /\ UNCHANGED box => box' = [box EXCEPT ![r] = b]
      /\ UNCHANGED out => out' = [out EXCEPT ![r] = o]
  BY <1>1, <1>2, RunningBox
<1>4. PICK s \in 0 .. 1 :
       /\ Costs(s = 0) /\ UNCHANGED out
       /\ IF settings.learn
          THEN box' = [box EXCEPT ![r].learning = s, ![r].state = "SKIPPED_LEARNING_ONLY", ![r].at = "report"]
          ELSE box' = [box EXCEPT ![r].compliance = s, ![r].at = "export"]
  BY DEF run_compliance_analysis
<1>5. PICK c : c = IF settings.learn
                   THEN [b EXCEPT !.learning = s, !.state = "SKIPPED_LEARNING_ONLY", !.at = "report"]
                   ELSE [b EXCEPT !.compliance = s, !.at = "export"]
  OBVIOUS
<1>6. box' = [box EXCEPT ![r] = c] /\ out' = [out EXCEPT ![r] = o]
  BY <1>2, <1>3, <1>4, <1>5
<1>7. c \in Box
  BY <1>3, <1>4, <1>5 DEF Box, Stages, States
<1>8. Delivers(settings, c, o, a, Running)
  <2>1. o.cov = "absent" /\ o.report = "absent" /\ a = NoFile
    BY <1>1, <1>2, <1>3 DEF Delivers
  <2>2. CASE settings.learn
    <3>1. c.state = "SKIPPED_LEARNING_ONLY" /\ c.at = "report"
      BY <1>3, <1>5, <2>2 DEF Box
    <3> QED BY <2>1, <2>2, <3>1 DEF Delivers, Judgement, Running
  <2>3. CASE ~ settings.learn
    <3>1. c.at = "export"
      BY <1>3, <1>5, <2>3 DEF Box
    <3> QED BY <2>1, <2>3, <3>1 DEF Delivers, Running
  <2> QED BY <2>2, <2>3
<1>9. failures' \in Nat
  BY <1>3, <1>4, CostsCounted
<1> QED BY <1>1, <1>2, <1>3, <1>6, <1>7, <1>8, <1>9, RunnerKeeps

LEMMA StartExportKeeps == ASSUME ResultsInv, NEW r \in Replicas, StartExport(r) PROVE ResultsInv'
<1>1. exit[r] = Running /\ box[r].at = "export" /\ UNCHANGED <<archive, exit>> /\ UNCHANGED hostVars
  BY DEF StartExport, At
<1>2. PICK b, o, a : b = box[r] /\ o = out[r] /\ a = archive[r]
  OBVIOUS
<1>3. /\ b \in Box /\ o \in OutDir /\ a \in OutDir \union {NoFile} /\ failures \in Nat
      /\ Delivers(settings, b, o, a, Running) /\ settings.learn \in BOOLEAN /\ settings.deferred \in BOOLEAN
      /\ UNCHANGED box => box' = [box EXCEPT ![r] = b]
      /\ UNCHANGED out => out' = [out EXCEPT ![r] = o]
  BY <1>1, <1>2, RunningBox
<1>4. PICK c, p : c = [b EXCEPT !.at = "exporting"] /\ p = [o EXCEPT !.queue = "part"]
  OBVIOUS
<1>5. box' = [box EXCEPT ![r] = c] /\ out' = [out EXCEPT ![r] = p] /\ failures' \in Nat
  BY <1>2, <1>3, <1>4 DEF StartExport, Goes
<1>6. c \in Box /\ p \in OutDir
  BY <1>3, <1>4 DEF Box, Stages, OutDir
<1>7. Delivers(settings, c, p, a, Running)
  BY <1>1, <1>2, <1>3, <1>4 DEF Delivers, Running, Box, OutDir
<1> QED BY <1>1, <1>2, <1>5, <1>6, <1>7, RunnerKeeps

LEMMA ExportKeeps == ASSUME ResultsInv, NEW r \in Replicas, export_cases(r) PROVE ResultsInv'
<1>1. exit[r] = Running /\ box[r].at = "exporting" /\ UNCHANGED <<archive, exit>> /\ UNCHANGED hostVars
  BY DEF export_cases, At
<1>2. PICK b, o, a : b = box[r] /\ o = out[r] /\ a = archive[r]
  OBVIOUS
<1>3. /\ b \in Box /\ o \in OutDir /\ a \in OutDir \union {NoFile} /\ failures \in Nat
      /\ Delivers(settings, b, o, a, Running) /\ settings.learn \in BOOLEAN /\ settings.deferred \in BOOLEAN
      /\ UNCHANGED box => box' = [box EXCEPT ![r] = b]
      /\ UNCHANGED out => out' = [out EXCEPT ![r] = o]
  BY <1>1, <1>2, RunningBox
<1>4. PICK ok \in BOOLEAN :
          /\ ok => out[r].cases # "bad"
          /\ Costs(ok \/ out[r].cases = "bad")
          /\ out' = [out EXCEPT ![r].queue =
                        IF out[r].cases # "good" THEN "empty" ELSE IF ok THEN "full" ELSE "part"]
          /\ IF settings.deferred THEN DeferredTo(r, ok) ELSE Judged(r, ok, IF ok THEN "coverage" ELSE "report")
  BY DEF export_cases
<1>5. PICK p : p = [o EXCEPT !.queue = IF o.cases # "good" THEN "empty" ELSE IF ok THEN "full" ELSE "part"]
  OBVIOUS
<1>6. /\ out' = [out EXCEPT ![r] = p] /\ p \in OutDir /\ p.cases = o.cases
      /\ p.cov = "absent" /\ p.report = "absent" /\ a = NoFile /\ ~ settings.learn
      /\ ok => QueueComplete(p) /\ p.cases # "bad"
  <2>1. out' = [out EXCEPT ![r] = p]
    BY <1>2, <1>4, <1>5
  <2>2. p \in OutDir /\ p.cases = o.cases /\ p.cov = o.cov /\ p.report = o.report
    BY <1>3, <1>5 DEF OutDir
  <2>3. o.cov = "absent" /\ o.report = "absent" /\ a = NoFile /\ ~ settings.learn
    BY <1>1, <1>2, <1>3 DEF Delivers
  <2>4. ok => QueueComplete(p) /\ p.cases # "bad"
    BY <1>2, <1>3, <1>4, <1>5 DEF OutDir, QueueComplete
  <2> QED BY <2>1, <2>2, <2>3, <2>4
<1>7. failures' \in Nat
  BY <1>3, <1>4, CostsCounted
<1>8. CASE settings.deferred
  <2> DEFINE st == IF ok THEN "DEFERRED" ELSE "DEFERRED_EXPORT_FAILED"
             cv == 0
             c == [b EXCEPT !.coverage = cv, !.state = st, !.at = "report"]
  <2>1. cv \in 0 .. 1 /\ st \in States /\ (st = "DEFERRED" => ok) /\ st \in {"DEFERRED", "DEFERRED_EXPORT_FAILED"}
    BY DEF States
  <2>2. box' = [box EXCEPT ![r] = c]
    BY <1>2, <1>4, <1>8 DEF DeferredTo
  <2> HIDE DEF st, cv
  <2>3. c \in Box /\ c.at = "report" /\ c.state = st
    BY <1>3, <2>1 DEF Box, Stages
  <2> HIDE DEF c
  <2>4. Delivers(settings, c, p, a, Running)
    BY <1>6, <2>1, <2>3 DEF Delivers, Judgement, Running
  <2> QED BY <1>1, <1>2, <1>6, <1>7, <2>2, <2>3, <2>4, RunnerKeeps
<1>9. CASE ~ settings.deferred
  <2> DEFINE cv == IF ok THEN 0 ELSE 1
             st == IF ok THEN "COMPLETED" ELSE "FAILED"
             next == IF ok THEN "coverage" ELSE "report"
             c == [b EXCEPT !.coverage = cv, !.state = st, !.at = next]
  <2>1. /\ cv \in 0 .. 1 /\ st \in States /\ next \in Stages
        /\ ok => next = "coverage"
        /\ ~ ok => st = "FAILED" /\ cv = 1 /\ next = "report"
    BY DEF States, Stages
  <2>2. box' = [box EXCEPT ![r] = c]
    BY <1>2, <1>4, <1>9 DEF Judged
  <2> HIDE DEF cv, st, next
  <2>3. c \in Box /\ c.at = next /\ c.state = st /\ c.coverage = cv
    BY <1>3, <2>1 DEF Box
  <2> HIDE DEF c
  <2>4. Delivers(settings, c, p, a, Running)
    BY <1>6, <2>1, <2>3 DEF Delivers, Judgement, Running
  <2> QED BY <1>1, <1>2, <1>6, <1>7, <2>2, <2>3, <2>4, RunnerKeeps
<1> QED BY <1>8, <1>9

\* The runner has judged its coverage and goes to the report.
LEMMA JudgedKeeps ==
    ASSUME ResultsInv, NEW r \in Replicas, exit[r] = Running, UNCHANGED <<archive, exit>>,
           UNCHANGED hostVars, failures' \in Nat, box[r].at \in {"coverage", "replaying"},
           NEW ok \in BOOLEAN, Judged(r, ok, "report"), NEW p \in OutDir, out' = [out EXCEPT ![r] = p],
           p.report = out[r].report,
           ok => p.cov = "rows" \/ (p.cov = "header" /\ p.cases = "none")
    PROVE  ResultsInv'
<1>1. PICK b, o, a : b = box[r] /\ o = out[r] /\ a = archive[r]
  OBVIOUS
<1>2. b \in Box /\ Delivers(settings, b, o, a, Running)
  BY <1>1, RunningBox
<1>3. o.report = "absent" /\ a = NoFile /\ ~ settings.learn
  BY <1>1, <1>2 DEF Delivers
<1> DEFINE cv == IF ok THEN 0 ELSE 1
           st == IF ok THEN "COMPLETED" ELSE "FAILED"
           c == [b EXCEPT !.coverage = cv, !.state = st, !.at = "report"]
<1>4. /\ cv \in 0 .. 1 /\ st \in {"COMPLETED", "FAILED"} /\ (st = "COMPLETED" => ok) /\ (st = "FAILED" => cv = 1)
  OBVIOUS
<1>5. box' = [box EXCEPT ![r] = c]
  BY <1>1 DEF Judged
<1> HIDE DEF cv, st
<1>6. c \in Box /\ c.at = "report" /\ c.state = st /\ c.coverage = cv
  BY <1>2, <1>4 DEF Box, Stages, States
<1> HIDE DEF c
<1>7. Delivers(settings, c, p, a, Running)
  BY <1>1, <1>3, <1>4, <1>6 DEF Delivers, Judgement, Running
<1> QED BY <1>1, <1>5, <1>6, <1>7, RunnerKeeps

LEMMA StartCoverageKeeps == ASSUME ResultsInv, NEW r \in Replicas, StartCoverage(r) PROVE ResultsInv'
<1>1. exit[r] = Running /\ box[r].at = "coverage" /\ UNCHANGED <<archive, exit>> /\ UNCHANGED hostVars
  BY DEF StartCoverage, At
<1>2. PICK b, o, a : b = box[r] /\ o = out[r] /\ a = archive[r]
  OBVIOUS
<1>3. /\ b \in Box /\ o \in OutDir /\ a \in OutDir \union {NoFile} /\ failures \in Nat
      /\ Delivers(settings, b, o, a, Running) /\ settings.learn \in BOOLEAN /\ settings.deferred \in BOOLEAN
      /\ UNCHANGED box => box' = [box EXCEPT ![r] = b]
      /\ UNCHANGED out => out' = [out EXCEPT ![r] = o]
  BY <1>1, <1>2, RunningBox
<1>4. CASE Costs(FALSE) /\ Judged(r, FALSE, "report") /\ UNCHANGED out
  <2>1. failures' \in Nat
    BY <1>3, <1>4, CostsCounted
  <2> QED BY <1>1, <1>2, <1>3, <1>4, <2>1, JudgedKeeps
<1>5. CASE /\ out[r].queue = "empty" /\ Judged(r, TRUE, "report")
           /\ out' = [out EXCEPT ![r].cov = "header"] /\ UNCHANGED failures
  <2>1. PICK p : p = [o EXCEPT !.cov = "header"]
    OBVIOUS
  <2>2. out' = [out EXCEPT ![r] = p]
    BY <1>2, <1>5, <2>1
  <2>3. p \in OutDir /\ p.report = o.report /\ p.cases = o.cases /\ p.cov = "header"
    BY <1>3, <2>1 DEF OutDir
  <2>4. o.cases = "none"
    BY <1>1, <1>2, <1>3, <1>5 DEF Delivers, QueueComplete, OutDir
  <2>5. p \in OutDir /\ p.report = out[r].report /\ (TRUE => p.cov = "rows" \/ (p.cov = "header" /\ p.cases = "none"))
    BY <1>2, <2>3, <2>4
  <2>6. Judged(r, TRUE, "report") /\ failures' \in Nat /\ TRUE \in BOOLEAN
    BY <1>3, <1>5
  <2> QED BY <1>1, <2>2, <2>5, <2>6, JudgedKeeps
<1>6. CASE /\ Goes(r, "replaying") /\ out' = [out EXCEPT ![r].cov = "part"] /\ UNCHANGED failures
  <2>1. PICK c, p : c = [b EXCEPT !.at = "replaying"] /\ p = [o EXCEPT !.cov = "part"]
    OBVIOUS
  <2>2. box' = [box EXCEPT ![r] = c] /\ out' = [out EXCEPT ![r] = p]
    BY <1>2, <1>6, <2>1 DEF Goes
  <2>3. c \in Box /\ p \in OutDir /\ c.at = "replaying"
    BY <1>3, <2>1 DEF Box, Stages, OutDir
  <2>4. p.report = o.report /\ p.queue = o.queue /\ p.cases = o.cases
    BY <1>3, <2>1 DEF OutDir
  <2>5. Delivers(settings, c, p, a, Running)
    BY <1>1, <1>2, <1>3, <2>3, <2>4 DEF Delivers, QueueComplete, Running
  <2> QED BY <1>1, <1>2, <1>3, <1>6, <2>2, <2>3, <2>5, RunnerKeeps
<1> QED BY <1>4, <1>5, <1>6 DEF StartCoverage

LEMMA EndCoverageKeeps == ASSUME ResultsInv, NEW r \in Replicas, EndCoverage(r) PROVE ResultsInv'
<1>1. exit[r] = Running /\ box[r].at = "replaying" /\ UNCHANGED <<archive, exit>> /\ UNCHANGED hostVars
  BY DEF EndCoverage, At
<1>2. PICK b, o, a : b = box[r] /\ o = out[r] /\ a = archive[r]
  OBVIOUS
<1>3. /\ b \in Box /\ o \in OutDir /\ a \in OutDir \union {NoFile} /\ failures \in Nat
      /\ Delivers(settings, b, o, a, Running) /\ settings.learn \in BOOLEAN /\ settings.deferred \in BOOLEAN
      /\ UNCHANGED box => box' = [box EXCEPT ![r] = b]
      /\ UNCHANGED out => out' = [out EXCEPT ![r] = o]
  BY <1>1, <1>2, RunningBox
<1>4. CASE Costs(FALSE) /\ Judged(r, FALSE, "report") /\ UNCHANGED out
  <2>1. failures' \in Nat
    BY <1>3, <1>4, CostsCounted
  <2> QED BY <1>1, <1>2, <1>3, <1>4, <2>1, JudgedKeeps
<1>5. CASE Judged(r, TRUE, "report") /\ out' = [out EXCEPT ![r].cov = "rows"] /\ UNCHANGED failures
  <2>1. PICK p : p = [o EXCEPT !.cov = "rows"]
    OBVIOUS
  <2>2. out' = [out EXCEPT ![r] = p]
    BY <1>2, <1>5, <2>1
  <2>3. p \in OutDir /\ p.report = o.report /\ p.cov = "rows"
    BY <1>3, <2>1 DEF OutDir
  <2> QED BY <1>1, <1>2, <1>3, <1>5, <2>2, <2>3, JudgedKeeps
<1> QED BY <1>4, <1>5 DEF EndCoverage

LEMMA ReportKeeps == ASSUME ResultsInv, NEW r \in Replicas, write_postprocess_status(r) PROVE ResultsInv'
<1>1. exit[r] = Running /\ box[r].at = "report" /\ UNCHANGED <<archive, exit>> /\ UNCHANGED hostVars
  BY DEF write_postprocess_status, At
<1>2. PICK b, o, a : b = box[r] /\ o = out[r] /\ a = archive[r]
  OBVIOUS
<1>3. /\ b \in Box /\ o \in OutDir /\ a \in OutDir \union {NoFile} /\ failures \in Nat
      /\ Delivers(settings, b, o, a, Running) /\ settings.learn \in BOOLEAN /\ settings.deferred \in BOOLEAN
      /\ UNCHANGED box => box' = [box EXCEPT ![r] = b]
      /\ UNCHANGED out => out' = [out EXCEPT ![r] = o]
  BY <1>1, <1>2, RunningBox
<1>4. PICK s \in {box[r].state, "absent"} : Costs(s # "absent") /\ out' = [out EXCEPT ![r].report = s]
  BY DEF write_postprocess_status
<1>5. PICK c, p : c = [b EXCEPT !.at = "package"] /\ p = [o EXCEPT !.report = s]
  OBVIOUS
<1>6. box' = [box EXCEPT ![r] = c] /\ out' = [out EXCEPT ![r] = p]
  BY <1>2, <1>4, <1>5 DEF write_postprocess_status, Goes
<1>7. /\ c \in Box /\ c.at = "package" /\ c.state = b.state /\ c.coverage = b.coverage
      /\ p \in OutDir /\ p.report \in {"absent", c.state}
      /\ p.cov = o.cov /\ p.queue = o.queue /\ p.cases = o.cases
  BY <1>2, <1>3, <1>4, <1>5 DEF Box, Stages, OutDir
<1>8. Delivers(settings, c, p, a, Running)
  BY <1>1, <1>2, <1>3, <1>7 DEF Delivers, Judgement, QueueComplete, Running
<1>9. failures' \in Nat
  BY <1>3, <1>4, CostsCounted
<1> QED BY <1>1, <1>2, <1>6, <1>7, <1>8, <1>9, RunnerKeeps


LEMMA ArchiveKeeps == ASSUME ResultsInv, NEW r \in Replicas, CreateArchive(r) PROVE ResultsInv'
<1>1. exit[r] = Running /\ box[r].at = "package" /\ UNCHANGED out /\ UNCHANGED hostVars
  BY DEF CreateArchive, At
<1>2. PICK b, o, a : b = box[r] /\ o = out[r] /\ a = archive[r]
  OBVIOUS
<1>3. /\ b \in Box /\ o \in OutDir /\ a \in OutDir \union {NoFile} /\ failures \in Nat
      /\ Delivers(settings, b, o, a, Running) /\ out' = [out EXCEPT ![r] = o]
  BY <1>1, <1>2, RunningBox
<1>4. CASE Costs(FALSE) /\ Exits(r, 1) /\ UNCHANGED <<box, archive>>
  <2>1. Becomes(r, b, o, a, 1)
    BY <1>1, <1>2, <1>3, <1>4, RunningBox DEF Exits, Becomes
  <2>2. Delivers(settings, b, o, a, 1)
    BY <1>3 DEF Delivers
  <2>3. failures' \in Nat
    BY <1>3, <1>4, CostsCounted
  <2> QED BY <1>1, <1>3, <2>1, <2>2, <2>3, ContainerKeeps
<1>5. ASSUME Goes(r, "exit"), UNCHANGED exit, NEW f \in {out[r], NoFile}, Costs(f # NoFile),
             archive' = [archive EXCEPT ![r] = f]
      PROVE  ResultsInv'
  <2>1. PICK c : c = [b EXCEPT !.at = "exit"]
    OBVIOUS
  <2>2. Becomes(r, c, o, f, Running)
    BY <1>1, <1>2, <1>3, <1>5, <2>1, RunningBox DEF Goes, Becomes
  <2>3. c \in Box /\ c.at = "exit" /\ c.state = b.state /\ c.coverage = b.coverage
    BY <1>3, <2>1 DEF Box, Stages
  <2>4. f \in OutDir \union {NoFile} /\ f \in {o, NoFile}
    BY <1>2, <1>3, <1>5
  <2>5. Delivers(settings, c, o, f, Running)
    BY <1>1, <1>2, <1>3, <2>3, <2>4 DEF Delivers, Judgement, Running
  <2>6. failures' \in Nat
    BY <1>3, <1>5, CostsCounted
  <2> QED BY <1>1, <1>3, <2>2, <2>3, <2>4, <2>5, <2>6, ContainerKeeps
<1> QED BY <1>4, <1>5 DEF CreateArchive

LEMMA ExitKeeps == ASSUME ResultsInv, NEW r \in Replicas, RunnerExits(r) PROVE ResultsInv'
<1>1. /\ exit[r] = Running /\ box[r].at = "exit" /\ UNCHANGED <<box, out, archive, failures>> /\ UNCHANGED hostVars
      /\ exit' = [exit EXCEPT ![r] = ExitStatus(box[r])]
  BY DEF RunnerExits, At, Exits
<1>2. PICK b, o, a : b = box[r] /\ o = out[r] /\ a = archive[r]
  OBVIOUS
<1>3. /\ b \in Box /\ o \in OutDir /\ a \in OutDir \union {NoFile} /\ failures \in Nat
      /\ Delivers(settings, b, o, a, Running)
  BY <1>1, <1>2, RunningBox
<1>4. PICK e : e = ExitStatus(b)
  OBVIOUS
<1>5. e \in {0, 1} /\ (e = 0 => 1 \notin {b.status, b.compliance, b.learning, b.coverage})
  BY <1>4 DEF ExitStatus
<1>6. Becomes(r, b, o, a, e)
  BY <1>1, <1>2, <1>4, RunningBox DEF Becomes
<1>7. Delivers(settings, b, o, a, e)
  BY <1>1, <1>2, <1>3, <1>5 DEF Delivers
<1> QED BY <1>1, <1>3, <1>5, <1>6, <1>7, ContainerKeeps

LEMMA StopKeeps == ASSUME ResultsInv, NEW r \in Replicas, Stopped(r) PROVE ResultsInv'
<1>1. /\ exit[r] = Running /\ UNCHANGED <<box, out, archive>> /\ UNCHANGED hostVars
      /\ exit' = [exit EXCEPT ![r] = 1] /\ Costs(FALSE)
  BY DEF Stopped, Exits
<1>2. PICK b, o, a : b = box[r] /\ o = out[r] /\ a = archive[r]
  OBVIOUS
<1>3. /\ b \in Box /\ o \in OutDir /\ a \in OutDir \union {NoFile} /\ failures \in Nat
      /\ Delivers(settings, b, o, a, Running)
  BY <1>1, <1>2, RunningBox
<1>4. Becomes(r, b, o, a, 1) /\ failures' \in Nat
  BY <1>1, <1>2, <1>3, RunningBox, CostsCounted DEF Becomes
<1>5. Delivers(settings, b, o, a, 1)
  BY <1>3 DEF Delivers
<1> QED BY <1>1, <1>3, <1>4, <1>5, ContainerKeeps

----------------------------------------------------------------------------
(* The steps of the host *)

\* They leave every container as it is.
LEMMA BoxesStay ==
    ASSUME ResultsInv, UNCHANGED boxVars
    PROVE  BoxTypes' /\ \A r \in Replicas : BoxInv(r)'
<1>1. /\ settings' = settings /\ box' = box /\ out' = out /\ archive' = archive /\ exit' = exit
  BY DEF boxVars
<1>2. BoxTypes'
  BY <1>1 DEF ResultsInv, BoxTypes
<1>3. ASSUME NEW r \in Replicas PROVE BoxInv(r)'
  BY <1>1 DEF ResultsInv, BoxInv
<1> QED BY <1>2, <1>3

LEMMA WaitKeeps == ASSUME ResultsInv, WaitForContainers PROVE ResultsInv'
<1>1. /\ pipe = "wait" /\ pipe' = "copy" /\ \A r \in Replicas : exit[r] # Running
      /\ UNCHANGED boxVars /\ UNCHANGED <<index, saved, outcome, recovery>>
      /\ experiment' \in {0, 1} /\ (experiment' = 0 => \A r \in Replicas : exit[r] = 0)
  BY DEF WaitForContainers
<1>2. PICK ok \in BOOLEAN : Costs(ok)
  BY DEF WaitForContainers
<1>3. failures' \in Nat
  BY <1>2, CostsCounted DEF ResultsInv, HostInv
<1>4. \A r \in Replicas : ~ (r < 1)
  BY DEF Replicas
<1>5. HostInv /\ index = 1 /\ outcome = Running /\ Running # 0
  BY <1>1 DEF ResultsInv, HostInv, Running
<1>6. HostInv'
  BY <1>1, <1>3, <1>4, <1>5 DEF HostInv, boxVars
<1> QED BY <1>1, <1>6, BoxesStay DEF ResultsInv

LEMMA CopyKeeps == ASSUME ResultsInv, NEW r \in Replicas, copy_container_result(r) PROVE ResultsInv'
<1>1. /\ pipe = "copy" /\ index = r /\ UNCHANGED boxVars /\ UNCHANGED <<outcome, recovery>>
      /\ IF r = NumReplicas THEN pipe' = "analyse" /\ UNCHANGED index ELSE index' = r + 1 /\ UNCHANGED pipe
  BY DEF copy_container_result
<1>2. PICK f \in {archive[r], out[r], NoFile, Torn} :
          /\ Costs(f \in {archive[r], out[r]} \ {NoFile})
          /\ saved' = [saved EXCEPT ![r] = f]
          /\ experiment' = IF Whole(f) THEN experiment ELSE 1
  BY DEF copy_container_result
<1>3. /\ HostInv /\ out[r] \in OutDir /\ archive[r] \in OutDir \union {NoFile}
      /\ failures' \in Nat
  <2>1. HostInv /\ out[r] \in OutDir /\ archive[r] \in OutDir \union {NoFile} /\ failures \in Nat
    BY DEF ResultsInv, BoxTypes, HostInv
  <2> QED BY <1>2, <2>1 DEF Costs
<1>4. f \in OutDir \union {NoFile, Torn}
  BY <1>2, <1>3
<1>5. /\ saved' \in [Replicas -> OutDir \union {NoFile, Torn}] /\ saved'[r] = f
      /\ \A q \in Replicas \ {r} : saved'[q] = saved[q]
  BY <1>2, <1>3, <1>4 DEF HostInv
<1>6. /\ pipe' \in {"copy", "analyse"} /\ index' \in Replicas
      /\ \A q \in Replicas : q < index' \/ pipe' # "copy" => q < r \/ q = r
  <2>1. NumReplicas \in Nat /\ NumReplicas >= 1 /\ r \in 1 .. NumReplicas /\ Replicas = 1 .. NumReplicas
    BY ResultsAssumption DEF Replicas
  <2>2. CASE r = NumReplicas
    BY <1>1, <2>1, <2>2
  <2>3. CASE r # NumReplicas
    BY <1>1, <2>1, <2>3
  <2> QED BY <2>2, <2>3
<1>7. /\ experiment' \in {0, 1}
      /\ experiment' = 0 => experiment = 0 /\ Whole(f)
  BY <1>2, <1>3 DEF HostInv
<1>8. ASSUME experiment' = 0, NEW q \in Replicas
      PROVE  exit[q] = 0 /\ (q < index' \/ pipe' # "copy" => Whole(saved'[q]))
  <2>1. exit[q] = 0 /\ (q < r => Whole(saved[q]))
    BY <1>1, <1>3, <1>7, <1>8 DEF HostInv
  <2>2. CASE q = r
    BY <1>5, <1>7, <1>8, <2>1, <2>2
  <2>3. CASE q # r
    <3>1. saved'[q] = saved[q]
      BY <1>5, <2>3
    <3> QED BY <1>6, <2>1, <2>3, <3>1
  <2> QED BY <2>2, <2>3
<1>9. \A q \in Replicas : saved'[q] \in {NoFile, Torn, archive[q], out[q]}
  BY <1>2, <1>3, <1>5 DEF HostInv
<1>10. outcome = Running /\ Running # 0 /\ \A q \in Replicas : recovery[q] = "none" /\ exit[q] # Running
  BY <1>1, <1>3 DEF HostInv, Running
<1>11. HostInv'
  BY <1>1, <1>3, <1>5, <1>6, <1>7, <1>8, <1>9, <1>10 DEF HostInv, boxVars
<1> QED BY <1>1, <1>11, BoxesStay DEF ResultsInv

\* What is there is analysed up to the name that sort -r puts first.
LEMMA AnalysisLooks ==
    ASSUME NumReplicas < Radix, NEW files, \A r \in Replicas : Whole(files[r]),
           NEW fine \in BOOLEAN, Analysis(files, fine) = 0
    PROVE  \A r \in Replicas : Converted(files[r])
<1>1. {q \in Replicas : files[q] # NoFile} = Replicas
  BY DEF Whole
<1>2. NumReplicas \in Nat /\ NumReplicas >= 1 /\ 1 \in Replicas
  BY ResultsAssumption DEF Replicas
<1>3. LastReplica(Replicas) = NumReplicas
  BY <1>2, LastIsLargest DEF Replicas
<1> DEFINE there == {q \in Replicas : files[q] # NoFile}
           looked == IF there = {} THEN {} ELSE 1 .. LastReplica(there)
<1>4. looked = Replicas
  BY <1>1, <1>2, <1>3 DEF Replicas
<1>5. Analysis(files, fine) = IF /\ fine /\ there # {}
                                 /\ \A q \in looked : Converted(files[q])
                                 /\ \E q \in looked : Measures(files[q]) \/ Deferred(files[q])
                              THEN 0 ELSE 1
  BY DEF Analysis
<1> HIDE DEF there, looked
<1> QED BY <1>4, <1>5

LEMMA AnalyseKeeps == ASSUME NumReplicas < Radix, ResultsInv, AnalyseAndPack PROVE ResultsInv'
<1>1. /\ pipe = "analyse" /\ pipe' = "ended" /\ UNCHANGED boxVars
      /\ UNCHANGED <<index, saved, experiment, recovery>>
  BY DEF AnalyseAndPack
<1>2. PICK fine \in BOOLEAN, packed \in BOOLEAN :
          /\ Costs(fine /\ packed)
          /\ outcome' = IF packed /\ experiment = 0 THEN Analysis(saved, fine) ELSE 1
  BY DEF AnalyseAndPack
<1>3. HostInv /\ failures' \in Nat
  BY <1>2, CostsCounted DEF ResultsInv, HostInv
<1>4. Analysis(saved, fine) \in {0, 1}
  BY DEF Analysis
<1>5. outcome' \in {0, 1}
  BY <1>2, <1>4
<1>6. ASSUME outcome' = 0 PROVE experiment = 0 /\ \A r \in Replicas : Converted(saved[r])
  <2>1. experiment = 0 /\ Analysis(saved, fine) = 0
    BY <1>2, <1>6
  <2>2. \A r \in Replicas : Whole(saved[r])
    BY <1>1, <1>3, <2>1 DEF HostInv
  <2> QED BY <2>1, <2>2, AnalysisLooks
<1>7. HostInv'
  BY <1>1, <1>3, <1>5, <1>6 DEF HostInv, boxVars
<1> QED BY <1>1, <1>7, BoxesStay DEF ResultsInv

LEMMA RecoverKeeps == ASSUME ResultsInv, NEW r \in Replicas, Recover(r) PROVE ResultsInv'
<1>1. /\ pipe = "ended" /\ UNCHANGED boxVars /\ UNCHANGED <<pipe, index, saved, experiment, outcome>>
  BY DEF Recover
<1>2. PICK s \in IF Whole(saved[r]) /\ saved[r].queue \in {"part", "full"} THEN {"failed", "package"} ELSE {"refused"} :
          Costs(s # "failed") /\ recovery' = [recovery EXCEPT ![r] = s]
  BY DEF Recover
<1>3. HostInv /\ failures' \in Nat
  BY <1>2, CostsCounted DEF ResultsInv, HostInv
<1>4. /\ s \in {"none", "refused", "failed", "package"}
      /\ s = "refused" => ~ (Whole(saved[r]) /\ saved[r].queue \in {"part", "full"})
  BY <1>2
<1>5. HostInv'
  BY <1>1, <1>2, <1>3, <1>4 DEF HostInv, boxVars
<1> QED BY <1>1, <1>5, BoxesStay DEF ResultsInv

LEMMA ResultsStepInv == ASSUME NumReplicas < Radix, ResultsInv, [ResultsNext]_resultVars PROVE ResultsInv'
<1>1. CASE \E r \in Replicas : import_model_batch(r) \/ Fuzz(r) \/ run_compliance_analysis(r) \/ StartExport(r)
  BY <1>1, ImportKeeps, FuzzKeeps, ComplianceKeeps, StartExportKeeps
<1>2. CASE \E r \in Replicas : export_cases(r) \/ StartCoverage(r) \/ EndCoverage(r) \/ write_postprocess_status(r)
  BY <1>2, ExportKeeps, StartCoverageKeeps, EndCoverageKeeps, ReportKeeps
<1>3. CASE \E r \in Replicas : CreateArchive(r) \/ RunnerExits(r) \/ Stopped(r)
  BY <1>3, ArchiveKeeps, ExitKeeps, StopKeeps
<1>4. CASE \E r \in Replicas : copy_container_result(r) \/ Recover(r)
  BY <1>4, CopyKeeps, RecoverKeeps
<1>5. CASE WaitForContainers
  BY <1>5, WaitKeeps
<1>6. CASE AnalyseAndPack
  BY <1>6, AnalyseKeeps
<1>7. CASE AllRecovered \/ UNCHANGED resultVars
  <2>1. /\ UNCHANGED boxVars
        /\ UNCHANGED <<pipe, index, saved, experiment, outcome, recovery, failures>>
    BY <1>7 DEF AllRecovered, resultVars, boxVars
  <2>2. HostInv'
    BY <2>1 DEF ResultsInv, HostInv, boxVars
  <2> QED BY <2>1, <2>2, BoxesStay DEF ResultsInv
<1> QED BY <1>1, <1>2, <1>3, <1>4, <1>5, <1>6, <1>7 DEF ResultsNext

LEMMA ResultsInvariant == NumReplicas < Radix /\ ResultsSpec => []ResultsInv
<1> SUFFICES ASSUME NumReplicas < Radix PROVE ResultsSpec => []ResultsInv
  OBVIOUS
<1>1. ResultsInv /\ [ResultsNext]_resultVars => ResultsInv'
  BY ResultsStepInv
<1> QED BY <1>1, ResultsInitInv, PTL DEF ResultsSpec

----------------------------------------------------------------------------

\* What was copied of a container that may have been stopped at any moment.
LEMMA CopyTells ==
    ASSUME ResultsInv, NEW r \in Replicas, Whole(saved[r])
    PROVE  /\ saved[r] = out[r] /\ out[r] \in OutDir /\ box[r] \in Box
           /\ out[r].report # "absent" => out[r].report = box[r].state /\ Judgement(settings, box[r], out[r])
           /\ Delivers(settings, box[r], out[r], archive[r], exit[r])
<1>1. saved[r] \in {NoFile, Torn, archive[r], out[r]} /\ out[r] \in OutDir /\ box[r] \in Box
  BY DEF ResultsInv, HostInv, BoxTypes
<1>2. Delivers(settings, box[r], out[r], archive[r], exit[r])
  BY DEF ResultsInv, BoxInv
<1> QED BY <1>1, <1>2 DEF Whole, Delivers

LEMMA DeferredFollows == ASSUME ResultsInv PROVE DeferredIsReplayable
<1> SUFFICES ASSUME NEW r \in Replicas
    PROVE  /\ Deferred(saved[r]) => QueueComplete(saved[r])
           /\ recovery[r] = "refused" => ~ (Deferred(saved[r]) /\ saved[r].cases = "good")
           /\ (Whole(saved[r]) /\ saved[r].report = "COMPLETED") => saved[r].cov \in {"header", "rows"}
  BY DEF DeferredIsReplayable
<1>1. Deferred(saved[r]) => QueueComplete(saved[r])
  BY CopyTells DEF Deferred, Judgement
<1>2. recovery[r] = "refused" => ~ (Deferred(saved[r]) /\ saved[r].cases = "good")
  BY <1>1 DEF Deferred, QueueComplete, ResultsInv, HostInv
<1>3. (Whole(saved[r]) /\ saved[r].report = "COMPLETED") => saved[r].cov \in {"header", "rows"}
  BY CopyTells DEF Judgement
<1> QED BY <1>1, <1>2, <1>3

LEMMA SuccessFollows == ASSUME NumReplicas < Radix, ResultsInv PROVE SuccessMeansMeasured
<1> SUFFICES ASSUME outcome = 0
    PROVE  /\ ~ settings.learn
           /\ \A n \in 1..(Radix - 1) : LastReplica(1..n) = n
           /\ \A r \in Replicas :
                 LET f == saved[r] IN
                 /\ box[r].status = 0 /\ box[r].compliance = 0 /\ Whole(f)
                 /\ \/ f.cov = "rows"
                    \/ f.cov = "header" /\ f.cases = "none"
                    \/ Deferred(f) /\ QueueComplete(f) /\ f.cases # "bad"
  BY DEF SuccessMeansMeasured
<1>1. /\ pipe = "ended" /\ experiment = 0 /\ \A r \in Replicas : Converted(saved[r]) /\ exit[r] = 0 /\ Whole(saved[r])
  BY DEF ResultsInv, HostInv, Running
<1>2. ASSUME NEW n \in 1 .. (Radix - 1) PROVE LastReplica(1 .. n) = n
  <2>1. n \in Nat /\ n >= 1 /\ n < Radix
    BY ResultsAssumption
  <2> QED BY <2>1, LastIsLargest
<1>3. ASSUME NEW r \in Replicas
      PROVE  LET f == saved[r] IN
             /\ ~ settings.learn
             /\ box[r].status = 0 /\ box[r].compliance = 0 /\ Whole(f)
             /\ \/ f.cov = "rows"
                \/ f.cov = "header" /\ f.cases = "none"
                \/ Deferred(f) /\ QueueComplete(f) /\ f.cases # "bad"
  <2>1. PICK b, o, a : b = box[r] /\ o = out[r] /\ a = archive[r]
    OBVIOUS
  <2>2. saved[r] = o /\ o \in OutDir /\ b \in Box /\ Delivers(settings, b, o, a, 0) /\ Whole(o) /\ Converted(o)
    BY <1>1, <2>1, CopyTells
  <2>3. b.at = "exit" /\ b.status # 1 /\ b.compliance # 1 /\ b.coverage # 1
    BY <2>2 DEF Delivers
  <2>4. b.status = 0 /\ b.compliance = 0 /\ b.coverage = 0 /\ b.state \in States
    BY <2>2, <2>3 DEF Box
  <2>5. Judgement(settings, b, o) /\ o.report \in {"absent", b.state}
    BY <2>2, <2>3 DEF Delivers
  <2>6. (o.report = "DEFERRED") \/ o.cov # "absent"
    BY <2>2 DEF Converted, Deferred
  <2>7. CASE b.state = "DEFERRED"
    <3>1. ~ settings.learn /\ QueueComplete(o) /\ o.cases # "bad" /\ o.cov = "absent"
      BY <2>5, <2>7 DEF Judgement
    <3>2. Deferred(o)
      BY <2>2, <2>6, <3>1 DEF Deferred
    <3> QED BY <2>1, <2>2, <2>4, <3>1, <3>2
  <2>8. CASE b.state # "DEFERRED"
    <3>1. o.cov # "absent"
      BY <2>5, <2>6, <2>8
    <3>2. b.state = "COMPLETED"
      BY <2>4, <2>5, <2>8, <3>1 DEF Judgement, States
    <3>3. ~ settings.learn /\ (o.cov = "rows" \/ (o.cov = "header" /\ o.cases = "none"))
      BY <2>5, <3>2 DEF Judgement
    <3> QED BY <2>1, <2>2, <2>4, <3>3
  <2> QED BY <2>7, <2>8
<1>4. 1 \in Replicas
  BY ResultsAssumption DEF Replicas
<1> QED BY <1>2, <1>3, <1>4

\* run.sh, profuzzbench_voltron_container.sh and the launcher, for any number of
\* replications that one digit can name, any number of failures and containers
\* stopped at any moment: a status of 0 means that all was measured or can be,
\* and an archive that says "deferred" holds what the recovery needs.
THEOREM ResultsAlwaysTruthful == NumReplicas < Radix /\ ResultsSpec => []ResultsTruthful
<1> SUFFICES ASSUME NumReplicas < Radix PROVE ResultsSpec => []ResultsTruthful
  OBVIOUS
<1>1. ResultsInv => ResultsTruthful
  BY SuccessFollows, DeferredFollows DEF ResultsTruthful
<1>2. ResultsSpec => []ResultsInv
  BY ResultsInvariant
<1> QED BY <1>1, <1>2, PTL
=============================================================================
