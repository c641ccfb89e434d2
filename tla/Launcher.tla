------------------------------ MODULE Launcher ------------------------------
(***************************************************************************)
(* profuzzbench_exec_all.sh and the launchers it starts in the background: *)
(* run_voltron.sh, which replaces the subshell of its job (exec), and      *)
(* profuzzbench_exec_common.sh, which runs as a child of that subshell.    *)
(* A launcher starts one container per replication, waits for them and     *)
(* copies their archives out.  Signals are what makes it hard: a shell     *)
(* with a trap runs it between two commands, a shell without one dies, and *)
(* every handler begins with `trap - INT TERM`.                            *)
(***************************************************************************)
EXTENDS Integers, FiniteSets

CONSTANTS
    NumJobs,        \* fuzzer/target pairs, in the order they are started
    Voltron,        \* the jobs of fuzzer voltron
    Runs,           \* NUM_CONTAINERS
    Interrupts,     \* the interrupts that may come, "ctrl_c" and "terminate"
    MaxInterrupts,  \* bound on their number
    DaemonFaults    \* whether the preparations, docker run, wait and stop may fail

Jobs == 1 .. NumJobs
Replications == 1 .. Runs

ASSUME LauncherAssumption ==
    /\ NumJobs \in Nat \ {0} /\ Runs \in Nat \ {0} /\ MaxInterrupts \in Nat
    /\ Voltron \subseteq Jobs
    /\ Interrupts \subseteq {"ctrl_c", "terminate"}
    /\ DaemonFaults \in BOOLEAN

VARIABLES
    epc,         \* where profuzzbench_exec_all.sh is
    forked,      \* the number of jobs it has started
    jobPids,     \* the jobs in job_pids
    esignal,     \* a signal it has not handled yet
    estatus,     \* its exit status
    subshell,    \* the subshell of a job: "none", "alive" or "gone"
    lpc,         \* where the launcher of a job is
    lsignal,     \* a signal the launcher has not handled yet
    lstatus,     \* CONTAINER_STATUS, then its exit status
    launched,    \* the number of docker run commands that have returned
    cids,        \* the replications whose container is in cids
    container,   \* "none", "running", "unstopped" (it runs on after a docker stop that
                 \* failed), "ok", "failed" or "stopped"
    archived,    \* the replications whose archive has been copied out
    interrupts   \* interrupts so far

executorVars == <<epc, forked, jobPids, esignal, estatus, subshell>>
launcherVars == <<lpc, lsignal, lstatus, launched, cids, container, archived>>
vars == <<executorVars, launcherVars, interrupts>>

Killed == 143

Init ==
    /\ epc = "fork" /\ forked = 0 /\ jobPids = {}
    /\ esignal = FALSE /\ estatus = 0
    /\ subshell = [j \in Jobs |-> "none"]
    /\ lpc = [j \in Jobs |-> "none"]
    /\ lsignal = [j \in Jobs |-> FALSE]
    /\ lstatus = [j \in Jobs |-> 0]
    /\ launched = [j \in Jobs |-> 0]
    /\ cids = [j \in Jobs |-> {}]
    /\ container = [j \in Jobs |-> [i \in Replications |-> "none"]]
    /\ archived = [j \in Jobs |-> {}]
    /\ interrupts = 0

Alive == {"running", "unstopped"}                     \* conditions of a container
Working == {"launch", "launched", "watch", "collect"}  \* the trap is set
Handling == {"quiesce", "stop", "salvage"}             \* it has been reset
Over == {"exited", "killed"}

LauncherGoto(j, from, to) == lpc[j] = from /\ lpc' = [lpc EXCEPT ![j] = to]
LauncherExit(j, status) ==
    /\ lpc' = [lpc EXCEPT ![j] = "exited"]
    /\ lstatus' = [lstatus EXCEPT ![j] = status]

----------------------------------------------------------------------------
(* A launcher from its start to its normal end.  The commands between two  *)
(* steps end at once; a pending signal is handled before the next step.    *)

Undisturbed(j) == ~ lsignal[j]

\* The arguments are checked and the trap is set.
Prepare(j) ==
    /\ LauncherGoto(j, "setup", "launch")
    /\ UNCHANGED <<lsignal, lstatus, launched, cids, container, archived>>

\* A check fails, or, for voltron, the snapshot or the private uv cache of a
\* replication cannot be prepared: the launcher exits as it is.
PrepareFails(j) ==
    /\ DaemonFaults
    /\ Undisturbed(j)
    /\ \/ lpc[j] = "setup"
       \/ lpc[j] = "launch" /\ j \in Voltron /\ launched[j] < Runs
    /\ LauncherExit(j, 2)
    /\ UNCHANGED <<lsignal, launched, cids, container, archived>>

\* id=$(docker run ...): the container runs, its id is not in cids yet.
DockerRun(j) ==
    /\ launched[j] < Runs
    /\ LauncherGoto(j, "launch", "launched")
    /\ launched' = [launched EXCEPT ![j] = @ + 1]
    /\ container' = [container EXCEPT ![j][launched[j] + 1] = "running"]
    /\ UNCHANGED <<lsignal, lstatus, cids, archived>>

\* docker run fails.  run_voltron.sh exits at once; the common launcher puts
\* the empty id into cids and goes on.
DockerRunFails(j) ==
    /\ DaemonFaults
    /\ Undisturbed(j) /\ lpc[j] = "launch" /\ launched[j] < Runs
    /\ \/ /\ j \in Voltron
          /\ LauncherExit(j, 125)
          /\ UNCHANGED <<launched, cids>>
       \/ /\ j \notin Voltron
          /\ launched' = [launched EXCEPT ![j] = @ + 1]
          /\ cids' = [cids EXCEPT ![j] = @ \union {launched[j] + 1}]
          /\ UNCHANGED <<lpc, lstatus>>
    /\ UNCHANGED <<lsignal, container, archived>>

\* cids+=("${id::12}")
RecordId(j) ==
    /\ Undisturbed(j)
    /\ LauncherGoto(j, "launched", "launch")
    /\ cids' = [cids EXCEPT ![j] = @ \union {launched[j]}]
    /\ UNCHANGED <<lsignal, lstatus, launched, container, archived>>

StartWatching(j) ==
    /\ Undisturbed(j) /\ launched[j] = Runs
    /\ LauncherGoto(j, "launch", "watch")
    /\ UNCHANGED <<lsignal, lstatus, launched, cids, container, archived>>

\* docker wait has returned for every id, or has failed; an exit code other
\* than 0 or a missing one sets CONTAINER_STATUS.
Watch(j) ==
    /\ Undisturbed(j)
    /\ LauncherGoto(j, "watch", "collect")
    /\ \/ /\ \A i \in cids[j] : container[j][i] \notin Alive
          /\ lstatus' = [lstatus EXCEPT ![j] =
                IF \A i \in cids[j] : container[j][i] = "ok" THEN 0 ELSE 1]
       \/ DaemonFaults /\ lstatus' = [lstatus EXCEPT ![j] = 1]
    /\ UNCHANGED <<lsignal, launched, cids, container, archived>>

\* docker cp for every id in cids; it fails when the container has no archive.
Copied(j, copied) ==
    /\ copied \subseteq {i \in cids[j] : container[j][i] # "none"}
    /\ archived' = [archived EXCEPT ![j] = @ \union copied]

\* Mutant: a missing archive is not an error.
CollectIgnoringMissing(j) ==
    /\ Undisturbed(j) /\ lpc[j] = "collect"
    /\ \E copied \in SUBSET cids[j] : Copied(j, copied)
    /\ LauncherExit(j, lstatus[j])
    /\ UNCHANGED <<lsignal, launched, cids, container>>

Collect(j) ==
    /\ Undisturbed(j) /\ lpc[j] = "collect"
    /\ \E copied \in SUBSET cids[j] :
          /\ Copied(j, copied)
          /\ LauncherExit(j, IF copied = cids[j] THEN lstatus[j] ELSE 1)
    /\ UNCHANGED <<lsignal, launched, cids, container>>

----------------------------------------------------------------------------
(* handle_interrupt of a launcher *)

\* trap - INT TERM
EnterHandler(j) ==
    /\ lsignal[j] /\ lpc[j] \in Working
    /\ lpc' = [lpc EXCEPT ![j] = "quiesce"]
    /\ lsignal' = [lsignal EXCEPT ![j] = FALSE]
    /\ UNCHANGED <<lstatus, launched, cids, container, archived>>

\* The waiter, the event collector and the monitor are stopped and reaped.
Quiesce(j) ==
    /\ LauncherGoto(j, "quiesce", "stop")
    /\ UNCHANGED <<lsignal, lstatus, launched, cids, container, archived>>

\* Mutant: only the container started last is stopped.
StopLastContainer(j) ==
    /\ LauncherGoto(j, "stop", "salvage")
    /\ container' = [container EXCEPT ![j] = [i \in Replications |->
          IF i = launched[j] /\ @[i] = "running" THEN "stopped" ELSE @[i]]]
    /\ UNCHANGED <<lsignal, lstatus, launched, cids, archived>>

\* profuzzbench_interrupt_containers with the default action: docker stop for
\* all that is in cids, whose failure, for any of them, is passed over (|| true).
StopContainers(j) ==
    /\ LauncherGoto(j, "stop", "salvage")
    /\ \E refused \in SUBSET cids[j] :
          /\ refused # {} => DaemonFaults
          /\ container' = [container EXCEPT ![j] = [i \in Replications |->
                IF i \notin cids[j] \/ @[i] # "running" THEN @[i]
                ELSE IF i \in refused THEN "unstopped" ELSE "stopped"]]
    /\ UNCHANGED <<lsignal, lstatus, launched, cids, archived>>

\* PROFUZZBENCH_COLLECT_ON_INTERRUPT=1, the default: collect_results; exit 130.
Salvage(j) ==
    /\ lpc[j] = "salvage"
    /\ \E copied \in SUBSET cids[j] : Copied(j, copied)
    /\ LauncherExit(j, 130)
    /\ UNCHANGED <<lsignal, launched, cids, container>>

\* A container ends by itself.
ContainerEnds(j, i) ==
    /\ container[j][i] \in Alive
    /\ \E how \in {"ok", "failed"} : container' = [container EXCEPT ![j][i] = how]
    /\ UNCHANGED <<lpc, lsignal, lstatus, launched, cids, archived>>

----------------------------------------------------------------------------
(* Signals *)

\* The launchers of the jobs in S get a signal: a trap is pending, or a shell
\* without a trap dies.
SignalLaunchers(S) ==
    LET Dies(j) == j \in S /\ lpc[j] \in Handling \union {"setup"}
    IN  /\ lsignal' = [j \in Jobs |-> lsignal[j] \/ (j \in S /\ lpc[j] \in Working)]
        /\ lpc' = [j \in Jobs |-> IF Dies(j) THEN "killed" ELSE lpc[j]]
        /\ lstatus' = [j \in Jobs |-> IF Dies(j) THEN Killed ELSE lstatus[j]]

SignalExecutor ==
    \/ epc \in {"fork", "forked", "wait"} /\ esignal' = TRUE /\ UNCHANGED epc
    \/ epc \in {"signal", "reap"} /\ epc' = "killed" /\ UNCHANGED esignal

\* Ctrl-C: the terminal sends SIGINT to every process of the group. SIGTERM comes
\* to profuzzbench_exec_all.sh alone.
Interrupt ==
    /\ interrupts < MaxInterrupts /\ interrupts' = interrupts + 1
    /\ \E how \in Interrupts :
          /\ SignalExecutor
          /\ SignalLaunchers(IF how = "ctrl_c" THEN Jobs ELSE {})
    /\ UNCHANGED <<forked, jobPids, estatus, subshell, launched, cids, container, archived>>

----------------------------------------------------------------------------
(* profuzzbench_exec_all.sh *)

\* run_voltron_target ... & or run_standard_target ... &
Fork ==
    /\ ~ esignal /\ epc = "fork" /\ forked < NumJobs
    /\ epc' = "forked"
    /\ forked' = forked + 1
    /\ subshell' = [subshell EXCEPT ![forked + 1] = "alive"]
    /\ lpc' = [lpc EXCEPT ![forked + 1] = "setup"]
    /\ UNCHANGED <<jobPids, esignal, estatus, lsignal, lstatus, launched, cids,
                   container, archived, interrupts>>

\* job_pids+=("$!")
RecordJob ==
    /\ ~ esignal /\ epc = "forked"
    /\ epc' = "fork"
    /\ jobPids' = jobPids \union {forked}
    /\ UNCHANGED <<forked, esignal, estatus, subshell, launcherVars, interrupts>>

StartWaiting ==
    /\ ~ esignal /\ epc = "fork" /\ forked = NumJobs
    /\ epc' = "wait"
    /\ UNCHANGED <<forked, jobPids, esignal, estatus, subshell, launcherVars, interrupts>>

\* The process with the pid of the job has ended.
SubshellEnds(j) ==
    /\ subshell[j] = "alive" /\ lpc[j] \in Over
    /\ subshell' = [subshell EXCEPT ![j] = "gone"]
    /\ UNCHANGED <<epc, forked, jobPids, esignal, estatus, launcherVars, interrupts>>

\* wait "$job_pid" for every job
WaitJobs ==
    /\ ~ esignal /\ epc = "wait"
    /\ \A j \in jobPids : subshell[j] = "gone"
    /\ epc' = "exited"
    /\ estatus' = IF \E j \in jobPids : lstatus[j] # 0 THEN 1 ELSE 0
    /\ UNCHANGED <<forked, jobPids, esignal, subshell, launcherVars, interrupts>>

\* handle_execution_interrupt: trap - INT TERM
EnterExecutionHandler ==
    /\ esignal /\ epc \in {"fork", "forked", "wait"}
    /\ epc' = "signal"
    /\ esignal' = FALSE
    /\ UNCHANGED <<forked, jobPids, estatus, subshell, launcherVars, interrupts>>

\* kill -TERM "$job_pid": for voltron the launcher itself, for the others only
\* the subshell that waits for the launcher.
SignalJobs ==
    /\ epc = "signal"
    /\ epc' = "reap"
    /\ SignalLaunchers(jobPids \intersect Voltron)
    /\ subshell' = [j \in Jobs |-> IF j \in jobPids \ Voltron THEN "gone" ELSE subshell[j]]
    /\ UNCHANGED <<forked, jobPids, esignal, estatus, launched, cids, container,
                   archived, interrupts>>

\* Mutants: the handler exits at once, or waits for jobs it never started.
ReapNothing ==
    /\ epc = "reap"
    /\ epc' = "exited"
    /\ estatus' = 130
    /\ UNCHANGED <<forked, jobPids, esignal, subshell, launcherVars, interrupts>>
ReapEveryJob ==
    /\ epc = "reap"
    /\ \A j \in Jobs : subshell[j] = "gone"
    /\ epc' = "exited"
    /\ estatus' = 130
    /\ UNCHANGED <<forked, jobPids, esignal, subshell, launcherVars, interrupts>>

ReapJobs ==
    /\ epc = "reap"
    /\ \A j \in jobPids : subshell[j] = "gone"
    /\ epc' = "exited"
    /\ estatus' = 130
    /\ UNCHANGED <<forked, jobPids, esignal, subshell, launcherVars, interrupts>>

----------------------------------------------------------------------------

LauncherStep(j) ==
    /\ \/ Prepare(j) \/ PrepareFails(j) \/ DockerRun(j) \/ DockerRunFails(j) \/ RecordId(j)
       \/ StartWatching(j) \/ Watch(j) \/ Collect(j)
       \/ EnterHandler(j) \/ Quiesce(j) \/ StopContainers(j) \/ Salvage(j)
    /\ UNCHANGED <<executorVars, interrupts>>

ContainerStep(j) ==
    /\ \E i \in Replications : ContainerEnds(j, i)
    /\ UNCHANGED <<executorVars, interrupts>>

ExecutorStep ==
    \/ Fork \/ RecordJob \/ StartWaiting \/ WaitJobs
    \/ EnterExecutionHandler \/ SignalJobs \/ ReapJobs

Finished ==
    /\ epc \in Over
    /\ \A j \in Jobs : lpc[j] \in Over \union {"none"}
    /\ UNCHANGED vars

Next ==
    \/ ExecutorStep
    \/ \E j \in Jobs : LauncherStep(j) \/ ContainerStep(j) \/ SubshellEnds(j)
    \/ Interrupt
    \/ Finished

Spec == Init /\ [][Next]_vars

----------------------------------------------------------------------------

\* Type correctness of the executor, the launchers and their containers.
TypeOK ==
    /\ epc \in {"fork", "forked", "wait", "signal", "reap", "exited", "killed"}
    /\ forked \in 0 .. NumJobs /\ jobPids \subseteq Jobs
    /\ esignal \in BOOLEAN /\ estatus \in {0, 1, 130}
    /\ subshell \in [Jobs -> {"none", "alive", "gone"}]
    /\ lpc \in [Jobs -> {"none", "setup"} \union Working \union Handling \union Over]
    /\ lsignal \in [Jobs -> BOOLEAN]
    /\ lstatus \in [Jobs -> {0, 1, 2, 125, 130, Killed}]
    /\ launched \in [Jobs -> 0 .. Runs]
    /\ cids \in [Jobs -> SUBSET Replications]
    /\ container \in [Jobs -> [Replications ->
                         {"none", "running", "unstopped", "ok", "failed", "stopped"}]]
    /\ archived \in [Jobs -> SUBSET Replications]
    /\ interrupts \in 0 .. MaxInterrupts

\* Exit status 0 of profuzzbench_exec_all.sh is a promise about every
\* replication of every job, whatever failed on the way: its container ended
\* with status 0 and its archive is in the results directory.
StatusTruthful ==
    epc = "exited" /\ estatus = 0 =>
        \A j \in Jobs, i \in Replications :
            container[j][i] = "ok" /\ i \in archived[j]

\* When the executor has handled an interrupt and exits, the containers the
\* launchers of its jobs had recorded no longer run.
RecordedContainersStopped ==
    epc = "exited" /\ estatus = 130 =>
        \A j \in jobPids : \A i \in cids[j] : container[j][i] \notin Alive

\* A launcher that reaches the end of its handler (exit 130) leaves nothing
\* running but what docker stop failed on and at most one container more: the
\* one that it was starting when the signal came, whose id is not in cids yet.
HandlerLosesAtMostOne ==
    \A j \in Jobs, i \in Replications :
        lpc[j] = "exited" /\ lstatus[j] = 130 /\ container[j][i] = "running" =>
            i = launched[j] /\ i \notin cids[j]

\* An interrupted executor exits: nothing it waits for depends on a container
\* ending by itself.
InterruptEnds == interrupts > 0 ~> epc \in Over
=============================================================================
