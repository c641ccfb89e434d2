-------------------------------- MODULE MCHost --------------------------------
(***************************************************************************)
(* What the experiments of a host share and wait for: an executor with its *)
(* launchers that is interrupted, the settings of the kernel, or the cache *)
(* of Voltron's sources.  job says which of the three runs; the others     *)
(* stand still, the last two as those that have ended.                     *)
(***************************************************************************)
EXTENDS Launcher, KernelSettings, SnapshotCache

VARIABLE job

hostVars == <<job, vars, settingsVars, cacheVars>>

MCInit ==
    /\ job \in {"executor", "settings", "cache"}
    /\ Init
    /\ IF job = "settings" THEN SettingsInit
       ELSE /\ setting = [s \in Settings |-> Configured] /\ hostLock = Nobody
            /\ command = [i \in Invocations |-> "ended"]
            /\ original = [i \in Invocations |-> [s \in Settings |-> Unset]]
            /\ changed = [i \in Invocations |-> {}] /\ running = {} /\ abandoned = {}
    /\ IF job = "cache" THEN CacheInit
       ELSE /\ tree = [s \in Snapshots |-> Absent] /\ lock = NoOne
            /\ pc = [l \in Launchers |-> "done"]
            /\ snap = [l \in Launchers |-> NoSnapshot] /\ temp = [l \in Launchers |-> Absent]

Executing == job = "executor" /\ Next /\ UNCHANGED <<job, settingsVars, cacheVars>>
Setting == job = "settings" /\ SettingsNext /\ UNCHANGED <<job, vars, cacheVars>>
Caching == job = "cache" /\ CacheNext /\ UNCHANGED <<job, vars, settingsVars>>
MCNext == Executing \/ Setting \/ Caching

\* The weakest fairness that will do: as long as some shell or command can go on,
\* or an experiment can end (by its timeout), one of them does, though not the same
\* one for ever, since each has only so many steps.  A container of the interrupted
\* executor may run for as long as it likes.
MCSpec ==
    /\ MCInit /\ [][MCNext]_hostVars
    /\ WF_vars(job = "executor" /\ (ExecutorStep \/ \E j \in Jobs : LauncherStep(j) \/ SubshellEnds(j)))
    /\ WF_settingsVars(job = "settings" /\ \E i \in Invocations : ShellStep(i) \/ ExperimentEnds(i))
    /\ WF_cacheVars(job = "cache" /\ \E l \in Launchers : Step(l))
=============================================================================
