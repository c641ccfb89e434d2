--------------------------- MODULE KernelSettings ---------------------------
(***************************************************************************)
(* run.sh around a StateAFL experiment: two settings of the host's kernel  *)
(* are changed for its duration and put back by the EXIT trap.  Several    *)
(* invocations share the host and serialize on a lock file whose           *)
(* descriptor each shell keeps until it ends.  A signal that ends the      *)
(* shell may arrive between any two commands; SIGKILL leaves no time for   *)
(* the trap.  The executor that the shell has started, its launchers and   *)
(* their containers are processes of their own: they outlive the shell.    *)
(***************************************************************************)
EXTENDS Integers, FiniteSets

CONSTANTS
    Invocations,        \* the processes that run run.sh with fuzzer stateafl
    Signals,            \* what may end one early: "term" (or HUP), "kill"
    ExecutorMayAbandon, \* whether the executor may return before its containers
                        \* end: it is interrupted itself, or docker fails
    AccessMayFail,      \* whether a setting may be inaccessible while preparing
    RestoreMayFail      \* whether write_kernel_setting may fail while restoring

Settings == {"core_pattern", "randomize_va_space"}

ASSUME KernelAssumption ==
    /\ Signals \subseteq {"term", "kill"}
    /\ ExecutorMayAbandon \in BOOLEAN
    /\ AccessMayFail \in BOOLEAN /\ RestoreMayFail \in BOOLEAN
    /\ "nobody" \notin Invocations

\* What StateAFL needs and what the host has been set up with.
ForStateAFL == "stateafl"
Configured == "configured"
Values == {ForStateAFL, Configured}
Unset == "unset"   \* the empty string CORE_PATTERN_ORIGINAL= starts with
Nobody == "nobody"

VARIABLES
    setting,   \* the value of each setting on the host
    hostLock,  \* who holds the lock on descriptor 9, or Nobody
    command,   \* the next command of each invocation's shell
    original,  \* CORE_PATTERN_ORIGINAL and RANDOMIZE_VA_SPACE_ORIGINAL
    changed,   \* the settings whose ..._CHANGED flag is 1
    running    \* the invocations whose executor, launchers or containers run

\* For the invariants only.
VARIABLE
    abandoned  \* those whose shell has gone on to its trap while they ran

settingsVars == <<setting, hostLock, command, original, changed, running, abandoned>>

Restoring == {"restore_aslr", "restore_core"}
Commands == {"lock", "read", "write_core", "flag_core", "write_aslr", "flag_aslr",
             "check", "experiment", "ended"} \union Restoring

SettingsInit ==
    /\ setting = [s \in Settings |-> Configured]
    /\ hostLock = Nobody
    /\ command = [i \in Invocations |-> "lock"]
    /\ original = [i \in Invocations |-> [s \in Settings |-> Unset]]
    /\ changed = [i \in Invocations |-> {}]
    /\ running = {} /\ abandoned = {}

Proceed(i, from, to) == command[i] = from /\ command' = [command EXCEPT ![i] = to]

\* exit in the middle of the script: the EXIT trap runs.
EarlyExit(i, from) == Proceed(i, from, "restore_aslr")

\* Mutant: flock -n, and its failure is not looked at.
LockAnyway(i) ==
    /\ Proceed(i, "lock", "read")
    /\ hostLock' = i
    /\ UNCHANGED <<setting, original, changed, running, abandoned>>

\* exec 9>...; flock 9
LockHost(i) ==
    /\ Proceed(i, "lock", "read")
    /\ hostLock = Nobody
    /\ hostLock' = i
    /\ UNCHANGED <<setting, original, changed, running, abandoned>>

ReadOriginals(i) ==
    /\ \/ Proceed(i, "read", "write_core") /\ original' = [original EXCEPT ![i] = setting]
       \/ AccessMayFail /\ EarlyExit(i, "read") /\ UNCHANGED original
    /\ UNCHANGED <<setting, hostLock, changed, running, abandoned>>

\* Skipped when the setting already has the value StateAFL needs; when the
\* write fails, the script ends.
Write(i, s, from, flag, next) ==
    /\ \/ /\ original[i][s] = ForStateAFL
          /\ Proceed(i, from, next)
          /\ UNCHANGED setting
       \/ /\ original[i][s] # ForStateAFL
          /\ Proceed(i, from, flag)
          /\ setting' = [setting EXCEPT ![s] = ForStateAFL]
       \/ /\ original[i][s] # ForStateAFL /\ AccessMayFail
          /\ EarlyExit(i, from)
          /\ UNCHANGED setting
    /\ UNCHANGED <<hostLock, original, changed, running, abandoned>>

\* The ..._CHANGED flag, one command after the write.
Flag(i, s, from, next) ==
    /\ Proceed(i, from, next)
    /\ changed' = [changed EXCEPT ![i] = @ \union {s}]
    /\ UNCHANGED <<setting, hostLock, original, running, abandoned>>

WriteCore(i) == Write(i, "core_pattern", "write_core", "flag_core", "write_aslr")
FlagCore(i) == Flag(i, "core_pattern", "flag_core", "write_aslr")
WriteAslr(i) == Write(i, "randomize_va_space", "write_aslr", "flag_aslr", "check")
FlagAslr(i) == Flag(i, "randomize_va_space", "flag_aslr", "check")

\* The preflight reads both settings back; then the executor is started in the
\* foreground, with descriptor 9 closed.
Preflight(i) ==
    /\ IF \A s \in Settings : setting[s] = ForStateAFL
       THEN Proceed(i, "check", "experiment") /\ running' = running \union {i}
       ELSE EarlyExit(i, "check") /\ UNCHANGED running
    /\ UNCHANGED <<setting, hostLock, original, changed, abandoned>>

\* The executor, its launchers and their containers end, with any status and
\* whether their shell is still there or not.
ExperimentEnds(i) ==
    /\ i \in running
    /\ running' = running \ {i}
    /\ UNCHANGED <<setting, hostLock, command, original, changed, abandoned>>

Abandon(i) == abandoned' = abandoned \union (running \intersect {i})

\* The executor has returned; analysis and packaging follow, and the trap.  An
\* executor that is interrupted, or that docker fails, may leave containers.
ShellGoesOn(i) ==
    /\ i \in running => ExecutorMayAbandon
    /\ EarlyExit(i, "experiment")
    /\ Abandon(i)
    /\ UNCHANGED <<setting, hostLock, original, changed, running>>

\* The process ends with the last command of the trap and the kernel drops
\* its lock; children run with descriptor 9 closed.  Mutant: a child keeps it.
KeepLocked(i) == UNCHANGED hostLock
UnlockHost(i) == hostLock' = IF hostLock = i THEN Nobody ELSE hostLock

\* A setting is put back if its flag is set; a write that fails is reported
\* and passed over.
PutBack(i, s) ==
    \/ s \in changed[i] /\ setting' = [setting EXCEPT ![s] = original[i][s]]
    \/ (s \notin changed[i] \/ RestoreMayFail) /\ UNCHANGED setting

\* restore_stateafl_kernel_settings, ASLR first.
RestoreAslr(i) ==
    /\ Proceed(i, "restore_aslr", "restore_core")
    /\ PutBack(i, "randomize_va_space")
    /\ UNCHANGED <<hostLock, original, changed, running, abandoned>>

RestoreCore(i) ==
    /\ Proceed(i, "restore_core", "ended")
    /\ PutBack(i, "core_pattern")
    /\ UnlockHost(i)
    /\ UNCHANGED <<original, changed, running, abandoned>>

\* SIGTERM or SIGHUP to the shell: it does not wait for its foreground command but
\* runs its EXIT trap and ends; the trap itself is not protected, `trap - EXIT` is
\* its first command.  (SIGINT ends a shell that waits only if the command it
\* waits for dies of it: the executor has a handler, and the shell goes on.)
Terminate(i) ==
    /\ "term" \in Signals
    /\ command[i] # "ended"
    /\ IF command[i] \in Restoring
       THEN command' = [command EXCEPT ![i] = "ended"] /\ UnlockHost(i)
       ELSE command' = [command EXCEPT ![i] = "restore_aslr"] /\ UNCHANGED hostLock
    /\ Abandon(i)
    /\ UNCHANGED <<setting, original, changed, running>>

KillShell(i) ==
    /\ "kill" \in Signals
    /\ command[i] # "ended"
    /\ command' = [command EXCEPT ![i] = "ended"]
    /\ UnlockHost(i)
    /\ UNCHANGED <<setting, original, changed, running, abandoned>>

ShellStep(i) ==
    \/ LockHost(i) \/ ReadOriginals(i) \/ WriteCore(i) \/ FlagCore(i)
    \/ WriteAslr(i) \/ FlagAslr(i) \/ Preflight(i) \/ ShellGoesOn(i)
    \/ RestoreAslr(i) \/ RestoreCore(i)

NobodyLeft == \A i \in Invocations : command[i] = "ended"

SettingsNext ==
    \/ \E i \in Invocations : ShellStep(i) \/ ExperimentEnds(i) \/ Terminate(i) \/ KillShell(i)
    \/ NobodyLeft /\ UNCHANGED settingsVars

SettingsSpec == SettingsInit /\ [][SettingsNext]_settingsVars

----------------------------------------------------------------------------

\* Type correctness of the host's settings and of every invocation.
SettingsTypeOK ==
    /\ setting \in [Settings -> Values]
    /\ hostLock \in Invocations \union {Nobody}
    /\ command \in [Invocations -> Commands]
    /\ original \in [Invocations -> [Settings -> Values \union {Unset}]]
    /\ changed \in [Invocations -> SUBSET Settings]
    /\ running \subseteq Invocations /\ abandoned \subseteq Invocations

\* "Serialize top-level StateAFL runs so one invocation cannot restore the
\* setting while another one is still active": an experiment runs with both
\* settings as StateAFL needs them, whoever else starts, ends or is killed, also
\* after its own shell has been killed.  Its own shell takes them away if a signal
\* or a returning executor sends it into its trap before the containers end.
SettingsHold ==
    \A i \in running \ abandoned : \A s \in Settings : setting[s] = ForStateAFL

\* "Their original values are restored when the top-level experiment command
\* exits": when no invocation is left, the host is configured as before.
Restored == NobodyLeft => \A s \in Settings : setting[s] = Configured

\* "Concurrent top-level StateAFL commands are serialized to prevent one command
\* from restoring the settings while another experiment is still running":
\* who has a setting to put back is alone with its own experiment.
RestoresAlone ==
    \A i \in Invocations : command[i] \in Restoring /\ changed[i] # {} => running \subseteq {i}

\* No invocation waits for the lock for ever: there comes a time when all have
\* ended, which they do for good.
EveryInvocationEnds == <>NobodyLeft
=============================================================================
