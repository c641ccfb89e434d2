------------------------ MODULE KernelSettingsProofs ------------------------
(***************************************************************************)
(* That an experiment runs with the settings it needs for as long as its   *)
(* own shell has not gone into its trap, and that the host ends configured *)
(* as it was when no signal and no failing restoration interferes, for any *)
(* number of invocations.                                                  *)
(***************************************************************************)
EXTENDS KernelSettings, TLAPS

----------------------------------------------------------------------------
(* Types.  SettingsTypeOK alone is not inductive: what is put back must    *)
(* have been read before.                                                  *)

Preparing == {"write_core", "flag_core", "write_aslr", "flag_aslr"}

\* A setting is written, and flagged, only after both originals were read.
Recorded ==
    \A i \in Invocations :
        command[i] \in Preparing \/ changed[i] # {} => original[i] \in [Settings -> Values]

TypeInv == SettingsTypeOK /\ Recorded

LEMMA TypeInit == SettingsInit => TypeInv
  BY DEF SettingsInit, TypeInv, SettingsTypeOK, Recorded, Preparing, Values, Commands, Restoring

\* Every step keeps the types and the record.
LEMMA TypeStep == ASSUME TypeInv, [SettingsNext]_settingsVars PROVE TypeInv'
<1> USE DEF TypeInv, SettingsTypeOK, Recorded, Preparing, Commands, Restoring, Values, Settings,
            Proceed, EarlyExit, Abandon
<1>1. CASE UNCHANGED settingsVars
  BY <1>1 DEF settingsVars
<1>2. ASSUME NEW i \in Invocations, ShellStep(i) PROVE TypeInv'
  <2>1. CASE LockHost(i)
    BY <2>1 DEF LockHost
  <2>2. CASE ReadOriginals(i)
    <3>1. original' = [original EXCEPT ![i] = setting] \/ UNCHANGED original
      BY <2>2 DEF ReadOriginals
    <3>2. original' \in [Invocations -> [Settings -> Values \union {Unset}]]
      BY <3>1
    <3> QED BY <2>2, <3>2 DEF ReadOriginals
  <2>3. CASE WriteCore(i)
    BY <2>3 DEF WriteCore, Write
  <2>4. CASE FlagCore(i)
    BY <2>4 DEF FlagCore, Flag
  <2>5. CASE WriteAslr(i)
    BY <2>5 DEF WriteAslr, Write
  <2>6. CASE FlagAslr(i)
    BY <2>6 DEF FlagAslr, Flag
  <2>7. CASE Preflight(i)
    BY <2>7 DEF Preflight
  <2>8. CASE ShellGoesOn(i)
    BY <2>8 DEF ShellGoesOn
  <2>9. CASE RestoreAslr(i)
    BY <2>9 DEF RestoreAslr, PutBack
  <2>10. CASE RestoreCore(i)
    BY <2>10 DEF RestoreCore, PutBack, UnlockHost
  <2> QED BY <1>2, <2>1, <2>2, <2>3, <2>4, <2>5, <2>6, <2>7, <2>8, <2>9, <2>10 DEF ShellStep
<1>3. ASSUME NEW i \in Invocations, Terminate(i) \/ KillShell(i) PROVE TypeInv'
  BY <1>3 DEF Terminate, KillShell, UnlockHost
<1>4. ASSUME NEW i \in Invocations, ExperimentEnds(i) PROVE TypeInv'
  BY <1>4 DEF ExperimentEnds
<1> QED BY <1>1, <1>2, <1>3, <1>4 DEF SettingsNext

\* The variables keep their types; in particular the host is never given a
\* value nobody configured, such as the empty string of an unread original.
THEOREM TypeCorrect == SettingsSpec => []SettingsTypeOK
<1>1. TypeInv => SettingsTypeOK
  BY DEF TypeInv
<1> QED BY TypeInit, TypeStep, <1>1, PTL DEF SettingsSpec

----------------------------------------------------------------------------
(* The lock serializes *)

\* From the lock to the end of the experiment.
Inside == {"read", "write_core", "flag_core", "write_aslr", "flag_aslr",
           "check", "experiment"}

\* The lock is what keeps the others from touching a setting: who is inside
\* holds it, and who does not hold it has nothing to restore.
Serialized ==
    \A i \in Invocations :
        /\ command[i] \in Inside => hostLock = i
        /\ command[i] \in {"lock", "restore_aslr", "restore_core"}
              => hostLock = i \/ changed[i] = {}

LEMMA LockStep == ASSUME TypeInv, Serialized, [SettingsNext]_settingsVars PROVE Serialized'
<1> USE DEF TypeInv, SettingsTypeOK, Serialized, Inside, Restoring, Proceed, EarlyExit, Settings
<1>1. CASE UNCHANGED settingsVars
  BY <1>1 DEF settingsVars
<1>2. ASSUME NEW i \in Invocations, ShellStep(i) PROVE Serialized'
  <2>1. CASE LockHost(i)
    BY <2>1, KernelAssumption DEF LockHost, Nobody
  <2>2. CASE ReadOriginals(i)
    BY <2>2 DEF ReadOriginals
  <2>3. CASE WriteCore(i)
    BY <2>3 DEF WriteCore, Write
  <2>4. CASE FlagCore(i)
    BY <2>4 DEF FlagCore, Flag
  <2>5. CASE WriteAslr(i)
    BY <2>5 DEF WriteAslr, Write
  <2>6. CASE FlagAslr(i)
    BY <2>6 DEF FlagAslr, Flag
  <2>7. CASE Preflight(i)
    BY <2>7 DEF Preflight
  <2>8. CASE ShellGoesOn(i)
    BY <2>8 DEF ShellGoesOn
  <2>9. CASE RestoreAslr(i)
    BY <2>9 DEF RestoreAslr, PutBack
  <2>10. CASE RestoreCore(i)
    BY <2>10 DEF RestoreCore, PutBack, UnlockHost
  <2> QED BY <1>2, <2>1, <2>2, <2>3, <2>4, <2>5, <2>6, <2>7, <2>8, <2>9, <2>10 DEF ShellStep
<1>3. ASSUME NEW i \in Invocations, Terminate(i) PROVE Serialized'
  <2>1. CASE command[i] \in Restoring
    BY <1>3, <2>1 DEF Terminate, UnlockHost
  <2>2. CASE command[i] \notin Restoring
    <3>1. command[i] \in Inside \union {"lock"}
      BY <1>3, <2>2 DEF Terminate, Commands
    <3> QED BY <1>3, <2>2, <3>1 DEF Terminate
  <2> QED BY <2>1, <2>2
<1>4. ASSUME NEW i \in Invocations, KillShell(i) PROVE Serialized'
  BY <1>4 DEF KillShell, UnlockHost
<1>5. ASSUME NEW i \in Invocations, ExperimentEnds(i) PROVE Serialized'
  BY <1>5 DEF ExperimentEnds
<1> QED BY <1>1, <1>2, <1>3, <1>4, <1>5 DEF SettingsNext

----------------------------------------------------------------------------
(* The settings hold.  A shell that is killed drops the lock under its own  *)
(* experiment; what keeps the settings then is that whoever gets the lock   *)
(* finds them set, changes nothing and has nothing to put back.             *)

\* Nothing that i does from now on changes a setting.
Harmless(i) ==
    command[i] # "ended" =>
        /\ changed[i] = {}
        /\ command[i] \notin {"flag_core", "flag_aslr"}
        /\ command[i] \in {"write_core", "write_aslr"} => \A s \in Settings : original[i][s] = ForStateAFL

HoldInv ==
    /\ SettingsHold
    /\ \A i \in running \ abandoned :
          /\ command[i] \in {"experiment", "ended"}
          /\ command[i] = "ended" => \A j \in Invocations : Harmless(j)

LEMMA HoldStep == ASSUME TypeInv, Serialized, HoldInv, [SettingsNext]_settingsVars PROVE HoldInv'
<1> USE DEF TypeInv, SettingsTypeOK, Serialized, Inside, Restoring, HoldInv, Harmless, SettingsHold,
            Proceed, EarlyExit, Abandon, Settings
<1>1. CASE UNCHANGED settingsVars
  BY <1>1 DEF settingsVars
<1>2. ASSUME NEW i \in Invocations, ShellStep(i) PROVE HoldInv'
  <2>1. CASE LockHost(i)
    BY <2>1, KernelAssumption DEF LockHost, Nobody
  <2>2. CASE ReadOriginals(i)
    BY <2>2 DEF ReadOriginals
  <2>3. CASE WriteCore(i)
    BY <2>3 DEF WriteCore, Write
  <2>4. CASE FlagCore(i)
    BY <2>4 DEF FlagCore, Flag
  <2>5. CASE WriteAslr(i)
    BY <2>5 DEF WriteAslr, Write
  <2>6. CASE FlagAslr(i)
    BY <2>6 DEF FlagAslr, Flag
  <2>7. CASE Preflight(i)
    BY <2>7 DEF Preflight
  <2>8. CASE ShellGoesOn(i)
    BY <2>8 DEF ShellGoesOn
  <2>9. CASE RestoreAslr(i)
    BY <2>9 DEF RestoreAslr, PutBack
  <2>10. CASE RestoreCore(i)
    BY <2>10 DEF RestoreCore, PutBack, UnlockHost
  <2> QED BY <1>2, <2>1, <2>2, <2>3, <2>4, <2>5, <2>6, <2>7, <2>8, <2>9, <2>10 DEF ShellStep
<1>3. ASSUME NEW i \in Invocations, Terminate(i) PROVE HoldInv'
  BY <1>3 DEF Terminate
<1>4. ASSUME NEW i \in Invocations, KillShell(i) PROVE HoldInv'
  BY <1>4 DEF KillShell, Commands
<1>5. ASSUME NEW i \in Invocations, ExperimentEnds(i) PROVE HoldInv'
  BY <1>5 DEF ExperimentEnds
<1> QED BY <1>1, <1>2, <1>3, <1>4, <1>5 DEF SettingsNext

\* However many invocations start, fail, are terminated or killed, at
\* whichever command: both settings are in place for every experiment whose
\* own shell has not gone into its trap, also when that shell was killed and
\* others have come and gone since.
THEOREM SettingsAlwaysHold == SettingsSpec => []SettingsHold
<1>1. SettingsInit => Serialized /\ HoldInv
  BY DEF SettingsInit, Serialized, HoldInv, SettingsHold, Inside
<1>2. HoldInv => SettingsHold
  BY DEF HoldInv
<1> QED BY TypeInit, TypeStep, LockStep, HoldStep, <1>1, <1>2, PTL DEF SettingsSpec

----------------------------------------------------------------------------
(* The host ends as it was.  With signals this fails: see the run          *)
(* KernelSettingsTerminated.                                               *)

FlagLocation == [core_pattern |-> "flag_core", randomize_va_space |-> "flag_aslr"]

\* Where i has passed the command that puts s back.
PastRestore(s) ==
    IF s = "core_pattern" THEN {"ended"} ELSE {"restore_core", "ended"}

\* i has changed s and will put it back before it gives up the lock.
Owes(i, s) ==
    /\ hostLock = i
    /\ \/ command[i] = FlagLocation[s]
       \/ s \in changed[i] /\ command[i] \notin PastRestore(s)

\* What is not as configured is owed by the invocation that has the lock,
\* which knows the configured value.
RestoreInv ==
    /\ \A s \in Settings :
          setting[s] = Configured \/ \E i \in Invocations : Owes(i, s)
    /\ \A i \in Invocations :
          /\ command[i] \in Preparing \/ changed[i] # {}
                => \A s \in Settings : original[i][s] = Configured
          /\ command[i] \in {"lock", "read", "write_core", "flag_core"} => changed[i] = {}

LEMMA RestoreStep ==
    ASSUME TypeInv, Serialized, RestoreInv, [SettingsNext]_settingsVars,
           Signals = {}, RestoreMayFail = FALSE
    PROVE  RestoreInv'
<1> USE DEF TypeInv, SettingsTypeOK, Serialized, Inside, RestoreInv, Owes, FlagLocation,
            PastRestore, Preparing, Restoring, Proceed, EarlyExit, Settings
<1>1. CASE UNCHANGED settingsVars
  BY <1>1 DEF settingsVars
<1>2. ASSUME NEW i \in Invocations, ShellStep(i) PROVE RestoreInv'
  <2>1. CASE LockHost(i)
    BY <2>1, KernelAssumption DEF LockHost, Nobody
  <2>2. CASE ReadOriginals(i)
    BY <2>2 DEF ReadOriginals
  <2>3. CASE WriteCore(i)
    BY <2>3 DEF WriteCore, Write
  <2>4. CASE FlagCore(i)
    BY <2>4 DEF FlagCore, Flag
  <2>5. CASE WriteAslr(i)
    BY <2>5 DEF WriteAslr, Write
  <2>6. CASE FlagAslr(i)
    BY <2>6 DEF FlagAslr, Flag
  <2>7. CASE Preflight(i)
    BY <2>7 DEF Preflight
  <2>8. CASE ShellGoesOn(i)
    BY <2>8 DEF ShellGoesOn
  <2>9. CASE RestoreAslr(i)
    BY <2>9 DEF RestoreAslr, PutBack
  <2>10. CASE RestoreCore(i)
    BY <2>10 DEF RestoreCore, PutBack, UnlockHost
  <2> QED BY <1>2, <2>1, <2>2, <2>3, <2>4, <2>5, <2>6, <2>7, <2>8, <2>9, <2>10 DEF ShellStep
<1>3. ASSUME NEW i \in Invocations, Terminate(i) \/ KillShell(i) PROVE RestoreInv'
  BY <1>3 DEF Terminate, KillShell
<1>4. ASSUME NEW i \in Invocations, ExperimentEnds(i) PROVE RestoreInv'
  BY <1>4 DEF ExperimentEnds
<1> QED BY <1>1, <1>2, <1>3, <1>4 DEF SettingsNext

\* Without signals, and as long as a restoration does not fail: once no
\* invocation is left, the host is configured as before the first one,
\* whichever preparations and experiments failed.
THEOREM SettingsRestored ==
    ASSUME Signals = {}, RestoreMayFail = FALSE
    PROVE  SettingsSpec => []Restored
<1>1. SettingsInit => Serialized /\ RestoreInv
  BY DEF SettingsInit, Serialized, Inside, RestoreInv, Preparing, Settings
<1>2. TypeInv /\ RestoreInv => Restored
  BY DEF TypeInv, SettingsTypeOK, RestoreInv, Restored, NobodyLeft, Owes, FlagLocation, PastRestore, Settings
<1>3. TypeInv /\ Serialized /\ RestoreInv /\ [SettingsNext]_settingsVars => (TypeInv /\ Serialized /\ RestoreInv)'
  BY TypeStep, LockStep, RestoreStep
<1> QED BY TypeInit, <1>1, <1>2, <1>3, PTL DEF SettingsSpec
=============================================================================
