----------------------------- MODULE MCLauncher -----------------------------
(***************************************************************************)
(* The executor with its launchers; the launchers of two targets with the  *)
(* files that they share; or the results of one launcher on their way from *)
(* its containers to the bundle: job says which of the three runs.         *)
(***************************************************************************)
EXTENDS Launcher, SharedFiles, Results

VARIABLE job

allVars == <<job, vars, filesVars, resultVars>>

MCInit ==
    /\ job \in {"executor", "files", "results"} /\ Init /\ FilesInit /\ ResultsInit
    /\ job # "files" => template = "none" /\ counter = Absent
    /\ job # "results" => \A s \in DOMAIN settings : ~ settings[s]

Executing == job = "executor" /\ Next /\ UNCHANGED <<job, filesVars, resultVars>>
Sharing == job = "files" /\ FilesNext /\ UNCHANGED <<job, vars, resultVars>>
Delivering == job = "results" /\ ResultsNext /\ UNCHANGED <<job, vars, filesVars>>
MCNext == Executing \/ Sharing \/ Delivering

MCSpec == MCInit /\ [][MCNext]_allVars
=============================================================================
