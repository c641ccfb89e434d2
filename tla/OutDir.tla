------------------------------- MODULE OutDir -------------------------------
(***************************************************************************)
(* The output directory of afl-fuzz across sessions: a session is started  *)
(* anew or resumed in place (-i -), may be killed at any moment, and keeps *)
(* its seeds in queue/. A resume moves queue/ to _resume/, imports it from *)
(* there into a new queue/, and deletes _resume/ in the end. ChatAFL asks  *)
(* a language model for enriched seeds in between, which go to the         *)
(* directory that seeds are read from.                                     *)
(***************************************************************************)
EXTENDS Integers, FiniteSets

CONSTANTS
    UserSeeds,     \* the files of the user's input directory
    Items          \* and what can be found or made besides (a bound)

\* UserSeeds is not empty; Items are finitely many others.

VARIABLES
    doing,         \* what afl-fuzz is doing
    mode,          \* "new" or "resume"
    exist,         \* the directories there are
    seedDir,       \* the input directory
    queue,         \* queue/id:*
    resume,        \* _resume/id:*
    extra,         \* the other files of _resume/
    entries,       \* the queue in memory
    stats,         \* fuzzer_stats: "none", "torn", "young" or "old"
    seekTo,        \* where the session goes on
    saved,         \* what the crash directory, or a backup of it, holds
    session,       \* history: the seeds a session that began has had
    lossy          \* history: what the code does not survive has happened

outDirVars == <<doing, mode, exist, seedDir, queue, resume, extra, entries, stats, seekTo, saved,
                session, lossy>>

OutDirInit ==
    /\ doing = "off" /\ mode = "new" /\ exist = {} /\ seedDir = UserSeeds
    /\ queue = {} /\ resume = {} /\ extra = {} /\ entries = {}
    /\ stats = "none" /\ seekTo = 0 /\ saved = {} /\ session = {} /\ lossy = FALSE

Fresh == Items \ (seedDir \cup queue \cup resume \cup extra \cup session)

-----------------------------------------------------------------------------
(* setup_dirs_fds and maybe_delete_out_dir *)

\* rename() does not replace a directory that holds something.
\* Mutant: what is in _resume/ is given up for the queue.
RenamesAlways == "queue" \in exist
Renames == "queue" \in exist /\ ("_resume" \notin exist \/ resume \cup extra = {})

StartNew ==
    /\ doing = "off" /\ (exist = {} \/ stats \in {"none", "young"})
    /\ mode' = "new" /\ session' = {} /\ lossy' = ("_resume" \in exist)
    /\ IF exist = {} THEN exist' = {"out"} /\ doing' = "mkdir" ELSE exist' = exist /\ doing' = "clean"
    /\ UNCHANGED <<seedDir, queue, resume, extra, entries, stats, seekTo, saved>>

StartResume ==
    /\ doing = "off" /\ "out" \in exist /\ stats # "torn"
    /\ mode' = "resume" /\ doing' = "clean"
    /\ IF Renames
       THEN /\ resume' = queue /\ queue' = {} /\ extra' = {}
            /\ exist' = (exist \ {"queue"}) \cup {"_resume"}
       ELSE UNCHANGED <<exist, queue, resume, extra>>
    /\ UNCHANGED <<seedDir, entries, stats, seekTo, saved, session, lossy>>

\* delete_files(queue/, "id:"), one after the other, then the directory.
DeleteQueued ==
    /\ doing = "clean"
    /\ \/ \E s \in queue : queue' = queue \ {s} /\ UNCHANGED <<exist, doing>>
       \/ queue = {} /\ exist' = exist \ {"queue"} /\ doing' = "clear" /\ UNCHANGED queue
    /\ UNCHANGED <<mode, seedDir, resume, extra, entries, stats, seekTo, saved, session, lossy>>

\* Crashes and hangs are deleted, or renamed first when resuming; the
\* statistics stay for a resume.
DeleteRest ==
    /\ doing = "clear" /\ doing' = "mkdir"
    /\ saved' = IF mode = "resume" THEN saved ELSE {}
    /\ stats' = IF mode = "resume" THEN stats ELSE "none"
    /\ UNCHANGED <<mode, exist, seedDir, queue, resume, extra, entries, seekTo, session, lossy>>

MakeDirs ==
    /\ doing = "mkdir" /\ doing' = "enrich" /\ exist' = exist \cup {"queue"}
    /\ UNCHANGED <<mode, seedDir, queue, resume, extra, entries, stats, seekTo, saved, session, lossy>>

-----------------------------------------------------------------------------
(* enrich_testcases, read_testcases and pivot_inputs *)

\* In _resume/ the directory .state is opened like a seed, which ends the
\* process or not. An enriched file does not have the name of a queue entry.
EnrichTestcases ==
    /\ doing = "enrich"
    /\ \/ mode = "resume" /\ doing' = "off" /\ UNCHANGED <<seedDir, extra>>
       \/ doing' = "read" /\ UNCHANGED <<seedDir, extra>>
       \/ \E e \in Fresh :
             /\ doing' = "read"
             /\ IF mode = "new" THEN seedDir' = seedDir \cup {e} /\ extra' = extra
                ELSE "_resume" \in exist /\ extra' = extra \cup {e} /\ seedDir' = seedDir
    /\ UNCHANGED <<mode, exist, queue, resume, entries, stats, seekTo, saved, session, lossy>>

Sources == IF mode = "new" THEN seedDir ELSE resume \cup extra

\* Without a seed the program ends.
ReadTestcases ==
    /\ doing = "read"
    /\ entries' = Sources
    /\ doing' = IF Sources = {} THEN "off" ELSE "pivot"
    /\ UNCHANGED <<mode, exist, seedDir, queue, resume, extra, stats, seekTo, saved, session, lossy>>

PivotInputs ==
    /\ doing = "pivot"
    /\ \/ \E s \in entries \ queue : queue' = queue \cup {s} /\ doing' = doing
       \/ entries \subseteq queue /\ doing' = (IF mode = "resume" THEN "nuke" ELSE "start") /\ queue' = queue
    /\ UNCHANGED <<mode, exist, seedDir, resume, extra, entries, stats, seekTo, saved, session, lossy>>

\* nuke_resume_dir: queue entries are deleted, and the directory if nothing
\* else is in it; the program ends if something is.
NukeResumeDir ==
    /\ doing = "nuke"
    /\ \/ \E s \in resume : resume' = resume \ {s} /\ UNCHANGED <<exist, doing, lossy>>
       \/ /\ resume = {} /\ resume' = resume
          /\ IF extra = {} THEN exist' = exist \ {"_resume"} /\ doing' = "start" /\ lossy' = lossy
             ELSE exist' = exist /\ doing' = "off" /\ lossy' = TRUE
    /\ UNCHANGED <<mode, seedDir, queue, extra, entries, stats, seekTo, saved, session>>

-----------------------------------------------------------------------------
(* The session *)

\* find_start_position: the path that was fuzzed last, if it is still there.
find_start_position(cur) ==
    IF mode = "new" \/ stats \in {"none", "torn"} \/ cur >= Cardinality(entries) THEN 0 ELSE cur

\* write_stats_file truncates the file before it writes it.
BeginSession ==
    /\ doing = "start" /\ doing' = "stats" /\ stats' = "torn"
    /\ session' = session \cup entries
    /\ \E cur \in 0..Cardinality(Items) : seekTo' = find_start_position(cur)
    /\ UNCHANGED <<mode, exist, seedDir, queue, resume, extra, entries, saved, lossy>>

StatsWritten ==
    /\ doing = "stats" /\ doing' = "run" /\ stats' \in {"young", "old"}
    /\ UNCHANGED <<mode, exist, seedDir, queue, resume, extra, entries, seekTo, saved, session, lossy>>

StatsDue ==
    /\ doing = "run" /\ doing' = "stats" /\ stats' = "torn"
    /\ UNCHANGED <<mode, exist, seedDir, queue, resume, extra, entries, seekTo, saved, session, lossy>>

FindPath ==
    /\ doing = "run"
    /\ \E s \in Fresh :
          queue' = queue \cup {s} /\ entries' = entries \cup {s} /\ session' = session \cup {s}
    /\ saved' = saved \cup {"crash"}
    /\ UNCHANGED <<doing, mode, exist, seedDir, resume, extra, stats, seekTo, lossy>>

Killed ==
    /\ doing # "off" /\ doing' = "off"
    /\ lossy' = (lossy \/ doing = "nuke")
    /\ UNCHANGED <<mode, exist, seedDir, queue, resume, extra, entries, stats, seekTo, saved, session>>

OutDirNext ==
    \/ StartNew \/ StartResume \/ DeleteQueued \/ DeleteRest \/ MakeDirs
    \/ EnrichTestcases \/ ReadTestcases \/ PivotInputs \/ NukeResumeDir
    \/ BeginSession \/ StatsWritten \/ StatsDue \/ FindPath \/ Killed

OutDirSpec == OutDirInit /\ [][OutDirNext]_outDirVars

-----------------------------------------------------------------------------
\* A session that is killed while its queue is moved, deleted or imported is
\* resumed with every seed it had, however often that happens; two things are
\* left out here: a kill while _resume/ is deleted, and files that an earlier
\* session, or the model, left in _resume/.
SeedsSurviveKills == doing = "run" /\ ~lossy => session \subseteq queue
=============================================================================
