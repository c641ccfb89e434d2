----------------------------- MODULE SharedFiles -----------------------------
(***************************************************************************)
(* What the launchers of several targets share on a host besides the       *)
(* Voltron sources: the template of the uv cache, prewarmed once and       *)
(* copied for each container; the counter from which containers take       *)
(* their API profile in turn; and the manifest of the containers. Each has *)
(* a lock file. The helpers that work on them can fail or be killed, and   *)
(* run_voltron.sh goes on without looking at most of their statuses.       *)
(***************************************************************************)
EXTENDS Integers, FiniteSets

CONSTANTS
    Launchers,      \* run_voltron.sh processes, one per target
    NumReplications, \* containers of each
    NumProfiles,    \* size of the pool
    MaxFaults       \* helpers that fail or are killed (a bound)

NoOne == "nobody"

\* Names that are not launchers, and at least one profile and one container.
ASSUME FilesAssumption ==
    /\ NoOne \notin Launchers /\ "client" \notin Launchers
    /\ NumReplications \in Nat \ {0} /\ NumProfiles \in Nat \ {0} /\ MaxFaults \in Nat

VARIABLES
    pc,             \* the next step of each launcher
    rep,            \* the replication it is at
    prewarm,        \* how its prewarming ended: "unknown", "ok" or "failed"
    locks,          \* who holds the locks of the template, counter, manifest
    template,       \* "none", "leftover" (without .ready), "ready" or "nested"
    temporary,      \* the directory that a prewarming fills
    copy,           \* the copy for the container at hand
    cacheOf,        \* what each container has for its cache
    counter,        \* the number in the file, or Absent or Empty
    read,           \* the number a launcher has read
    picked,         \* how often each profile was taken
    manifest,       \* the events of each container in the manifest
    seen,           \* what a recorder has read of it
    reported,       \* history: what was recorded with success
    faults, reset   \* faults so far; history: a selection was cut short

filesVars == <<pc, rep, prewarm, locks, template, temporary, copy, cacheOf, counter, read, picked,
               manifest, seen, reported, faults, reset>>

Containers == Launchers \X (1..NumReplications)
Profiles == 0..(NumProfiles - 1)
Absent == -2
Empty == -1
NoRecords == [c \in Containers |-> {}]

FilesInit ==
    /\ pc = [l \in Launchers |-> "prewarm"] /\ rep = [l \in Launchers |-> 1]
    /\ prewarm = [l \in Launchers |-> "unknown"]
    /\ locks = [f \in {"template", "counter", "manifest"} |-> NoOne]
    /\ template \in {"none", "leftover", "ready"}
    /\ temporary = [l \in Launchers |-> "none"] /\ copy = [l \in Launchers |-> "none"]
    /\ cacheOf = [c \in Containers |-> "none"]
    /\ counter \in {Absent, Empty, 0, 1}
    /\ read = [l \in Launchers |-> 0] /\ picked = [p \in Profiles |-> 0]
    /\ manifest = NoRecords /\ reported = NoRecords
    /\ seen = [l \in Launchers |-> NoRecords]
    /\ faults = 0 /\ reset = FALSE

Goto(l, from, to) == pc[l] = from /\ pc' = [pc EXCEPT ![l] = to]
Takes(l, f) == locks[f] = NoOne /\ locks' = [locks EXCEPT ![f] = l]
Releases(l, f) == locks' = [locks EXCEPT ![f] = IF @ = l THEN NoOne ELSE @]
Faulty == faults < MaxFaults /\ faults' = faults + 1

templateVars == <<template, temporary>>
copyVars == <<copy, cacheOf>>
counterVars == <<counter, read, picked, reset>>
manifestVars == <<manifest, seen, reported>>

----------------------------------------------------------------------------
(* prepare_voltron_uv_cache.sh *)

\* A template that is ready is never touched again.
LockTemplate(l) ==
    /\ pc[l] = "prewarm" /\ locks["template"] = NoOne
    /\ IF template = "ready"
       THEN /\ pc' = [pc EXCEPT ![l] = "copy"] /\ prewarm' = [prewarm EXCEPT ![l] = "ok"]
            /\ UNCHANGED <<locks, temporary>>
       ELSE /\ pc' = [pc EXCEPT ![l] = "build"] /\ locks' = [locks EXCEPT !["template"] = l]
            /\ temporary' = [temporary EXCEPT ![l] = "part"] /\ UNCHANGED prewarm
    /\ UNCHANGED <<rep, template, copyVars, counterVars, manifestVars, faults>>

\* docker run: uv sync and an import of what was installed; then .ready.
Build(l) ==
    /\ Goto(l, "build", "retire") /\ temporary' = [temporary EXCEPT ![l] = "ready"]
    /\ UNCHANGED <<rep, prewarm, locks, template, copyVars, counterVars, manifestVars, faults>>

\* What is there is moved aside.
Retire(l) ==
    /\ Goto(l, "retire", "publish") /\ template' = "none"
    /\ UNCHANGED <<rep, prewarm, locks, temporary, copyVars, counterVars, manifestVars, faults>>

\* mv puts a directory into one that exists.
Publish(l) ==
    /\ Goto(l, "publish", "copy")
    /\ template' = IF template = "none" THEN temporary[l] ELSE "nested"
    /\ temporary' = [temporary EXCEPT ![l] = "none"]
    /\ prewarm' = [prewarm EXCEPT ![l] = "ok"] /\ Releases(l, "template")
    /\ UNCHANGED <<rep, copyVars, counterVars, manifestVars, faults>>

\* A command fails, or the helper is killed; the launcher does not notice. A
\* docker client that survives it still has the lock.
PrewarmStops(l) ==
    /\ pc[l] \in {"prewarm", "build", "retire", "publish"} /\ Faulty
    /\ pc' = [pc EXCEPT ![l] = "copy"] /\ prewarm' = [prewarm EXCEPT ![l] = "failed"]
    /\ temporary' = [temporary EXCEPT ![l] = "none"]
    /\ \/ Releases(l, "template")
       \/ pc[l] = "build" /\ locks' = [locks EXCEPT !["template"] = "client"]
    /\ UNCHANGED <<rep, template, copyVars, counterVars, manifestVars>>

ClientEnds ==
    /\ locks["template"] = "client" /\ locks' = [locks EXCEPT !["template"] = NoOne]
    /\ UNCHANGED <<pc, rep, prewarm, templateVars, copyVars, counterVars, manifestVars, faults>>

----------------------------------------------------------------------------
(* prepare_uv_cache_instance and the profile of a container *)

\* cp -a: nothing to copy, or what is there when it starts.
StartCopy(l) ==
    /\ pc[l] = "copy"
    /\ IF template = "none" THEN pc' = [pc EXCEPT ![l] = "stopped"] /\ UNCHANGED copy
       ELSE /\ pc' = [pc EXCEPT ![l] = "place"]
            /\ copy' = [copy EXCEPT ![l] = IF template = "ready" THEN "whole" ELSE "old"]
    /\ UNCHANGED <<rep, prewarm, locks, templateVars, cacheOf, counterVars, manifestVars, faults>>

\* The permissions are opened, and the copy is moved to its place. Without a
\* pool of profiles to choose from there is the gateway (not here).
Place(l) ==
    /\ Goto(l, "place", "pick")
    /\ cacheOf' = [cacheOf EXCEPT ![<<l, rep[l]>>] = copy[l]]
    /\ UNCHANGED <<rep, prewarm, locks, templateVars, copy, counterVars, manifestVars, faults>>

\* A copy that fails is the end of the launcher; so is docker run.
CopyStops(l) ==
    /\ pc[l] \in {"place", "pick", "run"} /\ Faulty /\ pc' = [pc EXCEPT ![l] = "stopped"]
    /\ UNCHANGED <<rep, prewarm, locks, templateVars, copyVars, counterVars, manifestVars>>

\* select_llm_profile
LockCounter(l) ==
    /\ Goto(l, "pick", "truncate") /\ Takes(l, "counter")
    /\ read' = [read EXCEPT ![l] = IF counter >= 0 THEN counter ELSE 0]
    /\ UNCHANGED <<rep, prewarm, templateVars, copyVars, counter, picked, reset, manifestVars, faults>>

\* The redirection empties the file before printf writes to it.
Truncate(l) ==
    /\ Goto(l, "truncate", "count") /\ counter' = Empty
    /\ UNCHANGED <<rep, prewarm, locks, templateVars, copyVars, read, picked, reset, manifestVars, faults>>

Count(l) ==
    /\ Goto(l, "count", "run") /\ counter' = read[l] + 1 /\ Releases(l, "counter")
    /\ picked' = [picked EXCEPT ![read[l] % NumProfiles] = @ + 1]
    /\ UNCHANGED <<rep, prewarm, templateVars, copyVars, read, reset, manifestVars, faults>>

\* The subshell is killed before it has printed the index, which is 0 in
\* $((profile_index * 3)) then.
SelectStops(l) ==
    /\ pc[l] \in {"truncate", "count"} /\ Faulty
    /\ pc' = [pc EXCEPT ![l] = "run"] /\ Releases(l, "counter") /\ reset' = TRUE
    /\ counter' \in (IF pc[l] = "count" THEN {counter, read[l] + 1} ELSE {counter})
    /\ picked' = [picked EXCEPT ![0] = @ + 1]
    /\ UNCHANGED <<rep, prewarm, templateVars, copyVars, read, manifestVars>>

StartContainer(l) ==
    /\ Goto(l, "run", "started")
    /\ UNCHANGED <<rep, prewarm, locks, templateVars, copyVars, counterVars, manifestVars, faults>>

----------------------------------------------------------------------------
(* record_container_manifest.py, once a container has started and once it has
   finished *)

\* Where a launcher goes on after recording an event.
AfterRecord(l) ==
    /\ rep' = [rep EXCEPT ![l] = IF @ < NumReplications THEN @ + 1 ELSE 1]
    /\ pc' = [pc EXCEPT ![l] =
                  CASE @ \in {"started", "startedRead"} -> IF rep[l] < NumReplications THEN "copy" ELSE "finished"
                    [] OTHER -> IF rep[l] < NumReplications THEN "finished" ELSE "done"]

\* Mutant: the manifest is read without the lock.
LockManifestLate(l) ==
    /\ pc[l] \in {"started", "finished"}
    /\ pc' = [pc EXCEPT ![l] = IF @ = "started" THEN "startedRead" ELSE "finishedRead"]
    /\ seen' = [seen EXCEPT ![l] = manifest]
    /\ UNCHANGED <<locks, rep, prewarm, templateVars, copyVars, counterVars, manifest, reported, faults>>

LockManifest(l) ==
    /\ pc[l] \in {"started", "finished"} /\ Takes(l, "manifest")
    /\ pc' = [pc EXCEPT ![l] = IF @ = "started" THEN "startedRead" ELSE "finishedRead"]
    /\ seen' = [seen EXCEPT ![l] = manifest]
    /\ UNCHANGED <<rep, prewarm, templateVars, copyVars, counterVars, manifest, reported, faults>>

\* os.replace: the records read, the one of this container changed or added.
ReplaceManifest(l) ==
    /\ pc[l] \in {"startedRead", "finishedRead"}
    /\ LET c == <<l, rep[l]>>
           event == IF pc[l] = "startedRead" THEN "started" ELSE "finished"
       IN /\ manifest' = [seen[l] EXCEPT ![c] = @ \cup {event}]
          /\ reported' = [reported EXCEPT ![c] = @ \cup {event}]
    /\ Releases(l, "manifest") /\ AfterRecord(l)
    /\ UNCHANGED <<prewarm, templateVars, copyVars, counterVars, seen, faults>>

\* docker inspect fails, or the recorder is killed: record_manifest hides it.
RecorderStops(l) ==
    /\ pc[l] \in {"started", "finished", "startedRead", "finishedRead"} /\ Faulty
    /\ Releases(l, "manifest") /\ AfterRecord(l)
    /\ UNCHANGED <<prewarm, templateVars, copyVars, counterVars, manifestVars>>

\* Every launcher has ended, and nothing else goes on.
AllEnded ==
    /\ \A l \in Launchers : pc[l] \in {"stopped", "done"}
    /\ locks["template"] = NoOne /\ UNCHANGED filesVars

FilesNext ==
    \/ ClientEnds \/ AllEnded
    \/ \E l \in Launchers :
          \/ LockTemplate(l) \/ Build(l) \/ Retire(l) \/ Publish(l) \/ PrewarmStops(l)
          \/ StartCopy(l) \/ Place(l) \/ CopyStops(l)
          \/ LockCounter(l) \/ Truncate(l) \/ Count(l) \/ SelectStops(l)
          \/ StartContainer(l) \/ LockManifest(l) \/ ReplaceManifest(l) \/ RecorderStops(l)

FilesSpec == FilesInit /\ [][FilesNext]_filesVars

----------------------------------------------------------------------------
\* A container has a whole cache, unless the prewarming of its launcher has
\* failed and an unfinished template of an earlier version was there; no
\* template is ever put into another one.
CachesWhole ==
    /\ template # "nested"
    /\ \A c \in Containers : cacheOf[c] = "old" => prewarm[c[1]] = "failed"

\* If no selection was cut short, the profiles are taken in turn: none is
\* more than one ahead of another.
ProfilesInTurn ==
    ~reset => \A p, q \in Profiles : picked[p] <= picked[q] + 1

\* No event that was recorded with success is lost from the manifest.
RecordsKept == \A c \in Containers : reported[c] \subseteq manifest[c]

\* Whatever helpers fail or are killed, of however many launchers at once.
SharedFilesSound == CachesWhole /\ ProfilesInTurn /\ RecordsKept
=============================================================================
