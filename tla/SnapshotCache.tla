---------------------------- MODULE SnapshotCache ----------------------------
(***************************************************************************)
(* scripts/prepare_voltron.sh: the cache of Voltron source trees that the  *)
(* launchers of all experiments on a host share.  Every launcher runs the  *)
(* script once, under the lock file of the cache, and then bind-mounts the *)
(* snapshot it is told into its containers, without the lock.  The script  *)
(* may fail at any command (set -e) and be killed between any two; it sets *)
(* no trap.  What it left behind, and what earlier versions of it left, is *)
(* what the next launcher finds.                                           *)
(*                                                                         *)
(* A directory is the set of what is in it: {} does not exist.             *)
(***************************************************************************)
EXTENDS Integers, FiniteSets

CONSTANTS
    Launchers,    \* the processes that run the script
    Snapshots,    \* the commits and images a launcher may ask for
    Images,       \* those of them that are images (VOLTRON_SOURCE_IMAGE)
    Truncated,    \* those whose tree has not the files Voltron needs
    InitialTrees, \* what earlier versions may have left under a snapshot path
    Faults        \* "fail": a command may fail, "kill": a launcher may be killed

Parts == {"dir",       \* the directory itself
          "required",  \* the four files source_tree_is_complete looks for
          "other",     \* all other files of the tree
          "commit",    \* a .benchmark-voltron-commit that is not empty
          "readable",  \* mode 0755 instead of the 0700 of mktemp
          "ready",     \* .benchmark-ready
          "nested"}    \* a directory that mv put inside an existing one

Absent == {}

source_tree_is_complete(d) == "required" \in d

snapshot_is_ready(d) == "ready" \in d /\ source_tree_is_complete(d)

NoSnapshot == "none"
NoOne == "nobody"

\* Earlier versions published whole trees, without the commit marker and with
\* mode 0700, or left something that is not ready.
ASSUME CacheAssumption ==
    /\ Images \subseteq Snapshots /\ Truncated \subseteq Snapshots
    /\ NoSnapshot \notin Snapshots /\ NoOne \notin Launchers
    /\ InitialTrees \subseteq SUBSET (Parts \ {"nested"})
    /\ \A d \in InitialTrees :
          /\ d # Absent => "dir" \in d
          /\ snapshot_is_ready(d) => "other" \in d
    /\ Faults \subseteq {"fail", "kill"}

VARIABLES
    tree,    \* what is at the path of each snapshot
    lock,    \* the launcher whose processes hold prepare.lock, or NoOne
    pc,      \* the next command of each launcher
    snap,    \* SNAPSHOT, once COMMIT or IMAGE_ID is known
    temp     \* what is in TEMP

cacheVars == <<tree, lock, pc, snap, temp>>

UnderLock == {"resolve", "test", "remove", "extract", "check", "dress", "publish",
              "chmod", "mark", "verify"}
CacheOver == {"done", "failed", "killed"}
Locations == {"start", "using", "orphan"} \union UnderLock \union CacheOver

CacheInit ==
    /\ tree \in [Snapshots -> InitialTrees]
    /\ lock = NoOne
    /\ pc = [l \in Launchers |-> "start"]
    /\ snap = [l \in Launchers |-> NoSnapshot]
    /\ temp = [l \in Launchers |-> Absent]

Goto(l, from, to) == pc[l] = from /\ pc' = [pc EXCEPT ![l] = to]

Unlock(l) == lock' = IF lock = l THEN NoOne ELSE lock

----------------------------------------------------------------------------

\* VOLTRON_SOURCE_DIR: the cache is not used.
UseCheckout(l) ==
    /\ Goto(l, "start", "done")
    /\ UNCHANGED <<tree, lock, snap, temp>>

\* exec 9>prepare.lock; flock 9
Lock(l) ==
    /\ Goto(l, "start", "resolve")
    /\ lock = NoOne
    /\ lock' = l
    /\ UNCHANGED <<tree, snap, temp>>

\* docker pull and inspect, or fetch and rev-parse: the ref may have moved.
Resolve(l) ==
    /\ Goto(l, "resolve", "test")
    /\ \E s \in Snapshots : snap' = [snap EXCEPT ![l] = s]
    /\ UNCHANGED <<tree, lock, temp>>

\* Mutants: the marker is enough, or every launcher prepares its snapshot
\* afresh.
TestMarker(l) ==
    /\ pc[l] = "test"
    /\ pc' = [pc EXCEPT ![l] =
          IF "ready" \in tree[snap[l]] THEN "chmod"
          ELSE IF tree[snap[l]] = Absent THEN "extract" ELSE "remove"]
    /\ UNCHANGED <<tree, lock, snap, temp>>
TestAfresh(l) ==
    /\ Goto(l, "test", IF tree[snap[l]] = Absent THEN "extract" ELSE "remove")
    /\ UNCHANGED <<tree, lock, snap, temp>>

Test(l) ==
    /\ pc[l] = "test"
    /\ pc' = [pc EXCEPT ![l] =
          IF snapshot_is_ready(tree[snap[l]]) THEN "chmod"
          ELSE IF tree[snap[l]] = Absent THEN "extract" ELSE "remove"]
    /\ UNCHANGED <<tree, lock, snap, temp>>

\* rm -rf deletes in any order, the directory last.
Deletes(l, from, to) ==
    /\ pc[l] = from
    /\ \E left \in SUBSET tree[snap[l]] :
          /\ left # tree[snap[l]]
          /\ left # Absent => "dir" \in left
          /\ tree' = [tree EXCEPT ![snap[l]] = left]
          /\ pc' = [pc EXCEPT ![l] = IF left = Absent THEN to ELSE from]

Remove(l) == Deletes(l, "remove", "extract") /\ UNCHANGED <<lock, snap, temp>>

\* git archive | tar, or docker create and docker cp, into mktemp -d.
Extract(l) ==
    /\ Goto(l, "extract", "check")
    /\ temp' = [temp EXCEPT ![l] =
          {"dir", "other"} \union (IF snap[l] \in Truncated THEN {} ELSE {"required"})]
    /\ UNCHANGED <<tree, lock, snap>>

Check(l) ==
    /\ pc[l] = "check"
    /\ \/ /\ source_tree_is_complete(temp[l])
          /\ pc' = [pc EXCEPT ![l] = "dress"]
          /\ UNCHANGED <<lock, temp>>
       \/ /\ ~ source_tree_is_complete(temp[l])
          /\ pc' = [pc EXCEPT ![l] = "failed"]
          /\ temp' = [temp EXCEPT ![l] = Absent]
          /\ Unlock(l)
    /\ UNCHANGED <<tree, snap>>

\* chmod 0755, the api_key blanked out, the commit marker, .benchmark-ready.
Dress(l) ==
    /\ Goto(l, "dress", "publish")
    /\ temp' = [temp EXCEPT ![l] = @ \union {"readable", "commit", "ready"}]
    /\ UNCHANGED <<tree, lock, snap>>

\* mv TEMP SNAPSHOT: a rename, unless SNAPSHOT is a directory.
Publish(l) ==
    /\ Goto(l, "publish", "chmod")
    /\ tree' = [tree EXCEPT ![snap[l]] =
          IF @ = Absent THEN temp[l] ELSE @ \union {"nested"}]
    /\ temp' = [temp EXCEPT ![l] = Absent]
    /\ UNCHANGED <<lock, snap>>

\* The script prints SNAPSHOT and exits with status 0.
Return(l) == pc' = [pc EXCEPT ![l] = "using"] /\ Unlock(l)

\* chmod 0755 SNAPSHOT repairs what earlier versions published; for an image
\* it is the last command.
Chmod(l) ==
    /\ pc[l] = "chmod"
    /\ tree' = [tree EXCEPT ![snap[l]] = @ \union {"readable"}]
    /\ \/ snap[l] \in Images /\ Return(l)
       \/ snap[l] \notin Images /\ pc' = [pc EXCEPT ![l] = "mark"] /\ UNCHANGED lock
    /\ UNCHANGED <<snap, temp>>

Mark(l) ==
    /\ Goto(l, "mark", "verify")
    /\ tree' = [tree EXCEPT ![snap[l]] = @ \union {"commit"}]
    /\ UNCHANGED <<lock, snap, temp>>

Verify(l) ==
    /\ pc[l] = "verify"
    /\ \/ snapshot_is_ready(tree[snap[l]]) /\ Return(l)
       \/ /\ ~ snapshot_is_ready(tree[snap[l]])
          /\ pc' = [pc EXCEPT ![l] = "failed"] /\ Unlock(l)
    /\ UNCHANGED <<tree, snap, temp>>

\* The experiment of the launcher ends.
EndUse(l) ==
    /\ Goto(l, "using", "done")
    /\ UNCHANGED <<tree, lock, snap, temp>>

\* set -e: TEMP stays behind unless docker cp failed.
CommandFails(l) ==
    /\ "fail" \in Faults
    /\ pc[l] \in UnderLock
    /\ pc' = [pc EXCEPT ![l] = "failed"]
    /\ Unlock(l)
    /\ temp' = [temp EXCEPT ![l] = IF pc[l] = "extract" /\ snap[l] \in Images
                                   THEN Absent ELSE @]
    /\ UNCHANGED <<tree, snap>>

\* A signal ends the shell and the command it runs, or the shell alone: its
\* child has inherited descriptor 9 and keeps the lock until it ends.  Only
\* rm -rf has something left to do to the cache.
Kill(l) ==
    /\ "kill" \in Faults
    /\ pc[l] \in UnderLock
    /\ \/ pc' = [pc EXCEPT ![l] = "killed"] /\ Unlock(l)
       \/ /\ pc[l] = "remove"
          /\ pc' = [pc EXCEPT ![l] = "orphan"] /\ UNCHANGED lock
    /\ UNCHANGED <<tree, snap, temp>>

\* Mutant: the lock outlives the orphan.
OrphanKeepsLock(l) ==
    /\ Deletes(l, "orphan", "killed")
    /\ UNCHANGED <<lock, snap, temp>>

OrphanRemoves(l) ==
    /\ Deletes(l, "orphan", "killed")
    /\ IF tree'[snap[l]] = Absent THEN Unlock(l) ELSE UNCHANGED lock
    /\ UNCHANGED <<snap, temp>>

----------------------------------------------------------------------------

Step(l) ==
    \/ Lock(l) \/ Resolve(l) \/ Test(l) \/ Remove(l) \/ Extract(l) \/ Check(l)
    \/ Dress(l) \/ Publish(l) \/ Chmod(l) \/ Mark(l) \/ Verify(l) \/ OrphanRemoves(l)

CacheFinished == (\A l \in Launchers : pc[l] \in CacheOver) /\ UNCHANGED cacheVars

CacheNext ==
    \/ \E l \in Launchers :
          UseCheckout(l) \/ Step(l) \/ EndUse(l) \/ CommandFails(l) \/ Kill(l)
    \/ CacheFinished

CacheSpec == CacheInit /\ [][CacheNext]_cacheVars

----------------------------------------------------------------------------

\* Type correctness of the cache and of the launchers.
CacheTypeOK ==
    /\ tree \in [Snapshots -> SUBSET Parts]
    /\ lock \in Launchers \union {NoOne}
    /\ pc \in [Launchers -> Locations]
    /\ snap \in [Launchers -> Snapshots \union {NoSnapshot}]
    /\ temp \in [Launchers -> SUBSET Parts]

\* What the containers of a launcher need: the whole tree, readable for their
\* user; of a commit also the marker, which chmod and mark supply to old trees.
Needed(s) ==
    {"dir", "required", "other", "readable", "ready"} \union IF s \in Images THEN {} ELSE {"commit"}
Whole(s) == Needed(s) \subseteq tree[s]

\* The tree a launcher mounts is whole as long as the launcher uses it: whoever
\* else prepares the same snapshot, fails or is killed, and whatever was there
\* before.
MountedTreeIsWhole == \A l \in Launchers : pc[l] = "using" => Whole(snap[l])

\* mv replaces the snapshot: it never finds a directory in its place, which
\* would swallow the new tree and leave the old one published.
PublishReplaces == \A s \in Snapshots : "nested" \notin tree[s]

\* The abstract publication: what is not ready is not there, and an experiment
\* that has not got its snapshot is one that has not begun or has ended.
Pub == INSTANCE Publication WITH
    Users <- Launchers, Names <- Snapshots, Contents <- Parts, Needs <- Needed,
    store <- [s \in Snapshots |-> IF snapshot_is_ready(tree[s]) THEN tree[s] ELSE Absent],
    mounted <- {m \in Launchers \X Snapshots : pc[m[1]] = "using" /\ snap[m[1]] = m[2]},
    ended <- {l \in Launchers : pc[l] \in CacheOver}

\* However launchers prepare, fail and are killed, and whatever they find, the cache
\* implements the publication: a snapshot is there from one command to the next,
\* and whole, is never changed but for what chmod and mark add to it, which is why
\* launchers can use it without the lock, and is mounted by nobody before.
ImplementsPublication == Pub!PublicationSpec

\* Every preparation comes to an end, though others are killed with a child
\* that still holds the lock.  (No launcher prepares twice.)
EveryPreparationEnds == <>(\A l \in Launchers : pc[l] \in {"using"} \union CacheOver)
=============================================================================
