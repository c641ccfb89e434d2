------------------------- MODULE SnapshotCacheProofs -------------------------
(***************************************************************************)
(* What SnapshotCache guarantees for every number of launchers and         *)
(* snapshots, and every mixture of leftovers, failures and kills.  The     *)
(* argument is the lock: whoever is at a command that writes to the cache  *)
(* holds it, so what a launcher has found out about its snapshot at one    *)
(* command still holds at the next; and whoever does not hold it uses a    *)
(* snapshot that is ready, which no command under the lock makes smaller.  *)
(***************************************************************************)
EXTENDS SnapshotCache, TLAPS

Writing == UnderLock \union {"orphan"}

\* The processes of a launcher that is past flock, and nobody else's, hold the
\* lock.
Locked == \A l \in Launchers : pc[l] \in Writing <=> lock = l

Named ==
    \A l \in Launchers : pc[l] \in (Writing \ {"resolve"}) \union {"using"} =>
        snap[l] \in Snapshots

\* A ready tree is a whole one.
ReadyIsWhole ==
    \A s \in Snapshots : snapshot_is_ready(tree[s]) => {"dir", "other"} \subseteq tree[s]

\* What the launcher at each command has established about its snapshot.
Found ==
    \A l \in Launchers :
        /\ pc[l] \in {"remove", "orphan"} => ~ snapshot_is_ready(tree[snap[l]])
        /\ pc[l] \in {"extract", "check", "dress", "publish"} => tree[snap[l]] = Absent
        /\ pc[l] \in {"chmod", "mark", "verify"} => snapshot_is_ready(tree[snap[l]])
        /\ pc[l] \in {"mark", "verify"} => "readable" \in tree[snap[l]]
        /\ pc[l] = "verify" => "commit" \in tree[snap[l]]

\* What it has put into its private directory.
Packed ==
    \A l \in Launchers :
        /\ "nested" \notin temp[l]
        /\ pc[l] \in {"check", "dress", "publish"} => {"dir", "other"} \subseteq temp[l]
        /\ pc[l] \in {"dress", "publish"} => "required" \in temp[l]
        /\ pc[l] = "publish" => {"readable", "commit", "ready"} \subseteq temp[l]

IInv ==
    /\ CacheTypeOK
    /\ Locked
    /\ Named
    /\ ReadyIsWhole
    /\ Found
    /\ Packed
    /\ PublishReplaces
    /\ MountedTreeIsWhole

----------------------------------------------------------------------------

\* Whatever is found in the cache at the start: a launcher has established
\* nothing yet, and a ready tree is a whole one.
LEMMA Starts == CacheInit => IInv
<1> SUFFICES ASSUME CacheInit PROVE IInv
  OBVIOUS
<1>1. \A s \in Snapshots : tree[s] \in InitialTrees
  BY DEF CacheInit
<1>2. \A l \in Launchers : pc[l] = "start" /\ temp[l] = {} /\ lock # l
  BY CacheAssumption DEF CacheInit, Absent
<1>3. CacheTypeOK
  BY CacheAssumption DEF CacheInit, CacheTypeOK, Locations, Absent
<1>4. ReadyIsWhole /\ PublishReplaces
  BY <1>1, CacheAssumption DEF ReadyIsWhole, PublishReplaces, snapshot_is_ready,
     source_tree_is_complete, Absent
<1>5. Locked /\ Named /\ Found /\ Packed /\ MountedTreeIsWhole
  BY <1>2 DEF Locked, Named, Found, Packed, MountedTreeIsWhole, Writing, UnderLock
<1> QED
  BY <1>3, <1>4, <1>5 DEF IInv

\* Under the lock a launcher writes only to its own snapshot and to its private
\* directory; every other launcher with the same snapshot is using it, and then
\* it is ready, or has established nothing about it.
LEMMA Preserved == IInv /\ [CacheNext]_cacheVars => IInv'
<1> SUFFICES ASSUME IInv, [CacheNext]_cacheVars PROVE IInv'
  OBVIOUS
<1> USE CacheAssumption DEF IInv, CacheTypeOK, Locked, Named, ReadyIsWhole, Found, Packed,
    PublishReplaces, MountedTreeIsWhole, Writing, UnderLock, Locations, CacheOver, Absent,
    snapshot_is_ready, source_tree_is_complete, Parts, Whole, Needed
<1>1. ASSUME NEW l \in Launchers, UseCheckout(l) PROVE IInv'
  BY <1>1, SMTT(60) DEF UseCheckout, Goto
<1>2. ASSUME NEW l \in Launchers, Lock(l) PROVE IInv'
  BY <1>2, SMTT(60) DEF Lock, Goto
<1>3. ASSUME NEW l \in Launchers, Resolve(l) PROVE IInv'
  BY <1>3, SMTT(60) DEF Resolve, Goto
<1>4. ASSUME NEW l \in Launchers, Test(l) PROVE IInv'
  BY <1>4, SMTT(60) DEF Test
<1>5. ASSUME NEW l \in Launchers, Remove(l) PROVE IInv'
  BY <1>5, SMTT(60) DEF Remove, Deletes
<1>6. ASSUME NEW l \in Launchers, Extract(l) PROVE IInv'
  BY <1>6, SMTT(60) DEF Extract, Goto
<1>7. ASSUME NEW l \in Launchers, Check(l) PROVE IInv'
  BY <1>7, SMTT(60) DEF Check, Unlock
<1>8. ASSUME NEW l \in Launchers, Dress(l) PROVE IInv'
  BY <1>8, SMTT(60) DEF Dress, Goto
<1>9. ASSUME NEW l \in Launchers, Publish(l) PROVE IInv'
  BY <1>9, SMTT(60) DEF Publish, Goto
<1>10. ASSUME NEW l \in Launchers, Chmod(l) PROVE IInv'
  BY <1>10, SMTT(60) DEF Chmod, Return, Unlock
<1>11. ASSUME NEW l \in Launchers, Mark(l) PROVE IInv'
  BY <1>11, SMTT(60) DEF Mark, Goto
<1>12. ASSUME NEW l \in Launchers, Verify(l) PROVE IInv'
  BY <1>12, SMTT(60) DEF Verify, Return, Unlock
<1>13. ASSUME NEW l \in Launchers, EndUse(l) PROVE IInv'
  BY <1>13, SMTT(60) DEF EndUse, Goto
<1>14. ASSUME NEW l \in Launchers, CommandFails(l) PROVE IInv'
  BY <1>14, SMTT(60) DEF CommandFails, Unlock
<1>15. ASSUME NEW l \in Launchers, Kill(l) PROVE IInv'
  BY <1>15, SMTT(60) DEF Kill, Unlock
<1>16. ASSUME NEW l \in Launchers, OrphanRemoves(l) PROVE IInv'
  BY <1>16, SMTT(60) DEF OrphanRemoves, Deletes, Unlock
<1>17. ASSUME UNCHANGED cacheVars PROVE IInv'
  BY <1>17 DEF cacheVars
<1> QED
  BY <1>1, <1>2, <1>3, <1>4, <1>5, <1>6, <1>7, <1>8, <1>9, <1>10, <1>11, <1>12, <1>13, <1>14, <1>15, <1>16, <1>17 DEF CacheNext, Step, CacheFinished

----------------------------------------------------------------------------

LEMMA Invariant == CacheSpec => []IInv
<1>1. CacheInit => IInv
  BY Starts
<1>2. IInv /\ [CacheNext]_cacheVars => IInv'
  BY Preserved
<1> QED
  BY <1>1, <1>2, PTL DEF CacheSpec

\* Type correctness, for every configuration of the cache.
THEOREM TypeCorrect == CacheSpec => []CacheTypeOK
<1>1. IInv => CacheTypeOK
  BY DEF IInv
<1> QED
  BY Invariant, <1>1, PTL

\* The tree a launcher mounts stays whole while it is in use, under every
\* interleaving of preparations, failures and kills.
THEOREM MountedTreesStayWhole == CacheSpec => []MountedTreeIsWhole
<1>1. IInv => MountedTreeIsWhole
  BY DEF IInv
<1> QED
  BY Invariant, <1>1, PTL

\* mv never finds a directory in the place of the snapshot.
THEOREM PublishAlwaysReplaces == CacheSpec => []PublishReplaces
<1>1. IInv => PublishReplaces
  BY DEF IInv
<1> QED
  BY Invariant, <1>1, PTL

----------------------------------------------------------------------------
(* Every step is a step of the publication, or changes nothing it knows. *)

Store == [s \in Snapshots |-> IF snapshot_is_ready(tree[s]) THEN tree[s] ELSE Absent]
Mounted == {m \in Launchers \X Snapshots : pc[m[1]] = "using" /\ snap[m[1]] = m[2]}
Ended == {l \in Launchers : pc[l] \in CacheOver}

LEMMA PublicationStarts == CacheInit => Pub!PublicationInit
<1> SUFFICES ASSUME CacheInit PROVE Pub!PublicationInit
  OBVIOUS
<1>1. tree \in [Snapshots -> SUBSET Parts]
  BY CacheAssumption DEF CacheInit
<1>2. Store \in [Snapshots -> SUBSET Parts]
  BY <1>1 DEF Store, Absent
<1>3. Mounted = {} /\ Ended = {}
  BY DEF CacheInit, Mounted, Ended, CacheOver
<1> QED
  BY <1>2, <1>3 DEF Pub!PublicationInit, Store, Mounted, Ended

\* The publication sees that something is added to one tree.
LEMMA GrowsBy ==
    ASSUME CacheTypeOK, NEW s \in Snapshots, NEW more \in SUBSET Parts,
           Store' = [Store EXCEPT ![s] = @ \union more]
    PROVE  Pub!Grows(s)
<1>1. Store \in [Snapshots -> SUBSET Parts]
  BY DEF CacheTypeOK, Store, Absent
<1>2. Store'[s] = Store[s] \union more
  BY <1>1
<1>3. Store' = [Store EXCEPT ![s] = Store'[s]]
  BY <1>2
<1>4. Store[s] \subseteq Store'[s] /\ Store'[s] \subseteq Parts
  BY <1>1, <1>2
<1> QED
  BY <1>3, <1>4 DEF Pub!Grows, Store

\* A tree that was ready is ready with more in it.
LEMMA StoreGrows ==
    ASSUME CacheTypeOK, NEW s \in Snapshots, NEW more \in SUBSET Parts, snapshot_is_ready(tree[s]),
           tree' = [tree EXCEPT ![s] = @ \union more]
    PROVE  Pub!Grows(s)
<1>1. Store' = [Store EXCEPT ![s] = @ \union more]
  BY DEF CacheTypeOK, Store, snapshot_is_ready, source_tree_is_complete
<1> QED
  BY <1>1, GrowsBy

\* What is not ready and loses something is still not ready.
LEMMA DeletesUnseen ==
    ASSUME IInv, NEW l \in Launchers, NEW from \in {"remove", "orphan"}, NEW to, Deletes(l, from, to)
    PROVE  Store' = Store
<1>1. snap[l] \in Snapshots /\ ~ snapshot_is_ready(tree[snap[l]])
  BY DEF IInv, Named, Found, Deletes, Writing, UnderLock
<1>2. PICK left \in SUBSET tree[snap[l]] : tree' = [tree EXCEPT ![snap[l]] = left]
  BY DEF Deletes
<1> QED
  BY <1>1, <1>2 DEF IInv, CacheTypeOK, Store, snapshot_is_ready, source_tree_is_complete

\* What a step does to the experiments that mount something and those that ended.
LEMMA ViewOf ==
    ASSUME CacheTypeOK, NEW l \in Launchers, NEW to, pc' = [pc EXCEPT ![l] = to], UNCHANGED snap,
           pc[l] \notin CacheOver
    PROVE  /\ (pc[l] # "using" /\ to \notin CacheOver \union {"using"}) => UNCHANGED <<Mounted, Ended>>
           /\ to \in CacheOver => Ended' = Ended \union {l} /\ Mounted' = Mounted \ ({l} \X Snapshots)
           /\ (to = "using" /\ pc[l] # "using" /\ snap[l] \in Snapshots) =>
                 /\ Mounted' = Mounted \union {<<l, snap[l]>>} /\ UNCHANGED Ended
                 /\ \A m \in Snapshots : <<l, m>> \notin Mounted
<1>1. \A k \in Launchers : pc'[k] = IF k = l THEN to ELSE pc[k]
  BY DEF CacheTypeOK
<1>2. CASE pc[l] # "using" /\ to \notin CacheOver \union {"using"}
  BY <1>1, <1>2 DEF Mounted, Ended, CacheOver
<1>3. CASE to \in CacheOver
  BY <1>1, <1>3 DEF Mounted, Ended, CacheOver
<1>4. CASE to = "using" /\ pc[l] # "using" /\ snap[l] \in Snapshots
  BY <1>1, <1>4 DEF Mounted, Ended, CacheOver
<1> QED
  BY <1>2, <1>3, <1>4 DEF CacheOver

\* The end of a launcher, whatever it was at.
LEMMA EndsStep ==
    ASSUME IInv, NEW l \in Launchers, NEW to \in CacheOver, pc' = [pc EXCEPT ![l] = to], pc[l] \notin CacheOver,
           UNCHANGED snap, Store' = Store
    PROVE  Pub!PublicationNext
<1>1. l \notin Ended /\ Ended' = Ended \union {l} /\ Mounted' = Mounted \ ({l} \X Snapshots)
  BY ViewOf DEF IInv, Ended
<1> QED
  BY <1>1 DEF Pub!PublicationNext, Pub!EndOf, Store, Mounted, Ended

\* What nobody else can see: private directories, the lock, the choice of a
\* snapshot, and the progress of a launcher under the lock.
LEMMA HiddenStep ==
    ASSUME IInv, NEW l \in Launchers, NEW to, pc' = [pc EXCEPT ![l] = to], Store' = Store,
           pc[l] \notin CacheOver \union {"using"}, to \notin CacheOver \union {"using"},
           \A k \in Launchers \ {l} : snap'[k] = snap[k]
    PROVE  UNCHANGED Pub!publicationVars
<1>1. \A k \in Launchers : pc'[k] = IF k = l THEN to ELSE pc[k]
  BY DEF IInv, CacheTypeOK
<1>2. Mounted' = Mounted /\ Ended' = Ended
  BY <1>1 DEF Mounted, Ended, CacheOver
<1> QED
  BY <1>2 DEF Pub!publicationVars, Store, Mounted, Ended

\* mv makes a new tree visible, with all it needs, where none was.
LEMMA PublishStep ==
    ASSUME IInv, NEW l \in Launchers, Publish(l)
    PROVE  Pub!PublicationNext
<1>1. PICK s \in Snapshots, to \in {"chmod"} :
         /\ s = snap[l] /\ pc[l] = "publish" /\ pc' = [pc EXCEPT ![l] = to]
         /\ UNCHANGED snap /\ tree[s] = {}
  BY DEF Publish, Goto, IInv, Named, Found, Writing, UnderLock, Absent
<1>2. /\ tree' = [tree EXCEPT ![s] = temp[l]]
      /\ temp[l] \in SUBSET Parts /\ Needed(s) \subseteq temp[l]
  BY <1>1 DEF Publish, IInv, CacheTypeOK, Packed, Absent, Needed
<1>3. Store' = [Store EXCEPT ![s] = @ \union temp[l]] /\ Store[s] = {}
  BY <1>1, <1>2 DEF IInv, CacheTypeOK, Store, snapshot_is_ready, source_tree_is_complete, Absent,
     Needed
<1>4. Pub!Grows(s) /\ Needed(s) \subseteq Store'[s]
  <2>1. Pub!Grows(s)
    BY <1>2, <1>3, GrowsBy DEF IInv
  <2>2. s \in DOMAIN Store
    BY DEF Store
  <2> QED BY <1>2, <1>3, <2>1, <2>2
<1>5. UNCHANGED <<Mounted, Ended>>
  BY <1>1, ViewOf DEF IInv, CacheOver
<1>6. Pub!PublishTree(s)
  BY <1>3, <1>4, <1>5 DEF Pub!PublishTree, Store, Mounted, Ended
<1> QED
  BY <1>1, <1>6 DEF Pub!PublicationNext

\* chmod and mark add to a tree that is ready; of an image, chmod is also what
\* the launcher waits for before it mounts the tree.
LEMMA RepairStep ==
    ASSUME IInv, NEW l \in Launchers, Chmod(l) \/ Mark(l)
    PROVE  Pub!PublicationNext
<1>1. PICK s \in Snapshots :
         /\ s = snap[l] /\ snapshot_is_ready(tree[s]) /\ UNCHANGED snap
         /\ pc[l] \in {"chmod", "mark"} /\ Store[s] # {} /\ tree[s] \in SUBSET Parts
         /\ {"dir", "other"} \subseteq tree[s]
  BY DEF IInv, CacheTypeOK, Named, Found, Writing, UnderLock, Chmod, Mark, Goto, Store,
     snapshot_is_ready, ReadyIsWhole
<1>2. PICK p \in {"readable", "commit"} :
         /\ tree' = [tree EXCEPT ![s] = @ \union {p}]
         /\ Chmod(l) => p = "readable"
  BY <1>1 DEF Chmod, Mark
<1>3. PICK more \in SUBSET Parts : more = {p}
  BY DEF Parts
<1>4. Pub!Grows(s)
  BY <1>1, <1>2, <1>3, StoreGrows DEF IInv
<1>5. CASE Mark(l) \/ (Chmod(l) /\ snap[l] \notin Images)
  <2>1. UNCHANGED <<Mounted, Ended>>
    <3>1. PICK to \in {"mark", "verify"} : pc' = [pc EXCEPT ![l] = to]
      BY <1>5 DEF Mark, Chmod, Goto
    <3> QED
      BY <1>1, <3>1, ViewOf DEF IInv, CacheOver
  <2>2. Pub!Repair(s)
    BY <1>1, <1>4, <2>1 DEF Pub!Repair, Store, Mounted, Ended
  <2> QED
    BY <1>1, <2>2 DEF Pub!PublicationNext
<1>6. CASE Chmod(l) /\ snap[l] \in Images
  <2>1. PICK to \in {"using"} : pc' = [pc EXCEPT ![l] = to]
    BY <1>6 DEF Chmod, Return
  <2>2. /\ Mounted' = Mounted \union {<<l, s>>} /\ UNCHANGED Ended
        /\ \A m \in Snapshots : <<l, m>> \notin Mounted
    BY <1>1, <2>1, ViewOf DEF IInv, CacheOver
  <2>3. tree'[s] = tree[s] \union {"readable"}
    BY <1>1, <1>2, <1>6 DEF IInv, CacheTypeOK
  <2>4. Needed(s) \subseteq Store'[s]
    BY <1>1, <1>6, <2>3 DEF Store, Needed, snapshot_is_ready, source_tree_is_complete
  <2>5. l \notin Ended
    BY <1>1 DEF Ended, CacheOver
  <2>6. Pub!Mount(l, s)
    BY <1>1, <1>4, <2>2, <2>4, <2>5 DEF Pub!Mount, Store, Mounted, Ended
  <2> QED
    BY <1>1, <2>6 DEF Pub!PublicationNext
<1> QED
  BY <1>5, <1>6

\* The last test of a launcher finds its snapshot as it has prepared it.
LEMMA VerifyStep ==
    ASSUME IInv, NEW l \in Launchers, Verify(l)
    PROVE  Pub!PublicationNext
<1>1. PICK s \in Snapshots, to \in {"using"} :
         /\ s = snap[l] /\ pc[l] = "verify" /\ UNCHANGED <<snap, tree>>
         /\ snapshot_is_ready(tree[s]) /\ pc' = [pc EXCEPT ![l] = to]
         /\ Needed(s) \subseteq tree[s] /\ tree[s] # {}
  BY DEF IInv, Named, Found, ReadyIsWhole, Writing, UnderLock, Verify, Return, Needed,
     snapshot_is_ready, source_tree_is_complete
<1>2. /\ Mounted' = Mounted \union {<<l, s>>} /\ UNCHANGED Ended /\ l \notin Ended
      /\ \A m \in Snapshots : <<l, m>> \notin Mounted
  BY <1>1, ViewOf DEF IInv, CacheOver, Ended
<1>3. Store' = Store /\ Store[s] = tree[s]
  BY <1>1 DEF Store
<1>4. Store' = [Store EXCEPT ![s] = @ \union {}]
  BY <1>3 DEF Store
<1>5. Pub!Grows(s)
  <2>1. {} \in SUBSET Parts /\ CacheTypeOK
    BY DEF IInv
  <2> QED BY <1>4, <2>1, GrowsBy
<1>6. Pub!Mount(l, s)
  BY <1>1, <1>2, <1>3, <1>5 DEF Pub!Mount, Store, Mounted, Ended
<1> QED
  BY <1>1, <1>6 DEF Pub!PublicationNext

\* A launcher that fails, is killed or is done leaves the trees as they are; one
\* that is killed may leave its rm behind.
LEMMA LeavingStep ==
    ASSUME IInv, NEW l \in Launchers,
           \/ UseCheckout(l) \/ EndUse(l) \/ CommandFails(l) \/ Kill(l)
           \/ Check(l) /\ pc'[l] \in CacheOver
    PROVE  Pub!PublicationNext \/ UNCHANGED Pub!publicationVars
<1>1. UNCHANGED <<tree, snap>> /\ Store' = Store
  BY DEF UseCheckout, EndUse, CommandFails, Kill, Check, Store
<1>2. PICK to \in CacheOver \union {"orphan"} :
         /\ pc' = [pc EXCEPT ![l] = to] /\ pc[l] \notin CacheOver
         /\ to = "orphan" => pc[l] = "remove"
  <2>1. pc \in [Launchers -> Locations]
    BY DEF IInv, CacheTypeOK
  <2>2. CASE Check(l) /\ pc'[l] \in CacheOver
    BY <2>1, <2>2 DEF Check, CacheOver
  <2>3. CASE UseCheckout(l) \/ EndUse(l) \/ CommandFails(l) \/ Kill(l)
    BY <2>3 DEF UseCheckout, EndUse, CommandFails, Kill, Goto, UnderLock, CacheOver
  <2> QED
    BY <2>2, <2>3
<1>3. CASE to \in CacheOver
  BY <1>1, <1>2, <1>3, EndsStep
<1>4. CASE to = "orphan"
  BY <1>1, <1>2, <1>4, HiddenStep DEF CacheOver
<1> QED
  BY <1>2, <1>3, <1>4

\* rm is not seen, by a launcher or by what a killed one has left behind.
LEMMA RemovingStep ==
    ASSUME IInv, NEW l \in Launchers, Remove(l) \/ OrphanRemoves(l)
    PROVE  Pub!PublicationNext \/ UNCHANGED Pub!publicationVars
<1>1. PICK from \in {"remove", "orphan"}, end \in {"extract", "killed"} :
         /\ Deletes(l, from, end) /\ UNCHANGED snap
         /\ from = "remove" => end = "extract"
  BY DEF Remove, OrphanRemoves
<1>2. Store' = Store
  BY <1>1, DeletesUnseen
<1>3. PICK to \in {from, end} : pc[l] = from /\ pc' = [pc EXCEPT ![l] = to]
  BY <1>1 DEF Deletes
<1>4. CASE to \in CacheOver
  BY <1>1, <1>2, <1>3, <1>4, EndsStep DEF CacheOver
<1>5. CASE to \notin CacheOver
  BY <1>1, <1>2, <1>3, <1>5, HiddenStep DEF CacheOver
<1> QED
  BY <1>4, <1>5

\* The commands that prepare a tree where nobody looks.
LEMMA PreparingStep ==
    ASSUME IInv, NEW l \in Launchers,
           \/ Lock(l) \/ Resolve(l) \/ Test(l) \/ Extract(l) \/ Dress(l)
           \/ Check(l) /\ pc'[l] \notin CacheOver
    PROVE  UNCHANGED Pub!publicationVars
<1>1. Store' = Store
  BY DEF Lock, Resolve, Test, Extract, Dress, Check, Store
<1>2. \A k \in Launchers \ {l} : snap'[k] = snap[k]
  BY DEF Lock, Resolve, Test, Extract, Dress, Check, IInv, CacheTypeOK
<1>3. PICK to \in UnderLock :
         pc[l] \in {"start"} \union UnderLock /\ pc' = [pc EXCEPT ![l] = to]
  <2>1. pc \in [Launchers -> Locations]
    BY DEF IInv, CacheTypeOK
  <2>2. CASE Check(l) /\ pc'[l] \notin CacheOver
    BY <2>1, <2>2 DEF Check, CacheOver, UnderLock
  <2>3. CASE Test(l)
    BY <2>3 DEF Test, UnderLock
  <2>4. CASE Lock(l) \/ Resolve(l) \/ Extract(l) \/ Dress(l)
    BY <2>4 DEF Lock, Resolve, Extract, Dress, Goto, UnderLock
  <2> QED
    BY <2>2, <2>3, <2>4
<1> QED
  BY <1>1, <1>2, <1>3, HiddenStep DEF UnderLock, CacheOver

LEMMA PublicationStep == IInv /\ [CacheNext]_cacheVars => [Pub!PublicationNext]_(Pub!publicationVars)
<1> SUFFICES ASSUME IInv, [CacheNext]_cacheVars
             PROVE  Pub!PublicationNext \/ UNCHANGED Pub!publicationVars
  OBVIOUS
<1>1. ASSUME NEW l \in Launchers, Step(l)
      PROVE  Pub!PublicationNext \/ UNCHANGED Pub!publicationVars
  <2>1. CASE Publish(l) \/ Chmod(l) \/ Mark(l) \/ Verify(l)
    BY <2>1, PublishStep, RepairStep, VerifyStep
  <2>2. CASE Remove(l) \/ OrphanRemoves(l)
    BY <2>2, RemovingStep
  <2>3. CASE Lock(l) \/ Resolve(l) \/ Test(l) \/ Extract(l) \/ Check(l) \/ Dress(l)
    BY <2>3, PreparingStep, LeavingStep
  <2> QED
    BY <1>1, <2>1, <2>2, <2>3 DEF Step
<1>2. ASSUME NEW l \in Launchers, UseCheckout(l) \/ EndUse(l) \/ CommandFails(l) \/ Kill(l)
      PROVE  Pub!PublicationNext \/ UNCHANGED Pub!publicationVars
  BY <1>2, LeavingStep
<1>3. ASSUME UNCHANGED cacheVars PROVE UNCHANGED Pub!publicationVars
  BY <1>3 DEF cacheVars, Pub!publicationVars
<1> QED
  BY <1>1, <1>2, <1>3 DEF CacheNext, CacheFinished

\* For every number of launchers and snapshots, every leftover, failure and kill:
\* what prepare_voltron.sh does under its lock is a publication of whole trees
\* from one step to the next, which launchers mount without the lock.
THEOREM CacheImplementsPublication == CacheSpec => ImplementsPublication
<1>1. CacheInit => Pub!PublicationInit
  BY PublicationStarts
<1>2. IInv /\ [CacheNext]_cacheVars => [Pub!PublicationNext]_(Pub!publicationVars)
  BY PublicationStep
<1> QED
  BY Invariant, <1>1, <1>2, PTL DEF CacheSpec, ImplementsPublication, Pub!PublicationSpec

=============================================================================
