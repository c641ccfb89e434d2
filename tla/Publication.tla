---------------------------- MODULE Publication ----------------------------
(***************************************************************************)
(* What a cache on the host promises to the experiments that share it,     *)
(* without locks, temporary directories, failures or leftovers: a tree is  *)
(* published in one step and with all that it needs, or it was there       *)
(* before; nothing is ever taken out of it; and an experiment mounts one   *)
(* tree, once, when that tree has all that it needs.                       *)
(***************************************************************************)

CONSTANTS
    Users,       \* the experiments
    Names,       \* the trees there may be
    Contents,    \* what can be in a tree
    Needs(_)     \* what has to be in the tree of a name

VARIABLES
    store,       \* what is published under each name; {} is nothing
    mounted,     \* <<user, name>>
    ended        \* the users that have ended, or will never mount anything

publicationVars == <<store, mounted, ended>>

Grows(n) ==
    /\ store[n] \subseteq store'[n] /\ store'[n] \subseteq Contents
    /\ store' = [store EXCEPT ![n] = store'[n]]

PublicationInit ==
    /\ store \in [Names -> SUBSET Contents]
    /\ mounted = {} /\ ended \subseteq Users

PublishTree(n) ==
    /\ store[n] = {}
    /\ Grows(n) /\ Needs(n) \subseteq store'[n]
    /\ UNCHANGED <<mounted, ended>>

\* What an older version published is brought up to date.
Repair(n) == store[n] # {} /\ Grows(n) /\ UNCHANGED <<mounted, ended>>

Mount(u, n) ==
    /\ u \notin ended /\ \A m \in Names : <<u, m>> \notin mounted
    /\ store[n] # {} /\ Grows(n) /\ Needs(n) \subseteq store'[n]
    /\ mounted' = mounted \union {<<u, n>>}
    /\ UNCHANGED ended

EndOf(u) ==
    /\ u \notin ended
    /\ ended' = ended \union {u}
    /\ mounted' = mounted \ ({u} \X Names)
    /\ UNCHANGED store

PublicationNext ==
    \/ \E n \in Names : PublishTree(n) \/ Repair(n)
    \/ \E u \in Users : EndOf(u) \/ \E n \in Names : Mount(u, n)

PublicationSpec == PublicationInit /\ [][PublicationNext]_publicationVars
=============================================================================
