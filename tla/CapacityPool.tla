---------------------------- MODULE CapacityPool ----------------------------
(***************************************************************************)
(* What the gateway promises to the experiments that share it, without     *)
(* queues, clocks, health records or HTTP: a request borrows the capacity  *)
(* of one upstream profile at a time, never the same profile twice, and a  *)
(* profile is never lent more often than its limit; the answer starts at   *)
(* most once, and nothing is borrowed after that.                          *)
(***************************************************************************)
EXTENDS Integers, FiniteSets

CONSTANTS Requests, Profiles, Limit

VARIABLES
    lent,    \* the profile whose slot a request has, or 0
    tried,   \* the profiles a request has had
    answer   \* "none", "started" or "complete"

poolVars == <<lent, tried, answer>>

NotLent == 0

Borrowers(p) == {r \in Requests : lent[r] = p}

PoolInit ==
    /\ lent = [r \in Requests |-> NotLent]
    /\ tried = [r \in Requests |-> {}]
    /\ answer = [r \in Requests |-> "none"]

Borrow(r, p) ==
    /\ lent[r] = NotLent
    /\ answer[r] = "none"
    /\ p \notin tried[r]
    /\ Cardinality(Borrowers(p)) < Limit[p]
    /\ lent' = [lent EXCEPT ![r] = p]
    /\ tried' = [tried EXCEPT ![r] = @ \union {p}]
    /\ UNCHANGED answer

GiveBack(r) ==
    /\ lent[r] # NotLent
    /\ lent' = [lent EXCEPT ![r] = NotLent]
    /\ UNCHANGED <<tried, answer>>

StartAnswer(r) ==
    /\ answer[r] = "none"
    /\ answer' = [answer EXCEPT ![r] = "started"]
    /\ UNCHANGED <<lent, tried>>

CompleteAnswer(r) ==
    /\ answer[r] = "started"
    /\ answer' = [answer EXCEPT ![r] = "complete"]
    /\ UNCHANGED <<lent, tried>>

PoolNext ==
    \E r \in Requests :
        \/ \E p \in Profiles : Borrow(r, p)
        \/ GiveBack(r)
        \/ StartAnswer(r)
        \/ CompleteAnswer(r)

SafePool == PoolInit /\ [][PoolNext]_poolVars
=============================================================================
