--------------------------- MODULE GatewayProofs ---------------------------
(***************************************************************************)
(* Proofs about Gateway for any number of requests and profiles and any    *)
(* limits.  The inductive invariant adds to the type invariant where a     *)
(* task may hold a slot.                                                   *)
(*                                                                         *)
(* The second half is about the gateway as a pool of capacity: the queue   *)
(* of acquire() keeps its bound and its count, a task sleeps in it only    *)
(* while no profile can take its request, and the gateway implements       *)
(* CapacityPool.                                                           *)
(***************************************************************************)
EXTENDS Gateway, FiniteSetTheorems, TLAPS

Calling == {"upstream", "replying", "settling"}
NotHolding == {"new", "attempt", "waiting", "final", "final_body", "done"}

\* A slot is held from the reservation to the release; only a request that
\* build_request() failed for ("crashed") may keep its own.
HeldWhileCalling ==
    \A r \in Requests :
        /\ pc[r] \in Calling => held[r] \in Profiles
        /\ pc[r] \in NotHolding => held[r] = NoProfile

\* The status of a response that is being passed on is the upstream's.
RelayedWhileReplying ==
    \A r \in Requests :
        pc[r] \in {"replying", "settling"} => status[r] \in DOMAIN RelayedOutcome

TypeInv == TypeOK /\ HeldWhileCalling /\ RelayedWhileReplying

----------------------------------------------------------------------------

\* The profile's part of the state keeps its type when a slot is settled.
LEMMA ReleaseType ==
    ASSUME TypeOK, NEW p \in Profiles, NEW outcome \in Outcomes, Release(p, outcome)
    PROVE  /\ inflight' \in [Profiles -> Nat]
           /\ cooldown' \in [Profiles -> Nat]
           /\ disabled' \subseteq Profiles
           /\ consecutive' \in [Profiles -> Nat]
           /\ requests' \in [Profiles -> Nat]
           /\ successes' \in [Profiles -> Nat]
           /\ failures' \in [Profiles -> Nat]
           /\ waiting' \in Int
           /\ cursor' \in 0 .. CursorPeriod - 1
           /\ queue' \subseteq Requests
           /\ notified' \subseteq Requests
           /\ deadline' \in [Requests -> Nat]
           /\ timer' \in [Requests -> Nat]
<1>1. OneLess(inflight[p]) \in Nat
  BY DEF TypeOK, OneLess
<1>2. ConsecutiveAfter(p, outcome) \in Nat
  BY DEF TypeOK, ConsecutiveAfter
<1>3. CooldownAfter(p, outcome) \in Nat
  BY ConfigAssumption DEF TypeOK, CooldownAfter, Larger
<1>. QED
  BY <1>1, <1>2, <1>3 DEF TypeOK, Release, Settled, NotifyAll

\* The queue keeps its type when a task suspends itself in condition.wait().
LEMMA SuspendType ==
    ASSUME TypeOK, NEW r \in Requests, NEW excl, NEW remaining \in Nat,
           Suspend(r, remaining, excl)
    PROVE  /\ notified' \subseteq Requests
           /\ deadline' \in [Requests -> Nat]
           /\ timer' \in [Requests -> Nat]
<1>1. PICK t \in {remaining} \union CooldownDelays(excl) :
          timer' = [timer EXCEPT ![r] = t]
  BY DEF Suspend
<1>2. t \in Nat
  BY ConfigAssumption DEF CooldownDelays, TypeOK
<1>. QED
  BY <1>1, <1>2 DEF Suspend, TypeOK

\* The reservation of a slot keeps the types of the profiles' state.
LEMMA ReserveType ==
    ASSUME TypeOK, NEW p \in Profiles, Reserve(p)
    PROVE  /\ inflight' \in [Profiles -> Nat]
           /\ requests' \in [Profiles -> Nat]
           /\ cursor' \in 0 .. CursorPeriod - 1
<1>1. (cursor + 1) % CursorPeriod \in 0 .. CursorPeriod - 1
  BY CursorAssumption DEF TypeOK
<1>. QED
  BY <1>1 DEF TypeOK, Reserve

\* Profiles are numbered from 1, NoProfile is 0: arithmetic tells them apart.
USE DEF NoProfile

----------------------------------------------------------------------------

LEMMA InitTypeInv == Init => TypeInv
<1>. SUFFICES ASSUME Init PROVE TypeInv
  OBVIOUS
<1>1. 0 \in 0 .. CursorPeriod - 1
  BY CursorAssumption
<1>. QED
  BY <1>1 DEF Init, SchedulerInit, TypeInv, TypeOK, HeldWhileCalling,
             RelayedWhileReplying, Calling, NotHolding, Locations, Statuses, OwnStatuses

\* A reservation and the upstream call that follows it in the same step.
LEMMA CallUpstreamTypeInv ==
    ASSUME TypeInv, NEW r \in Requests, NEW p \in Profiles,
           Reserve(p), CallUpstream(r, p),
           waiting' \in Int,
           queue' \subseteq Requests,
           notified' \subseteq Requests,
           deadline' \in [Requests -> Nat],
           timer' \in [Requests -> Nat]
    PROVE  TypeInv'
<1>1. /\ inflight' \in [Profiles -> Nat]
      /\ requests' \in [Profiles -> Nat]
      /\ cursor' \in 0 .. CursorPeriod - 1
  BY ReserveType DEF TypeInv
<1>2. UNCHANGED <<cooldown, disabled, consecutive, successes, failures>>
  BY DEF Reserve
<1>3. /\ pc' \in [Requests -> Locations]
      /\ held' \in [Requests -> Profiles \union {NoProfile}]
      /\ excluded' \in [Requests -> SUBSET Profiles]
      /\ attempts' \in [Requests -> Nat]
      /\ UNCHANGED <<status, starts, ends>>
  BY DEF CallUpstream, TypeInv, TypeOK, Locations
<1>4. TypeOK'
  BY <1>1, <1>2, <1>3 DEF TypeInv, TypeOK
<1>5. HeldWhileCalling' /\ RelayedWhileReplying'
  BY DEF CallUpstream, TypeInv, TypeOK, HeldWhileCalling, RelayedWhileReplying,
         Calling, NotHolding
<1>. QED
  BY <1>4, <1>5 DEF TypeInv

\* acquire() and what _proxy does with its result.
LEMMA AcquiresTypeInv ==
    ASSUME TypeInv, NEW r \in Requests, Acquires(r)
    PROVE  TypeInv'
<1>. USE DEF TypeInv, HeldWhileCalling, RelayedWhileReplying, Calling, NotHolding
<1>1. ASSUME NEW p \in Profiles, AttemptNow(r, p)
      PROVE  TypeInv'
  BY <1>1, CallUpstreamTypeInv DEF AttemptNow, AcquireNow, MayAttempt, queueVars, TypeOK
<1>2. ASSUME NEW p \in Profiles, AttemptAfterWait(r, p)
      PROVE  TypeInv'
  BY <1>2, CallUpstreamTypeInv DEF AttemptAfterWait, AcquireAfterWait, LeaveQueue, TypeOK
<1>3. CASE RefuseFull(r)
  BY <1>3 DEF RefuseFull, QueueFull, schedulerVars, Goto, Answer, TypeOK, Locations,
     Statuses, OwnStatuses
<1>4. CASE WaitForCapacity(r)
  <2>1. Suspend(r, QueueTimeout, excluded[r])
    BY <1>4 DEF WaitForCapacity, Enqueue
  <2>2. QueueTimeout \in Nat
    BY ConfigAssumption
  <2>3. UNCHANGED profileVars
    BY <2>1 DEF Suspend
  <2>. QED
    BY <1>4, <2>1, <2>2, <2>3, SuspendType
    DEF WaitForCapacity, Enqueue, profileVars, Goto, TypeOK, Locations
<1>5. CASE KeepWaiting(r)
  <2>1. Suspend(r, deadline[r], excluded[r])
    BY <1>5 DEF KeepWaiting, WaitAgain
  <2>2. deadline[r] \in Nat
    BY DEF TypeOK
  <2>3. UNCHANGED profileVars
    BY <2>1 DEF Suspend
  <2>. QED
    BY <1>5, <2>1, <2>2, <2>3, SuspendType
    DEF KeepWaiting, WaitAgain, profileVars, proxyVars, TypeOK
<1>6. CASE GiveUpWaiting(r)
  BY <1>6 DEF GiveUpWaiting, WaitExpires, LeaveQueue, profileVars, Goto, Answer, TypeOK,
     Locations, Statuses, OwnStatuses
<1>7. CASE GiveUp(r)
  BY <1>7 DEF GiveUp, schedulerVars, Goto, TypeOK, Locations
<1>. QED
  BY <1>1, <1>2, <1>3, <1>4, <1>5, <1>6, <1>7 DEF Acquires

\* release() on each of the paths of _proxy that call it.
LEMMA ReleaseSlotTypeInv ==
    ASSUME TypeInv, NEW r \in Requests, NEW outcome \in Outcomes,
           pc[r] \in Calling, ReleaseSlot(r, outcome),
           NEW to \in {"attempt", "final", "final_body", "done", "crashed"},
           pc' = [pc EXCEPT ![r] = to],
           status' \in [Requests -> Statuses],
           \A q \in Requests \ {r} : status'[q] = status[q],
           UNCHANGED <<excluded, attempts, starts, ends>>
    PROVE  TypeInv'
<1>1. held[r] \in Profiles
  BY DEF TypeInv, HeldWhileCalling
<1>2. Release(held[r], outcome)
  BY DEF ReleaseSlot
<1>3. TypeOK'
  BY <1>1, <1>2, ReleaseType DEF TypeInv, TypeOK, ReleaseSlot, Locations
<1>4. HeldWhileCalling'
  BY DEF TypeInv, TypeOK, HeldWhileCalling, ReleaseSlot, Calling, NotHolding
<1>5. RelayedWhileReplying'
  BY DEF TypeInv, TypeOK, RelayedWhileReplying
<1>. QED
  BY <1>3, <1>4, <1>5 DEF TypeInv

LEMMA ReleasesTypeInv ==
    ASSUME TypeInv, NEW r \in Requests, Releases(r)
    PROVE  TypeInv'
<1>1. ASSUME NEW s \in DOMAIN RetriedOutcome, Retry(r, s)
      PROVE  TypeInv'
  <2>1. RetriedOutcome[s] \in Outcomes
    BY DEF RetriedOutcome, Outcomes
  <2>2. /\ status' \in [Requests -> Statuses]
        /\ \A q \in Requests \ {r} : status'[q] = status[q]
    BY <1>1 DEF Retry, Answer, TypeInv, TypeOK, Statuses
  <2>. QED
    BY <1>1, <2>1, <2>2, ReleaseSlotTypeInv DEF Retry, Goto, Calling
<1>2. CASE UpstreamTimesOut(r)
  <2>1. /\ status' \in [Requests -> Statuses]
        /\ \A q \in Requests \ {r} : status'[q] = status[q]
    BY <1>2 DEF UpstreamTimesOut, Answer, TypeInv, TypeOK, Statuses, OwnStatuses
  <2>. QED
    BY <1>2, <2>1, ReleaseSlotTypeInv DEF UpstreamTimesOut, Goto, Calling, Outcomes
<1>3. CASE Settle(r)
  <2>1. RelayedOutcome[status[r]] \in Outcomes
    BY <1>3 DEF Settle, Goto, TypeInv, RelayedWhileReplying, RelayedOutcome, Outcomes
  <2>2. /\ status' \in [Requests -> Statuses]
        /\ \A q \in Requests \ {r} : status'[q] = status[q]
    BY <1>3 DEF Settle, TypeInv, TypeOK
  <2>. QED
    BY <1>3, <2>1, <2>2, ReleaseSlotTypeInv DEF Settle, Goto, Calling
<1>4. CASE StreamBreaks(r)
  <2>1. /\ status' \in [Requests -> Statuses]
        /\ \A q \in Requests \ {r} : status'[q] = status[q]
    BY <1>4 DEF StreamBreaks, TypeInv, TypeOK
  <2>. QED
    BY <1>4, <2>1, ReleaseSlotTypeInv DEF StreamBreaks, Goto, Calling, Outcomes
<1>. QED
  BY <1>1, <1>2, <1>3, <1>4 DEF Releases

\* The messages sent to the client, and the arrival of a request.
LEMMA RepliesTypeInv ==
    ASSUME TypeInv, NEW r \in Requests, Replies(r) \/ Arrives(r)
    PROVE  TypeInv'
<1>. USE DEF TypeInv, TypeOK, HeldWhileCalling, RelayedWhileReplying, Calling,
             NotHolding, Locations, schedulerVars, Goto
<1>1. ASSUME NEW s \in DOMAIN RelayedOutcome, StartReply(r, s)
      PROVE  TypeInv'
  BY <1>1 DEF StartReply, Answer, Statuses
<1>2. CASE EndReply(r)
  BY <1>2 DEF EndReply
<1>3. CASE SendFinalStart(r)
  BY <1>3 DEF SendFinalStart
<1>4. CASE SendFinalBody(r)
  BY <1>4 DEF SendFinalBody
<1>5. CASE Accept(r)
  BY <1>5 DEF Accept
<1>6. CASE Reject(r)
  BY <1>6 DEF Reject, Answer, Statuses, OwnStatuses
<1>. QED
  BY <1>1, <1>2, <1>3, <1>4, <1>5, <1>6 DEF Replies, Arrives

\* The exits of acquire() and _proxy through an exception.
LEMMA AbortsTypeInv ==
    ASSUME TypeInv, NEW r \in Requests, Aborts(r)
    PROVE  TypeInv'
<1>1. CASE AbortHolding(r)
  <2>1. /\ status' \in [Requests -> Statuses]
        /\ \A q \in Requests \ {r} : status'[q] = status[q]
    BY <1>1 DEF AbortHolding, TypeInv, TypeOK
  <2>. QED
    BY <1>1, <2>1, ReleaseSlotTypeInv DEF AbortHolding, Calling, Outcomes
<1>2. CASE AbortWaiting(r)
  BY <1>2 DEF AbortWaiting, LeaveQueue, profileVars, Goto, TypeInv, TypeOK,
     HeldWhileCalling, RelayedWhileReplying, Calling, NotHolding, Locations
<1>3. CASE AbortSending(r)
  BY <1>3 DEF AbortSending, schedulerVars, TypeInv, TypeOK,
     HeldWhileCalling, RelayedWhileReplying, Calling, NotHolding, Locations
<1>. QED
  BY <1>1, <1>2, <1>3 DEF Aborts

LEMMA TickTypeInv == TypeInv /\ TickStep => TypeInv'
  BY DEF TickStep, Tick, proxyVars, OneLess, TypeInv, TypeOK, HeldWhileCalling,
         RelayedWhileReplying

LEMMA StutterTypeInv == TypeInv /\ UNCHANGED vars => TypeInv'
  BY DEF vars, schedulerVars, proxyVars, TypeInv, TypeOK, HeldWhileCalling,
         RelayedWhileReplying

LEMMA NextTypeInv == TypeInv /\ [Next]_vars => TypeInv'
<1>. SUFFICES ASSUME TypeInv, [Next]_vars PROVE TypeInv'
  OBVIOUS
<1>1. ASSUME NEW r \in Requests, Arrives(r) \/ Proceeds(r) \/ Aborts(r)
      PROVE  TypeInv'
  BY <1>1, AcquiresTypeInv, RepliesTypeInv, ReleasesTypeInv, AbortsTypeInv DEF Proceeds
<1>2. CASE TickStep
  BY <1>2, TickTypeInv
<1>3. CASE UNCHANGED vars
  BY <1>3, StutterTypeInv
<1>. QED
  BY <1>1, <1>2, <1>3 DEF Next, Finished

\* A request holds a slot exactly while it is calling its upstream, and it
\* relays only upstream statuses: the inductive invariant of the types.
LEMMA TypeInvariant == Spec => []TypeInv
<1>. QED
  BY InitTypeInv, NextTypeInv, PTL DEF Spec

\* Every reachable state has the declared types: no release() settles a slot
\* that is not held, or with a status that is not an upstream's.
THEOREM TypeCorrect == Spec => []TypeOK
<1>1. TypeInv => TypeOK
  BY DEF TypeInv
<1>. QED
  BY <1>1, TypeInvariant, PTL

----------------------------------------------------------------------------
(* The slots of a profile are the requests that hold one. *)

\* Taking and giving up a slot changes the number of holders of that profile
\* by one and of no other profile.
LEMMA HoldersType ==
    \A p \in Profiles : IsFiniteSet(Holders(p)) /\ Cardinality(Holders(p)) \in Nat
  BY RequestsAssumption, FS_Subset, FS_CardinalityType DEF Holders

LEMMA HoldersAfterReserve ==
    ASSUME held \in [Requests -> Profiles \union {NoProfile}],
           NEW r \in Requests, NEW p \in Profiles, held[r] = NoProfile,
           held' = [held EXCEPT ![r] = p]
    PROVE  \A q \in Profiles :
              Cardinality(Holders(q)') = Cardinality(Holders(q)) + IF q = p THEN 1 ELSE 0
<1>. TAKE q \in Profiles
<1>1. CASE q = p
  <2>1. Holders(q)' = Holders(q) \union {r}
    BY <1>1 DEF Holders
  <2>2. r \notin Holders(q)
    BY DEF Holders, Profiles
  <2>3. Cardinality(Holders(q) \union {r}) = Cardinality(Holders(q)) + 1
    BY <2>2, HoldersType, FS_AddElement
  <2>. QED
    BY <1>1, <2>1, <2>3
<1>2. CASE q # p
  <2>1. Holders(q)' = Holders(q)
    BY <1>2 DEF Holders, Profiles
  <2>. QED
    BY <1>2, <2>1, HoldersType
<1>. QED
  BY <1>1, <1>2

LEMMA HoldersAfterRelease ==
    ASSUME held \in [Requests -> Profiles \union {NoProfile}],
           NEW r \in Requests, held[r] \in Profiles,
           held' = [held EXCEPT ![r] = NoProfile]
    PROVE  \A q \in Profiles :
              /\ Cardinality(Holders(q)')
                    = Cardinality(Holders(q)) - IF q = held[r] THEN 1 ELSE 0
              /\ q = held[r] => Cardinality(Holders(q)) > 0
<1>. TAKE q \in Profiles
<1>1. CASE q = held[r]
  <2>1. Holders(q)' = Holders(q) \ {r}
    BY <1>1 DEF Holders, Profiles
  <2>2. r \in Holders(q)
    BY <1>1 DEF Holders
  <2>3. Cardinality(Holders(q) \ {r}) = Cardinality(Holders(q)) - 1
    BY <2>2, HoldersType, FS_RemoveElement
  <2>4. Holders(q)' \subseteq Requests
    BY DEF Holders
  <2>5. Cardinality(Holders(q)') \in Nat
    BY <2>4, RequestsAssumption, FS_Subset, FS_CardinalityType
  <2>. QED
    BY <1>1, <2>1, <2>3, <2>5, HoldersType
<1>2. CASE q # held[r]
  <2>1. Holders(q)' = Holders(q)
    BY <1>2 DEF Holders, Profiles
  <2>. QED
    BY <1>2, <2>1, HoldersType
<1>. QED
  BY <1>1, <1>2

\* A state change that moves neither slots nor counters.
LEMMA CapacityUnchanged ==
    ASSUME CapacityRespected, UNCHANGED <<held, inflight>>
    PROVE  CapacityRespected'
  BY DEF CapacityRespected, Holders

LEMMA ReserveCapacity ==
    ASSUME TypeInv, CapacityRespected, NEW r \in Requests, NEW p \in Profiles,
           pc[r] \in NotHolding, Available(p), Reserve(p), CallUpstream(r, p)
    PROVE  CapacityRespected'
<1>1. held[r] = NoProfile
  BY DEF TypeInv, HeldWhileCalling
<1>2. held' = [held EXCEPT ![r] = p]
  BY DEF CallUpstream
<1>3. \A q \in Profiles :
          Cardinality(Holders(q)') = Cardinality(Holders(q)) + IF q = p THEN 1 ELSE 0
  BY <1>1, <1>2, HoldersAfterReserve DEF TypeInv, TypeOK
<1>4. \A q \in Profiles : inflight'[q] = inflight[q] + IF q = p THEN 1 ELSE 0
  BY DEF Reserve, TypeInv, TypeOK
<1>5. inflight[p] < MaxConc[p]
  BY DEF Available
<1>. QED
  BY <1>3, <1>4, <1>5, ConfigAssumption DEF CapacityRespected, TypeInv, TypeOK

LEMMA ReleaseCapacity ==
    ASSUME TypeInv, CapacityRespected, NEW r \in Requests, NEW outcome,
           pc[r] \in Calling, ReleaseSlot(r, outcome)
    PROVE  CapacityRespected'
<1>1. held[r] \in Profiles
  BY DEF TypeInv, HeldWhileCalling
<1>2. held' = [held EXCEPT ![r] = NoProfile]
  BY DEF ReleaseSlot
<1>3. \A q \in Profiles :
          /\ Cardinality(Holders(q)')
                = Cardinality(Holders(q)) - IF q = held[r] THEN 1 ELSE 0
          /\ q = held[r] => Cardinality(Holders(q)) > 0
  BY <1>1, <1>2, HoldersAfterRelease DEF TypeInv, TypeOK
<1>4. \A q \in Profiles : inflight'[q] = IF q = held[r] THEN OneLess(inflight[q])
                                         ELSE inflight[q]
  BY <1>1 DEF ReleaseSlot, Release, Settled, TypeInv, TypeOK
<1>. QED
  BY <1>3, <1>4, ConfigAssumption DEF CapacityRespected, OneLess, TypeInv, TypeOK

LEMMA NextCapacity == TypeInv /\ CapacityRespected /\ [Next]_vars => CapacityRespected'
<1>. SUFFICES ASSUME TypeInv, CapacityRespected, [Next]_vars PROVE CapacityRespected'
  OBVIOUS
<1>1. ASSUME NEW r \in Requests, NEW p \in Profiles,
             AttemptNow(r, p) \/ AttemptAfterWait(r, p)
      PROVE  CapacityRespected'
  <2>1. Available(p) /\ Reserve(p) /\ CallUpstream(r, p)
    BY <1>1 DEF AttemptNow, AttemptAfterWait, AcquireNow, AcquireAfterWait, Chosen,
       Tied, Candidates
  <2>2. pc[r] \in NotHolding
    BY <1>1 DEF AttemptNow, AttemptAfterWait, MayAttempt, NotHolding
  <2>. QED
    BY <2>1, <2>2, ReserveCapacity
<1>2. ASSUME NEW r \in Requests, Releases(r) \/ AbortHolding(r)
      PROVE  CapacityRespected'
  <2>1. PICK outcome : ReleaseSlot(r, outcome)
    BY <1>2 DEF Releases, Retry, UpstreamTimesOut, Settle, StreamBreaks, AbortHolding
  <2>2. pc[r] \in Calling
    BY <1>2 DEF Releases, Retry, UpstreamTimesOut, Settle, StreamBreaks, AbortHolding,
       Goto, Calling
  <2>. QED
    BY <2>1, <2>2, ReleaseCapacity
<1>3. ASSUME NEW r \in Requests,
             \/ RefuseFull(r) \/ WaitForCapacity(r) \/ KeepWaiting(r)
             \/ GiveUpWaiting(r) \/ GiveUp(r)
      PROVE  CapacityRespected'
  BY <1>3, CapacityUnchanged
  DEF RefuseFull, QueueFull, WaitForCapacity, Enqueue, KeepWaiting, WaitAgain, Suspend,
      GiveUpWaiting, WaitExpires, GiveUp, schedulerVars, profileVars, proxyVars
<1>4. ASSUME NEW r \in Requests,
             Replies(r) \/ Arrives(r) \/ AbortWaiting(r) \/ AbortSending(r)
      PROVE  CapacityRespected'
  BY <1>4, CapacityUnchanged
  DEF Replies, StartReply, EndReply, SendFinalStart, SendFinalBody, Arrives, Accept,
      Reject, AbortWaiting, AbortSending, schedulerVars, profileVars
<1>5. CASE TickStep
  BY <1>5, CapacityUnchanged DEF TickStep, Tick, proxyVars
<1>6. CASE UNCHANGED vars
  BY <1>6, CapacityUnchanged DEF vars, schedulerVars, proxyVars
<1>. QED
  BY <1>1, <1>2, <1>3, <1>4, <1>5, <1>6 DEF Next, Proceeds, Acquires, Aborts, Finished

\* The hard limit of every profile holds for any number of requests: inflight
\* is the number of requests that hold a slot, at most max_concurrency.
THEOREM CapacityAlwaysRespected == Spec => []CapacityRespected
<1>1. Init => CapacityRespected
  <2>. SUFFICES ASSUME Init, NEW p \in Profiles
                PROVE  inflight[p] = Cardinality(Holders(p)) /\ inflight[p] <= MaxConc[p]
    BY DEF CapacityRespected
  <2>1. Holders(p) = {}
    BY DEF Init, Holders, Profiles
  <2>. QED
    BY <2>1, FS_EmptySet, ConfigAssumption DEF Init, SchedulerInit
<1>. QED
  BY <1>1, TypeInvariant, NextCapacity, PTL DEF Spec

----------------------------------------------------------------------------
(* The statistics *)

\* A slot that is settled was in flight: max(0, inflight - 1) never clamps.
LEMMA SettledWasInFlight ==
    ASSUME TypeInv, CapacityRespected, NEW r \in Requests, pc[r] \in Calling
    PROVE  held[r] \in Profiles /\ inflight[held[r]] > 0
<1>1. held[r] \in Profiles
  BY DEF TypeInv, HeldWhileCalling
<1>2. r \in Holders(held[r])
  BY DEF Holders
<1>3. Cardinality(Holders(held[r])) # 0
  BY <1>1, <1>2, HoldersType, FS_EmptySet
<1>. QED
  BY <1>1, <1>3, HoldersType DEF CapacityRespected

LEMMA ReserveBalance ==
    ASSUME TypeInv, StatisticsBalance, NEW p \in Profiles, Reserve(p)
    PROVE  StatisticsBalance'
  BY DEF TypeInv, TypeOK, StatisticsBalance, Reserve

LEMMA ReleaseBalance ==
    ASSUME TypeInv, CapacityRespected, StatisticsBalance,
           NEW r \in Requests, NEW outcome, pc[r] \in Calling, ReleaseSlot(r, outcome)
    PROVE  StatisticsBalance'
<1>. DEFINE p == held[r]
<1>1. p \in Profiles /\ inflight[p] > 0
  BY SettledWasInFlight
<1>2. /\ inflight' = [inflight EXCEPT ![p] = OneLess(@)]
      /\ successes' = [successes EXCEPT ![p] = IF outcome = "success" THEN @ + 1 ELSE @]
      /\ failures' = [failures EXCEPT ![p] = IF outcome # "success" THEN @ + 1 ELSE @]
      /\ requests' = requests
  BY DEF ReleaseSlot, Release, Settled, CountsAsFailure
<1>3. \A q \in Profiles : inflight'[q] = inflight[q] - IF q = p THEN 1 ELSE 0
  BY <1>1, <1>2 DEF OneLess, TypeInv, TypeOK
<1>4. \A q \in Profiles : successes'[q] + failures'[q]
                              = successes[q] + failures[q] + IF q = p THEN 1 ELSE 0
  BY <1>1, <1>2 DEF TypeInv, TypeOK
<1>5. \A q \in Profiles : /\ successes'[q] \in Nat /\ failures'[q] \in Nat
                          /\ successes[q] \in Nat /\ failures[q] \in Nat
                          /\ inflight[q] \in Nat
  BY <1>1, <1>2 DEF TypeInv, TypeOK
<1>. QED
  BY <1>2, <1>3, <1>4, <1>5 DEF StatisticsBalance

LEMMA NextBalance ==
    ASSUME TypeInv, CapacityRespected, StatisticsBalance, [Next]_vars
    PROVE  StatisticsBalance'
<1>1. ASSUME UNCHANGED <<requests, successes, failures, inflight>>
      PROVE  StatisticsBalance'
  BY <1>1 DEF StatisticsBalance
<1>2. ASSUME NEW r \in Requests, NEW p \in Profiles,
             AttemptNow(r, p) \/ AttemptAfterWait(r, p)
      PROVE  StatisticsBalance'
  BY <1>2, ReserveBalance DEF AttemptNow, AttemptAfterWait, AcquireNow, AcquireAfterWait
<1>3. ASSUME NEW r \in Requests, Releases(r) \/ AbortHolding(r)
      PROVE  StatisticsBalance'
  <2>1. PICK outcome : ReleaseSlot(r, outcome)
    BY <1>3 DEF Releases, Retry, UpstreamTimesOut, Settle, StreamBreaks, AbortHolding
  <2>2. pc[r] \in Calling
    BY <1>3 DEF Releases, Retry, UpstreamTimesOut, Settle, StreamBreaks, AbortHolding,
       Goto, Calling
  <2>. QED
    BY <2>1, <2>2, ReleaseBalance
<1>4. ASSUME NEW r \in Requests,
             \/ RefuseFull(r) \/ WaitForCapacity(r) \/ KeepWaiting(r)
             \/ GiveUpWaiting(r) \/ GiveUp(r)
      PROVE  StatisticsBalance'
  BY <1>1, <1>4
  DEF RefuseFull, QueueFull, WaitForCapacity, Enqueue, KeepWaiting, WaitAgain, Suspend,
      GiveUpWaiting, WaitExpires, GiveUp, schedulerVars, profileVars
<1>5. ASSUME NEW r \in Requests,
             Replies(r) \/ Arrives(r) \/ AbortWaiting(r) \/ AbortSending(r)
      PROVE  StatisticsBalance'
  BY <1>1, <1>5
  DEF Replies, StartReply, EndReply, SendFinalStart, SendFinalBody, Arrives, Accept,
      Reject, AbortWaiting, AbortSending, schedulerVars, profileVars
<1>6. CASE TickStep
  BY <1>1, <1>6 DEF TickStep, Tick
<1>7. CASE UNCHANGED vars
  BY <1>1, <1>7 DEF vars, schedulerVars
<1>. QED
  BY <1>2, <1>3, <1>4, <1>5, <1>6, <1>7 DEF Next, Proceeds, Acquires, Aborts, Finished

\* Every slot that was ever reserved is in flight or has been counted once, as
\* a success or as a failure, whatever way its request went.
THEOREM StatisticsAlwaysBalance == Spec => []StatisticsBalance
<1>1. Init => StatisticsBalance
  BY DEF Init, SchedulerInit, StatisticsBalance
<1>. QED
  BY <1>1, TypeInvariant, CapacityAlwaysRespected, NextBalance, PTL DEF Spec

----------------------------------------------------------------------------
(* The slots come back *)

\* Except where build_request() raises, every way out of _proxy() passes a
\* release().
THEOREM SlotsAlwaysReturned ==
    ASSUME Unbuildable = {}
    PROVE  Spec => []SlotsReturned
<1>. DEFINE CrashedWithout == \A r \in Requests : pc[r] = "crashed" => held[r] = NoProfile
<1>1. Init => CrashedWithout
  BY DEF Init
<1>2. TypeInv /\ CrashedWithout /\ [Next]_vars => CrashedWithout'
  <2>. SUFFICES ASSUME TypeInv, CrashedWithout, [Next]_vars PROVE CrashedWithout'
    OBVIOUS
  <2>. USE DEF TypeInv, TypeOK, HeldWhileCalling, NotHolding
  <2>1. ASSUME NEW r \in Requests, Arrives(r) \/ Replies(r) PROVE CrashedWithout'
    BY <2>1 DEF Arrives, Accept, Reject, Replies, StartReply, EndReply, SendFinalStart,
       SendFinalBody, Goto
  <2>2. ASSUME NEW r \in Requests, Releases(r) PROVE CrashedWithout'
    BY <2>2 DEF Releases, Retry, UpstreamTimesOut, Settle, StreamBreaks, ReleaseSlot, Goto
  <2>3. ASSUME NEW r \in Requests, Aborts(r) PROVE CrashedWithout'
    BY <2>3 DEF Aborts, AbortHolding, AbortWaiting, AbortSending, ReleaseSlot, Goto
  <2>4. ASSUME NEW r \in Requests, Acquires(r) PROVE CrashedWithout'
    <3>1. ASSUME NEW p \in Profiles, AttemptNow(r, p) \/ AttemptAfterWait(r, p)
          PROVE  CrashedWithout'
      BY <2>4, <3>1 DEF AttemptNow, AttemptAfterWait, CallUpstream
    <3>2. CASE \/ RefuseFull(r) \/ WaitForCapacity(r) \/ KeepWaiting(r)
               \/ GiveUpWaiting(r) \/ GiveUp(r)
      BY <2>4, <3>2 DEF RefuseFull, WaitForCapacity, KeepWaiting, GiveUpWaiting, GiveUp,
         proxyVars, Goto
    <3>. QED
      BY <2>4, <3>1, <3>2 DEF Acquires
  <2>5. CASE TickStep \/ UNCHANGED vars
    BY <2>5 DEF TickStep, vars, proxyVars
  <2>. QED
    BY <2>1, <2>2, <2>3, <2>4, <2>5 DEF Next, Proceeds, Finished
<1>3. TypeInv /\ CrashedWithout => SlotsReturned
  BY DEF TypeInv, HeldWhileCalling, NotHolding, SlotsReturned
<1>. QED
  BY <1>1, <1>2, <1>3, TypeInvariant, PTL DEF Spec
----------------------------------------------------------------------------
(* The attempts of a request and the cooldowns of the profiles.  A waiting    *)
(* task has an attempt left: the loop of _proxy looks at their number before   *)
(* it calls acquire(), and not again when acquire() returns.                   *)

RetryInv ==
    /\ DistinctAttempts
    /\ \A r \in Requests : pc[r] = "waiting" => attempts[r] < MaxAttempts

\* The steps that do not call the upstream leave excluded and attempts alone, and
\* hold no other slot; a task that begins to wait has an attempt left.
NoAttempt(r) ==
    /\ UNCHANGED <<excluded, attempts>>
    /\ held' = held \/ held' = [held EXCEPT ![r] = NoProfile]
    /\ \A q \in Requests : pc'[q] = "waiting" =>
          pc[q] = "waiting" \/ (q = r /\ attempts[r] < MaxAttempts)

LEMMA InitRetryInv == Init => RetryInv
  BY AttemptsAssumption, FS_EmptySet DEF Init, RetryInv, DistinctAttempts

LEMMA NoAttemptKeeps ==
    ASSUME TypeInv, RetryInv, NEW r \in Requests, NoAttempt(r)
    PROVE  RetryInv'
<1>1. \A q \in Requests : held'[q] = held[q] \/ held'[q] = NoProfile
  BY DEF TypeInv, TypeOK, NoAttempt
<1>2. DistinctAttempts'
  BY <1>1 DEF RetryInv, DistinctAttempts, NoAttempt
<1>3. \A q \in Requests : pc'[q] = "waiting" => attempts'[q] < MaxAttempts
  BY DEF RetryInv, NoAttempt
<1> QED BY <1>2, <1>3 DEF RetryInv

\* The profile that acquire() returns is none of those tried before.
LEMMA AttemptKeeps ==
    ASSUME TypeInv, RetryInv, NEW r \in Requests, NEW p \in Profiles,
           AttemptNow(r, p) \/ AttemptAfterWait(r, p)
    PROVE  RetryInv'
<1>1. /\ CallUpstream(r, p) /\ p \notin excluded[r]
      /\ attempts[r] < MaxAttempts
  BY DEF AttemptNow, AttemptAfterWait, MayAttempt, AcquireNow, AcquireAfterWait, Chosen, Tied,
         Candidates, RetryInv
<1>2. excluded[r] \subseteq Profiles /\ attempts[r] \in Nat /\ MaxAttempts \in Nat
  BY AttemptsAssumption DEF TypeInv, TypeOK
<1>3. IsFiniteSet(excluded[r])
  <2>1. IsFiniteSet(Profiles)
    BY FS_Interval, ConfigAssumption DEF Profiles
  <2> QED BY <1>2, <2>1, FS_Subset
<1>4. Cardinality(excluded[r] \cup {p}) = attempts[r] + 1
  <2>1. Cardinality(excluded[r]) = attempts[r]
    BY DEF RetryInv, DistinctAttempts
  <2>2. Cardinality(excluded[r] \cup {p}) = Cardinality(excluded[r]) + 1
    BY <1>1, <1>3, FS_AddElement
  <2> QED BY <2>1, <2>2
<1>5. /\ excluded'[r] = excluded[r] \cup {p} /\ attempts'[r] = attempts[r] + 1 /\ held'[r] = p
      /\ \A q \in Requests \ {r} :
            excluded'[q] = excluded[q] /\ attempts'[q] = attempts[q] /\ held'[q] = held[q]
  BY <1>1 DEF CallUpstream, TypeInv, TypeOK
<1>6. \A q \in Requests : pc'[q] = "waiting" => q # r /\ pc[q] = "waiting"
  BY <1>1 DEF CallUpstream, TypeInv, TypeOK
<1>7. attempts[r] + 1 <= MaxAttempts
  BY <1>1, <1>2
<1>8. DistinctAttempts'
  BY <1>4, <1>5, <1>7 DEF RetryInv, DistinctAttempts
<1>9. \A q \in Requests : pc'[q] = "waiting" => attempts'[q] < MaxAttempts
  BY <1>5, <1>6 DEF RetryInv
<1> QED BY <1>8, <1>9 DEF RetryInv

LEMMA NextRetryInv == ASSUME TypeInv, RetryInv, [Next]_vars PROVE RetryInv'
<1> USE DEF TypeInv, TypeOK
<1>1. CASE UNCHANGED vars \/ TickStep \/ Finished
  BY <1>1 DEF vars, proxyVars, TickStep, Finished, RetryInv, DistinctAttempts
<1>2. ASSUME NEW r \in Requests, Arrives(r) \/ Replies(r) \/ Releases(r) \/ Aborts(r) PROVE RetryInv'
  <2>1. CASE Arrives(r)
    BY <2>1, NoAttemptKeeps DEF Arrives, Accept, Reject, Goto, NoAttempt
  <2>2. CASE Replies(r)
    BY <2>2, NoAttemptKeeps DEF Replies, StartReply, EndReply, SendFinalStart, SendFinalBody, Goto, NoAttempt
  <2>3. CASE Releases(r)
    BY <2>3, NoAttemptKeeps
       DEF Releases, Retry, UpstreamTimesOut, Settle, StreamBreaks, ReleaseSlot, Goto, NoAttempt
  <2>4. CASE Aborts(r)
    BY <2>4, NoAttemptKeeps DEF Aborts, AbortHolding, AbortWaiting, AbortSending, ReleaseSlot, Goto, NoAttempt
  <2> QED BY <1>2, <2>1, <2>2, <2>3, <2>4
<1>3. ASSUME NEW r \in Requests, Acquires(r) PROVE RetryInv'
  <2>1. CASE \E p \in Profiles : AttemptNow(r, p) \/ AttemptAfterWait(r, p)
    BY <2>1, AttemptKeeps
  <2>2. CASE RefuseFull(r) \/ GiveUpWaiting(r) \/ GiveUp(r)
    BY <2>2, NoAttemptKeeps DEF RefuseFull, GiveUpWaiting, GiveUp, Goto, NoAttempt
  <2>3. CASE WaitForCapacity(r)
    BY <2>3, NoAttemptKeeps DEF WaitForCapacity, MayAttempt, Goto, NoAttempt
  <2>4. CASE KeepWaiting(r)
    BY <2>4, NoAttemptKeeps DEF KeepWaiting, proxyVars, NoAttempt
  <2> QED BY <1>3, <2>1, <2>2, <2>3, <2>4 DEF Acquires
<1> QED BY <1>1, <1>2, <1>3 DEF Next, Proceeds

\* Whatever waits, failures and retries of other requests come in between, the
\* attempts of _proxy go to distinct profiles and are at most max_attempts.
THEOREM AttemptsAlwaysDistinct == Spec => []DistinctAttempts
<1>1. Init => RetryInv
  BY InitRetryInv
<1>2. TypeInv /\ RetryInv /\ [Next]_vars => RetryInv'
  BY NextRetryInv
<1>3. RetryInv => DistinctAttempts
  BY DEF RetryInv
<1> QED BY <1>1, <1>2, <1>3, TypeInvariant, PTL DEF Spec

----------------------------------------------------------------------------
(* Cooldowns *)

\* release() gives a profile no shorter cooldown than it has.
LEMMA ReleaseCooldown ==
    ASSUME TypeOK, NEW p, NEW outcome \in Outcomes, Release(p, outcome), NEW q \in Profiles
    PROVE  cooldown'[q] >= cooldown[q]
<1>1. cooldown[q] \in Nat /\ RateLimitCooldown \in Nat /\ CircuitCooldown \in Nat
  BY ConfigAssumption DEF TypeOK
<1>2. cooldown' = [cooldown EXCEPT ![p] = CooldownAfter(p, outcome)] /\ cooldown \in [Profiles -> Nat]
  BY DEF Release, Settled, TypeOK
<1>3. CASE q = p
  <2>1. CooldownAfter(p, outcome) \in {cooldown[q], Larger(cooldown[q], RateLimitCooldown),
                                       Larger(cooldown[q], CircuitCooldown)}
    BY <1>3 DEF CooldownAfter
  <2>2. CooldownAfter(p, outcome) >= cooldown[q]
    BY <1>1, <2>1 DEF Larger
  <2> QED BY <1>2, <1>3, <2>2
<1>4. CASE q # p
  BY <1>1, <1>2, <1>4
<1> QED BY <1>3, <1>4

LEMMA CooldownStep ==
    ASSUME TypeInv, [Next]_vars, ~ TickStep, NEW p \in Profiles
    PROVE  ~ (cooldown'[p] < cooldown[p])
<1>0. cooldown[p] \in Nat
  BY DEF TypeInv, TypeOK
<1>1. CASE UNCHANGED cooldown
  BY <1>0, <1>1
<1>2. ASSUME NEW r \in Requests, NEW outcome \in Outcomes, ReleaseSlot(r, outcome)
      PROVE  cooldown'[p] >= cooldown[p]
  BY <1>2, ReleaseCooldown DEF ReleaseSlot, TypeInv
<1>3. ASSUME NEW r \in Requests, Releases(r) \/ AbortHolding(r)
      PROVE  \E outcome \in Outcomes : ReleaseSlot(r, outcome)
  <2>1. CASE \E s \in DOMAIN RetriedOutcome : Retry(r, s)
    BY <2>1 DEF Retry, RetriedOutcome, Outcomes
  <2>2. CASE Settle(r)
    <3>1. status[r] \in DOMAIN RelayedOutcome
      BY <2>2 DEF Settle, Goto, TypeInv, RelayedWhileReplying
    <3> QED BY <2>2, <3>1 DEF Settle, RelayedOutcome, Outcomes
  <2>3. CASE UpstreamTimesOut(r) \/ StreamBreaks(r) \/ AbortHolding(r)
    BY <2>3 DEF UpstreamTimesOut, StreamBreaks, AbortHolding, Outcomes
  <2> QED BY <1>3, <2>1, <2>2, <2>3 DEF Releases
<1>4. ASSUME NEW r \in Requests, Releases(r) \/ AbortHolding(r) PROVE ~ (cooldown'[p] < cooldown[p])
  <2>1. PICK outcome \in Outcomes : ReleaseSlot(r, outcome)
    BY <1>3, <1>4
  <2>2. cooldown'[p] >= cooldown[p]
    BY <1>2, <2>1
  <2>3. cooldown'[p] \in Nat
    BY <2>1, NextTypeInv DEF TypeInv, TypeOK
  <2> QED BY <1>0, <2>2, <2>3
<1>5. ASSUME NEW r \in Requests, Arrives(r) \/ Acquires(r) \/ Replies(r) \/ AbortWaiting(r) \/ AbortSending(r)
      PROVE  UNCHANGED cooldown
  <2>1. CASE Arrives(r)
    BY <2>1 DEF Arrives, Accept, Reject, schedulerVars
  <2>2. CASE Acquires(r)
    BY <2>2 DEF Acquires, AttemptNow, AttemptAfterWait, AcquireNow, AcquireAfterWait, Reserve, RefuseFull,
                QueueFull, WaitForCapacity, Enqueue, KeepWaiting, WaitAgain, Suspend, GiveUpWaiting,
                WaitExpires, GiveUp, profileVars, schedulerVars
  <2>3. CASE Replies(r)
    BY <2>3 DEF Replies, StartReply, EndReply, SendFinalStart, SendFinalBody, schedulerVars
  <2>4. CASE AbortWaiting(r) \/ AbortSending(r)
    BY <2>4 DEF AbortWaiting, AbortSending, profileVars, schedulerVars
  <2> QED BY <1>5, <2>1, <2>2, <2>3, <2>4
<1>6. CASE UNCHANGED vars \/ Finished
  BY <1>1, <1>6 DEF vars, Finished, schedulerVars
<1> QED BY <1>1, <1>4, <1>5, <1>6 DEF Next, Proceeds, Aborts

\* However releases, rate limits and circuits follow each other, only the clock
\* brings a profile out of its cooldown.
THEOREM OnlyTheClockEndsCooldowns == Spec => CooldownNeverShortened
<1>1. TypeInv /\ [Next]_vars => [\A p \in Profiles : cooldown'[p] < cooldown[p] => TickStep]_vars
  BY CooldownStep
<1> QED BY <1>1, TypeInvariant, PTL DEF Spec, CooldownNeverShortened

----------------------------------------------------------------------------
(* The queue *)

\* The count is kept as a number of tasks: waiting is an Int in TypeOK.
LEMMA QueueType ==
    ASSUME TypeOK
    PROVE  IsFiniteSet(queue) /\ Cardinality(queue) \in Nat
  BY RequestsAssumption, FS_Subset, FS_CardinalityType DEF TypeOK

----------------------------------------------------------------------------
(* The bound *)

\* A step that leaves the queue, its count and who is waiting alone.
LEMMA QueueUnchanged ==
    ASSUME TypeOK, QueueBounded, UNCHANGED <<queue, waiting>>,
           {r \in Requests : pc'[r] = "waiting"} = {r \in Requests : pc[r] = "waiting"}
    PROVE  QueueBounded'
  BY DEF QueueBounded

LEMMA EnterQueue ==
    ASSUME TypeOK, QueueBounded, NEW r \in Requests, WaitForCapacity(r)
    PROVE  QueueBounded'
<1>1. /\ waiting < QueueSize /\ waiting' = waiting + 1
      /\ queue' = queue \union {r}
      /\ pc[r] = "attempt" /\ pc' = [pc EXCEPT ![r] = "waiting"]
  BY DEF WaitForCapacity, Enqueue, Goto
<1>2. Cardinality(queue \union {r}) = Cardinality(queue) + 1
  BY <1>1, QueueType, FS_AddElement DEF QueueBounded
<1>3. queue' = {q \in Requests : pc'[q] = "waiting"}
  BY <1>1 DEF QueueBounded, TypeOK
<1> QED
  BY <1>1, <1>2, <1>3, ConfigAssumption DEF QueueBounded, TypeOK

LEMMA ExitQueue ==
    ASSUME TypeOK, QueueBounded, NEW r \in Requests, pc[r] = "waiting", LeaveQueue(r),
           NEW to, to # "waiting", pc' = [pc EXCEPT ![r] = to]
    PROVE  QueueBounded'
<1>1. waiting' = waiting - 1 /\ queue' = queue \ {r} /\ r \in queue
  BY DEF LeaveQueue, QueueBounded
<1>2. Cardinality(queue \ {r}) = Cardinality(queue) - 1
  BY <1>1, QueueType, FS_RemoveElement
<1>3. queue' = {q \in Requests : pc'[q] = "waiting"}
  BY <1>1 DEF QueueBounded, TypeOK
<1> QED
  BY <1>1, <1>2, <1>3, ConfigAssumption DEF QueueBounded, TypeOK

LEMMA QueueStep == ASSUME TypeInv, QueueBounded, [Next]_vars PROVE QueueBounded'
<1>1. TypeOK
  BY DEF TypeInv
<1>2. ASSUME NEW r \in Requests, NEW p \in Profiles, AttemptNow(r, p)
      PROVE  QueueBounded'
  BY <1>1, <1>2, QueueUnchanged
  DEF AttemptNow, AcquireNow, MayAttempt, CallUpstream, queueVars, TypeOK
<1>3. ASSUME NEW r \in Requests, NEW p \in Profiles, AttemptAfterWait(r, p)
      PROVE  QueueBounded'
  <2>1. /\ pc[r] = "waiting" /\ LeaveQueue(r)
        /\ pc' = [pc EXCEPT ![r] = IF r \in Unbuildable THEN "crashed" ELSE "upstream"]
    BY <1>3 DEF AttemptAfterWait, AcquireAfterWait, CallUpstream
  <2>2. (IF r \in Unbuildable THEN "crashed" ELSE "upstream") # "waiting"
    OBVIOUS
  <2> QED
    BY <1>1, <2>1, <2>2, ExitQueue
<1>4. ASSUME NEW r \in Requests, WaitForCapacity(r) PROVE QueueBounded'
  BY <1>1, <1>4, EnterQueue
<1>5. ASSUME NEW r \in Requests, RefuseFull(r) \/ KeepWaiting(r) \/ GiveUp(r)
      PROVE  QueueBounded'
  BY <1>1, <1>5, QueueUnchanged
  DEF RefuseFull, QueueFull, KeepWaiting, WaitAgain, GiveUp, schedulerVars, proxyVars,
      Goto, TypeOK
<1>6. ASSUME NEW r \in Requests, GiveUpWaiting(r) PROVE QueueBounded'
  BY <1>1, <1>6, ExitQueue DEF GiveUpWaiting, WaitExpires, Goto
<1>7. ASSUME NEW r \in Requests, AbortWaiting(r) PROVE QueueBounded'
  BY <1>1, <1>7, ExitQueue DEF AbortWaiting, Goto
<1>8. ASSUME NEW r \in Requests, Replies(r) \/ Arrives(r) \/ AbortSending(r)
      PROVE  QueueBounded'
  BY <1>1, <1>8, QueueUnchanged
  DEF Replies, StartReply, EndReply, SendFinalStart, SendFinalBody, Arrives, Accept,
      Reject, AbortSending, schedulerVars, Goto, TypeOK
<1>9. ASSUME NEW r \in Requests, Releases(r) \/ AbortHolding(r) PROVE QueueBounded'
  BY <1>1, <1>9, QueueUnchanged
  DEF Releases, Retry, UpstreamTimesOut, Settle, StreamBreaks, AbortHolding,
      ReleaseSlot, Release, Goto, TypeOK
<1>10. CASE TickStep
  BY <1>1, <1>10, QueueUnchanged DEF TickStep, Tick, proxyVars
<1>11. CASE UNCHANGED vars
  BY <1>1, <1>11, QueueUnchanged DEF vars, schedulerVars, proxyVars
<1> QED
  BY <1>2, <1>3, <1>4, <1>5, <1>6, <1>7, <1>8, <1>9, <1>10, <1>11
  DEF Next, Proceeds, Acquires, Aborts, Finished

\* self.waiting counts exactly the tasks in the queue, whichever way they
\* leave it, and no more than queue_size of them.
THEOREM QueueAlwaysBounded == Spec => []QueueBounded
<1>1. Init => QueueBounded
  BY FS_EmptySet, ConfigAssumption DEF Init, SchedulerInit, QueueBounded
<1> QED
  BY <1>1, TypeInvariant, QueueStep, PTL DEF Spec

\* Both limits hold together, whatever the interleaving of acquire(), release(),
\* timers and aborts.
THEOREM LimitsAlwaysRespected == Spec => []LimitsRespected
<1>1. CapacityRespected /\ QueueBounded => LimitsRespected
  BY DEF LimitsRespected
<1> QED
  BY <1>1, CapacityAlwaysRespected, QueueAlwaysBounded, PTL

----------------------------------------------------------------------------
(* The wake-ups *)

\* r cannot have p now, and either it sleeps no longer than p's cooldown or p
\* is full, so that a release() comes first.
Covered(r, p) ==
    \/ cooldown[p] > 0 /\ timer[r] <= cooldown[p]
    \/ inflight[p] >= MaxConc[p] /\ cooldown[p] = 0

Usable(r) == Enabled \ (excluded[r] \union disabled)

\* Every profile a sleeping task could use is covered: the invariant behind
\* NoLostWakeup.
SleepersCovered ==
    \A r \in queue \ notified :
        timer[r] = 0 \/ \A p \in Usable(r) : Covered(r, p)

WakeInv == QueueBounded /\ SleepersCovered

\* Who goes to sleep with nothing available, no longer than every cooldown it
\* may have to wait for, is covered.
LEMMA SuspendCovers ==
    ASSUME TypeOK, NEW r \in Requests, NEW remaining \in Nat, NEW p \in Usable(r),
           Candidates(excluded[r]) = {}, Suspend(r, remaining, excluded[r])
    PROVE  \/ cooldown[p] > 0 /\ timer'[r] <= cooldown[p]
           \/ inflight[p] >= MaxConc[p] /\ cooldown[p] = 0
<1>1. p \in Profiles /\ p \in Enabled /\ p \notin disabled /\ p \notin excluded[r]
  BY ConfigAssumption DEF Usable
<1>2. cooldown[p] \in Nat /\ inflight[p] \in Nat /\ MaxConc[p] \in Nat
  BY <1>1, ConfigAssumption DEF TypeOK
<1>3. PICK t : IsWaitTimeout(t, remaining, excluded[r]) /\ timer' = [timer EXCEPT ![r] = t]
  BY DEF Suspend
<1>4. timer'[r] = t
  BY <1>3 DEF TypeOK
<1>5. CASE cooldown[p] = 0
  BY <1>1, <1>2, <1>5 DEF Candidates, Available
<1>6. CASE cooldown[p] > 0
  <2>1. cooldown[p] \in CooldownDelays(excluded[r])
    BY <1>1, <1>6 DEF CooldownDelays
  <2>2. t <= cooldown[p]
    BY <1>3, <2>1 DEF IsWaitTimeout
  <2> QED
    BY <1>4, <1>6, <2>2
<1> QED
  BY <1>2, <1>5, <1>6

LEMMA SuspendStep ==
    ASSUME TypeOK, SleepersCovered, NEW r \in Requests, NEW remaining \in Nat,
           Candidates(excluded[r]) = {}, Suspend(r, remaining, excluded[r]),
           queue' = queue \union {r}, UNCHANGED excluded
    PROVE  SleepersCovered'
<1>1. UNCHANGED <<cooldown, inflight, disabled>>
  BY DEF Suspend, profileVars
<1>2. \A p \in Usable(r) : Covered(r, p)'
  BY <1>1, SuspendCovers DEF Covered
<1>3. \A q \in Requests \ {r} : timer'[q] = timer[q] /\ (q \in notified' <=> q \in notified)
  BY DEF Suspend, TypeOK
<1>4. \A q \in queue' : q \in Requests
  BY DEF TypeOK
<1> QED
  BY <1>1, <1>2, <1>3, <1>4 DEF SleepersCovered, Covered, Usable

\* A slot is taken, by a task that is not asleep afterwards.
LEMMA ReserveCovered ==
    ASSUME TypeOK, SleepersCovered, NEW r \in Requests, NEW p \in Profiles,
           Reserve(p), CallUpstream(r, p), r \notin queue',
           queue' \subseteq queue, queue' \ notified' \subseteq queue \ notified,
           \A q \in queue' : timer'[q] = timer[q]
    PROVE  SleepersCovered'
<1>1. \A q \in Profiles : inflight'[q] >= inflight[q] /\ cooldown'[q] = cooldown[q]
  BY DEF Reserve, TypeOK
<1>2. \A q \in queue' : Usable(q)' = Usable(q)
  BY DEF Reserve, CallUpstream, Usable, TypeOK
<1>3. \A q \in queue' : Usable(q) \subseteq Profiles
  BY ConfigAssumption DEF Usable
<1>4. ASSUME NEW q \in queue' \ notified', NEW o \in Usable(q), Covered(q, o)
      PROVE  Covered(q, o)'
  <2>1. o \in Profiles
    BY <1>3
  <2>2. /\ inflight[o] \in Nat /\ inflight'[o] \in Nat /\ MaxConc[o] \in Nat
        /\ inflight'[o] >= inflight[o]
    BY <1>1, <2>1, ReserveType, ConfigAssumption DEF TypeOK
  <2> QED
    BY <1>1, <1>4, <2>1, <2>2 DEF Covered
<1> QED
  BY <1>2, <1>4 DEF SleepersCovered

\* A step that leaves the profiles, the sleepers and their timers alone.
LEMMA CoveredUnchanged ==
    ASSUME SleepersCovered, UNCHANGED <<cooldown, disabled, inflight>>,
           queue' \ notified' \subseteq queue \ notified,
           \A q \in queue' : timer'[q] = timer[q] /\ excluded'[q] = excluded[q]
    PROVE  SleepersCovered'
  BY DEF SleepersCovered, Covered, Usable

\* Time passes for a sleeper and for the cooldowns it waits for alike.
LEMMA TickCovers == ASSUME TypeOK, SleepersCovered, TickStep PROVE SleepersCovered'
<1>1. /\ UNCHANGED <<inflight, disabled, queue, notified, excluded>>
      /\ \A q \in Requests : timer'[q] = OneLess(timer[q])
      /\ \A p \in Profiles : cooldown'[p] = OneLess(cooldown[p])
  BY DEF TickStep, Tick, proxyVars
<1>2. SUFFICES ASSUME NEW q \in queue \ notified, NEW p \in Usable(q), timer'[q] # 0
               PROVE  Covered(q, p)'
  BY <1>1 DEF SleepersCovered, Usable
<1>3. /\ q \in Requests /\ p \in Profiles
      /\ timer[q] \in Nat /\ cooldown[p] \in Nat
  BY ConfigAssumption DEF TypeOK, Usable
<1>4. timer[q] # 0 /\ timer'[q] = timer[q] - 1
  BY <1>1, <1>2, <1>3 DEF OneLess
<1>5. Covered(q, p)
  BY <1>4 DEF SleepersCovered
<1> QED
  BY <1>1, <1>2, <1>3, <1>4, <1>5 DEF Covered, OneLess

LEMMA WakeStep == ASSUME TypeInv, WakeInv, [Next]_vars PROVE SleepersCovered'
<1>1. TypeOK /\ QueueBounded /\ SleepersCovered
  BY DEF TypeInv, WakeInv
<1>2. ASSUME NEW r \in Requests, NEW p \in Profiles, AttemptNow(r, p)
      PROVE  SleepersCovered'
  <2>1. Reserve(p) /\ CallUpstream(r, p) /\ UNCHANGED queueVars
    BY <1>2 DEF AttemptNow, AcquireNow
  <2>2. r \notin queue
    BY <1>1, <1>2 DEF AttemptNow, MayAttempt, QueueBounded
  <2> QED
    BY <1>1, <2>1, <2>2, ReserveCovered DEF queueVars
<1>3. ASSUME NEW r \in Requests, NEW p \in Profiles, AttemptAfterWait(r, p)
      PROVE  SleepersCovered'
  <2>1. Reserve(p) /\ CallUpstream(r, p) /\ LeaveQueue(r)
    BY <1>3 DEF AttemptAfterWait, AcquireAfterWait
  <2> QED
    BY <1>1, <2>1, ReserveCovered DEF LeaveQueue, TypeOK
<1>4. ASSUME NEW r \in Requests, WaitForCapacity(r) PROVE SleepersCovered'
  <2>1. /\ Suspend(r, QueueTimeout, excluded[r]) /\ Candidates(excluded[r]) = {}
        /\ queue' = queue \union {r} /\ UNCHANGED excluded
    BY <1>4 DEF WaitForCapacity, Enqueue
  <2> QED
    BY <1>1, <2>1, SuspendStep, ConfigAssumption
<1>5. ASSUME NEW r \in Requests, KeepWaiting(r) PROVE SleepersCovered'
  <2>1. /\ Suspend(r, deadline[r], excluded[r]) /\ Candidates(excluded[r]) = {}
        /\ r \in queue /\ UNCHANGED <<queue, excluded>>
    BY <1>5 DEF KeepWaiting, WaitAgain, Rechecks, proxyVars
  <2>2. queue' = queue \union {r} /\ deadline[r] \in Nat
    BY <1>1, <2>1 DEF TypeOK
  <2> QED
    BY <1>1, <2>1, <2>2, SuspendStep
<1>6. ASSUME NEW r \in Requests, GiveUpWaiting(r) \/ AbortWaiting(r)
      PROVE  SleepersCovered'
  BY <1>1, <1>6, CoveredUnchanged
  DEF GiveUpWaiting, WaitExpires, AbortWaiting, LeaveQueue, profileVars, TypeOK
<1>7. ASSUME NEW r \in Requests,
             \/ RefuseFull(r) \/ GiveUp(r) \/ Replies(r) \/ Arrives(r) \/ AbortSending(r)
      PROVE  SleepersCovered'
  BY <1>7, <1>1, CoveredUnchanged
  DEF RefuseFull, QueueFull, GiveUp, Replies, StartReply, EndReply, SendFinalStart,
      SendFinalBody, Arrives, Accept, Reject, AbortSending, schedulerVars
<1>8. ASSUME NEW r \in Requests, Releases(r) \/ AbortHolding(r) PROVE SleepersCovered'
  <2>1. notified' = queue /\ queue' = queue
    BY <1>8 DEF Releases, Retry, UpstreamTimesOut, Settle, StreamBreaks, AbortHolding,
       ReleaseSlot, Release, NotifyAll
  <2> QED
    BY <2>1 DEF SleepersCovered
<1>9. CASE TickStep
  BY <1>1, <1>9, TickCovers
<1>10. CASE UNCHANGED vars
  BY <1>1, <1>10, CoveredUnchanged DEF vars, schedulerVars, proxyVars
<1> QED
  BY <1>2, <1>3, <1>4, <1>5, <1>6, <1>7, <1>8, <1>9, <1>10
  DEF Next, Proceeds, Acquires, Aborts, Finished

LEMMA WakeInvariant == Spec => []WakeInv
<1>1. Init => WakeInv
  BY FS_EmptySet, ConfigAssumption
  DEF Init, SchedulerInit, WakeInv, QueueBounded, SleepersCovered
<1>2. TypeInv /\ WakeInv /\ [Next]_vars => WakeInv'
  BY QueueStep, WakeStep DEF WakeInv
<1> QED
  BY <1>1, <1>2, TypeInvariant, PTL DEF Spec

\* For any number of tasks, profiles and any settings: a task that could be
\* served has been notified or its timer has run out.  Nothing announces the
\* end of a cooldown; the timers that were chosen before it are enough.
THEOREM NoWakeupLost == Spec => []NoLostWakeup
<1>1. ASSUME TypeInv, WakeInv PROVE NoLostWakeup
  <2>1. SUFFICES ASSUME NEW r \in queue \ notified, NEW p \in Candidates(excluded[r]),
                        timer[r] # 0
                 PROVE  FALSE
    BY DEF NoLostWakeup
  <2>2. p \in Usable(r) /\ p \in Profiles /\ cooldown[p] = 0 /\ inflight[p] < MaxConc[p]
    BY DEF Candidates, Available, Usable
  <2>3. Covered(r, p)
    BY <1>1, <2>1, <2>2 DEF WakeInv, SleepersCovered
  <2> QED
    BY <1>1, <2>2, <2>3, ConfigAssumption DEF Covered, TypeInv, TypeOK
<1> QED
  BY <1>1, TypeInvariant, WakeInvariant, PTL

\* "When every profile is full, requests wait", and only then, for as long as
\* build_request() does not raise: the slots an undisturbed waiter waits for
\* are held by requests that are still running.
THEOREM WaitsWhenFullOnly ==
    ASSUME Unbuildable = {}
    PROVE  Spec => []WaitsOnlyWhenFull
<1>1. ASSUME TypeInv, WakeInv, CapacityRespected, SlotsReturned
      PROVE  WaitsOnlyWhenFull
  <2>1. SUFFICES ASSUME NEW r \in queue \ notified, timer[r] > 0, NEW p \in Usable(r),
                        ~ (cooldown[p] > 0)
                 PROVE  Cardinality({q \in Holders(p) : pc[q] # "crashed"}) >= MaxConc[p]
    BY DEF WaitsOnlyWhenFull, Usable
  <2>2. p \in Profiles
    BY ConfigAssumption DEF Usable
  <2>3. inflight[p] >= MaxConc[p]
    BY <1>1, <2>1 DEF WakeInv, SleepersCovered, Covered
  <2>4. {q \in Holders(p) : pc[q] # "crashed"} = Holders(p)
    BY <1>1, <2>2 DEF SlotsReturned, Holders, Profiles, NoProfile
  <2> QED
    BY <1>1, <2>2, <2>3, <2>4 DEF CapacityRespected
<1> QED
  BY <1>1, TypeInvariant, WakeInvariant, CapacityAlwaysRespected, SlotsAlwaysReturned, PTL
----------------------------------------------------------------------------
(* The abstract pool: the queue, the health records, the retries and the two   *)
(* ways of answering only ever borrow a slot, give it back, or send the next   *)
(* message of the one response.                                                *)

USE DEF NoProfile

\* Where the client has not been sent anything, the start of the response, or
\* all of it.
Unanswered == {"new", "attempt", "waiting", "upstream", "final"}
Started == {"replying", "final_body"}
Answered == {"settling", "done"}

\* What the client has seen follows from where the handler is; a handler that
\* was aborted has sent at most one response.
AnswerFollows ==
    \A r \in Requests :
        /\ pc[r] \in Unanswered => starts[r] = 0 /\ ends[r] = 0
        /\ pc[r] \in Started => starts[r] = 1 /\ ends[r] = 0
        /\ pc[r] \in Answered => starts[r] = 1 /\ ends[r] = 1
        /\ starts[r] <= 1 /\ ends[r] <= starts[r]

PoolInv == TypeInv /\ CapacityRespected /\ AnswerFollows

LEMMA AnswerInit == Init => AnswerFollows
  BY DEF Init, AnswerFollows, Unanswered, Started, Answered

\* The handler moves on without sending anything.
LEMMA NothingSent ==
    ASSUME TypeOK, AnswerFollows, NEW r \in Requests, NEW to,
           \/ pc[r] \in Unanswered /\ to \in Unanswered
           \/ pc[r] \in Started /\ to \in Started
           \/ pc[r] \in Answered /\ to \in Answered
           \/ to = "crashed",
           pc' = [pc EXCEPT ![r] = to], UNCHANGED <<starts, ends>>
    PROVE  AnswerFollows'
  BY DEF AnswerFollows, Unanswered, Started, Answered, TypeOK

LEMMA AnswerStep == ASSUME TypeInv, AnswerFollows, [Next]_vars PROVE AnswerFollows'
<1>1. TypeOK
  BY DEF TypeInv
<1>2. ASSUME NEW r \in Requests, NEW p \in Profiles,
             AttemptNow(r, p) \/ AttemptAfterWait(r, p)
      PROVE  AnswerFollows'
  <2>1. /\ pc[r] \in Unanswered /\ UNCHANGED <<starts, ends>>
        /\ pc' = [pc EXCEPT ![r] = IF r \in Unbuildable THEN "crashed" ELSE "upstream"]
    BY <1>2 DEF AttemptNow, AttemptAfterWait, MayAttempt, CallUpstream, Unanswered
  <2> QED
    BY <1>1, <2>1, NothingSent DEF Unanswered
<1>3. ASSUME NEW r \in Requests, KeepWaiting(r) PROVE AnswerFollows'
  BY <1>3 DEF KeepWaiting, proxyVars, AnswerFollows
<1>4. ASSUME NEW r \in Requests,
             \/ RefuseFull(r) \/ WaitForCapacity(r) \/ GiveUpWaiting(r) \/ GiveUp(r)
      PROVE  AnswerFollows'
  BY <1>1, <1>4, NothingSent
  DEF RefuseFull, WaitForCapacity, GiveUpWaiting, GiveUp, Goto, Unanswered
<1>5. ASSUME NEW r \in Requests, Arrives(r) PROVE AnswerFollows'
  BY <1>1, <1>5, NothingSent DEF Arrives, Accept, Reject, Goto, Unanswered
<1>6. ASSUME NEW r \in Requests, Releases(r) PROVE AnswerFollows'
  BY <1>1, <1>6, NothingSent
  DEF Releases, Retry, UpstreamTimesOut, Settle, StreamBreaks, Goto,
      Unanswered, Started, Answered
<1>7. ASSUME NEW r \in Requests, Aborts(r) PROVE AnswerFollows'
  BY <1>1, <1>7, NothingSent DEF Aborts, AbortHolding, AbortWaiting, AbortSending, Goto
<1>8. ASSUME NEW r \in Requests, Replies(r) PROVE AnswerFollows'
  BY <1>1, <1>8
  DEF Replies, StartReply, EndReply, SendFinalStart, SendFinalBody, Goto,
      AnswerFollows, Unanswered, Started, Answered, TypeOK
<1>9. CASE TickStep
  BY <1>9 DEF TickStep, proxyVars, AnswerFollows
<1>10. CASE UNCHANGED vars
  BY <1>10 DEF vars, proxyVars, AnswerFollows
<1> QED
  BY <1>2, <1>3, <1>4, <1>5, <1>6, <1>7, <1>8, <1>9, <1>10
  DEF Next, Proceeds, Acquires, Finished

\* The client of any request, however often it was retried and wherever its
\* handler was interrupted, gets at most one response, and all of it when the
\* handler returns.
THEOREM OneResponseEver == Spec => []OneResponse
<1>1. AnswerFollows => OneResponse
  BY DEF AnswerFollows, OneResponse, Answered
<1> QED
  BY <1>1, TypeInvariant, AnswerInit, AnswerStep, PTL DEF Spec

----------------------------------------------------------------------------
(* Every step is a step of the pool, or changes nothing the pool knows.    *)

\* What the pool calls the answers.
Seen == [r \in Requests |-> IF ends[r] > 0 THEN "complete"
                            ELSE IF starts[r] > 0 THEN "started" ELSE "none"]

\* The pool counts as the gateway does.
LEMMA PoolCardinality == \A S : Pool!Cardinality(S) = Cardinality(S)
  BY DEF Pool!Cardinality, Cardinality

\* A reservation borrows: the profile has not been tried, has room, and the
\* client has not been sent anything.
LEMMA BorrowStep ==
    ASSUME PoolInv, NEW r \in Requests, NEW p \in Profiles,
           AttemptNow(r, p) \/ AttemptAfterWait(r, p)
    PROVE  Pool!Borrow(r, p)
<1>1. p \in Candidates(excluded[r]) /\ CallUpstream(r, p)
  BY DEF AttemptNow, AttemptAfterWait, AcquireNow, AcquireAfterWait, Chosen, Tied
<1>2. p \notin excluded[r] /\ inflight[p] < MaxConc[p]
  BY <1>1 DEF Candidates, Available
<1>3. pc[r] \in {"attempt", "waiting"}
  BY DEF AttemptNow, AttemptAfterWait, MayAttempt
<1>4. held[r] = NoProfile /\ starts[r] = 0 /\ ends[r] = 0
  BY <1>3 DEF PoolInv, TypeInv, HeldWhileCalling, NotHolding, AnswerFollows, Unanswered
<1>5. Cardinality(Holders(p)) < MaxConc[p]
  BY <1>2 DEF PoolInv, CapacityRespected
<1> QED
  BY <1>1, <1>2, <1>4, <1>5, PoolCardinality
  DEF CallUpstream, Pool!Borrow, Pool!NotLent, Pool!Borrowers, Holders

LEMMA GiveBackStep ==
    ASSUME PoolInv, NEW r \in Requests, Releases(r) \/ AbortHolding(r)
    PROVE  Pool!GiveBack(r)
<1>1. /\ pc[r] \in Calling /\ held' = [held EXCEPT ![r] = NoProfile]
      /\ UNCHANGED <<excluded, starts, ends>>
  BY DEF Releases, Retry, UpstreamTimesOut, Settle, StreamBreaks, AbortHolding,
     ReleaseSlot, Goto, Calling
<1>2. held[r] # NoProfile
  BY <1>1 DEF PoolInv, TypeInv, HeldWhileCalling, Profiles
<1> QED
  BY <1>1, <1>2 DEF Pool!GiveBack, Pool!NotLent

\* The first message starts the answer, the last one completes it.
LEMMA AnswerPoolStep ==
    ASSUME PoolInv, NEW r \in Requests, Replies(r)
    PROVE  Pool!StartAnswer(r) \/ Pool!CompleteAnswer(r)
<1>1. TypeOK /\ AnswerFollows
  BY DEF PoolInv, TypeInv
<1>2. ASSUME starts[r] = 0, ends[r] = 0, starts' = [starts EXCEPT ![r] = @ + 1],
             UNCHANGED <<held, excluded, ends>>
      PROVE  Pool!StartAnswer(r)
  <2>1. Seen[r] = "none"
    BY <1>2 DEF Seen
  <2>2. \A q \in Requests : starts'[q] = IF q = r THEN 1 ELSE starts[q]
    BY <1>1, <1>2 DEF TypeOK
  <2>3. \A q \in Requests : Seen'[q] = IF q = r THEN "started" ELSE Seen[q]
    BY <1>2, <2>2 DEF Seen
  <2>4. Seen' = [Seen EXCEPT ![r] = "started"]
    BY <2>3, Seen = [q \in Requests |-> Seen[q]], Seen' = [q \in Requests |-> Seen'[q]] DEF Seen
  <2> QED
    BY <1>2, <2>1, <2>4 DEF Pool!StartAnswer, Seen
<1>3. ASSUME starts[r] = 1, ends[r] = 0, ends' = [ends EXCEPT ![r] = @ + 1],
             UNCHANGED <<held, excluded, starts>>
      PROVE  Pool!CompleteAnswer(r)
  <2>1. Seen[r] = "started"
    BY <1>3 DEF Seen
  <2>2. \A q \in Requests : ends'[q] = IF q = r THEN 1 ELSE ends[q]
    BY <1>1, <1>3 DEF TypeOK
  <2>3. \A q \in Requests : Seen'[q] = IF q = r THEN "complete" ELSE Seen[q]
    BY <1>3, <2>2 DEF Seen
  <2>4. Seen' = [Seen EXCEPT ![r] = "complete"]
    BY <2>3, Seen = [q \in Requests |-> Seen[q]], Seen' = [q \in Requests |-> Seen'[q]] DEF Seen
  <2> QED
    BY <1>3, <2>1, <2>4 DEF Pool!CompleteAnswer, Seen
<1>4. ASSUME NEW s \in DOMAIN RelayedOutcome, StartReply(r, s)
      PROVE  Pool!StartAnswer(r)
  BY <1>1, <1>2, <1>4 DEF StartReply, Goto, AnswerFollows, Unanswered
<1>5. CASE EndReply(r)
  BY <1>1, <1>3, <1>5 DEF EndReply, Goto, AnswerFollows, Started
<1>6. CASE SendFinalStart(r)
  BY <1>1, <1>2, <1>6 DEF SendFinalStart, Goto, AnswerFollows, Unanswered
<1>7. CASE SendFinalBody(r)
  BY <1>1, <1>3, <1>7 DEF SendFinalBody, Goto, AnswerFollows, Started
<1> QED
  BY <1>4, <1>5, <1>6, <1>7 DEF Replies

LEMMA PoolStep ==
    ASSUME PoolInv, [Next]_vars
    PROVE  [Pool!PoolNext]_(Pool!poolVars)
<1> DEFINE Same == UNCHANGED <<held, excluded, starts, ends>>
<1>1. Same => UNCHANGED Pool!poolVars
  BY DEF Pool!poolVars
<1>2. ASSUME NEW r \in Requests, NEW p \in Profiles,
             AttemptNow(r, p) \/ AttemptAfterWait(r, p)
      PROVE  Pool!PoolNext
  BY <1>2, BorrowStep DEF Pool!PoolNext
<1>3. ASSUME NEW r \in Requests, Releases(r) \/ AbortHolding(r) PROVE Pool!PoolNext
  BY <1>3, GiveBackStep DEF Pool!PoolNext
<1>4. ASSUME NEW r \in Requests, Replies(r) PROVE Pool!PoolNext
  BY <1>4, AnswerPoolStep DEF Pool!PoolNext
<1>5. ASSUME NEW r \in Requests,
             \/ RefuseFull(r) \/ WaitForCapacity(r) \/ KeepWaiting(r)
             \/ GiveUpWaiting(r) \/ GiveUp(r)
      PROVE  Same
  BY <1>5 DEF RefuseFull, WaitForCapacity, KeepWaiting, GiveUpWaiting, GiveUp, proxyVars
<1>6. ASSUME NEW r \in Requests, Arrives(r) \/ AbortWaiting(r) \/ AbortSending(r)
      PROVE  Same
  BY <1>6 DEF Arrives, Accept, Reject, AbortWaiting, AbortSending
<1>7. CASE TickStep
  BY <1>1, <1>7 DEF TickStep, proxyVars
<1>8. CASE UNCHANGED vars
  BY <1>1, <1>8 DEF vars, proxyVars
<1> QED
  BY <1>1, <1>2, <1>3, <1>4, <1>5, <1>6, <1>7, <1>8
  DEF Next, Proceeds, Acquires, Aborts, Finished

\* For any number of requests and profiles and any limits, the gateway
\* implements the pool.
THEOREM GatewayImplementsPool == Spec => ImplementsPool
<1>1. Init => Pool!PoolInit
  BY DEF Init, Pool!PoolInit, Pool!NotLent
<1>2. TypeInv /\ CapacityRespected /\ AnswerFollows => PoolInv
  BY DEF PoolInv
<1>3. Spec => []AnswerFollows
  BY TypeInvariant, AnswerInit, AnswerStep, PTL DEF Spec
<1> QED
  BY <1>1, <1>2, <1>3, TypeInvariant, CapacityAlwaysRespected, PoolStep, PTL
  DEF Spec, ImplementsPool, Pool!SafePool
============================================================================
