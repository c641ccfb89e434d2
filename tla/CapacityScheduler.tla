------------------------- MODULE CapacityScheduler -------------------------
(***************************************************************************)
(* class CapacityScheduler of api_gateway.py: the slots of the upstream    *)
(* profiles and the bounded queue of the tasks that wait for one.  This    *)
(* module holds the state and one operator per path through acquire() and  *)
(* release(); module Gateway composes them with the request handler that   *)
(* calls them.                                                             *)
(*                                                                         *)
(* Every method body runs under asyncio.Condition, whose lock is given up  *)
(* only inside condition.wait().  One event loop runs every task, so the   *)
(* code between two awaits is one atomic step.                             *)
(*                                                                         *)
(* Clocks are counted down: cooldown[p] is cooldown_until - clock(),       *)
(* deadline[r] is deadline - clock() and timer[r] what is left of the      *)
(* timeout of asyncio.wait_for, each held at 0 once it has passed.  The    *)
(* code only ever compares these differences, so no instant is capped.     *)
(***************************************************************************)
EXTENDS Integers, FiniteSets

CONSTANTS
    Requests,           \* the tasks that call acquire()
    NumProfiles,        \* len(self.states)
    Enabled,            \* the profiles with enabled: true
    MaxConc,            \* max_concurrency of each profile
    QueueSize,          \* settings.queue_size
    QueueTimeout,       \* settings.queue_timeout_seconds
    RateLimitCooldown,  \* settings.rate_limit_cooldown_seconds
    FailureThreshold,   \* settings.failure_threshold
    CircuitCooldown,    \* settings.circuit_cooldown_seconds
    CursorPeriod        \* round_robin_cursor is kept modulo this number

Profiles == 1 .. NumProfiles      \* self.states, in the order of the YAML file

ASSUME RequestsAssumption == IsFiniteSet(Requests)

\* What load_gateway_config accepts: positive limits, one profile enabled.
ASSUME ConfigAssumption ==
    /\ NumProfiles \in Nat \ {0}
    /\ Enabled \in SUBSET Profiles /\ Enabled # {}
    /\ MaxConc \in [Profiles -> Nat \ {0}]
    /\ {QueueSize, QueueTimeout, RateLimitCooldown,
        FailureThreshold, CircuitCooldown} \subseteq Nat \ {0}

\* The cursor is only used modulo the size of a set of tied profiles.
ASSUME CursorAssumption ==
    /\ CursorPeriod \in Nat \ {0}
    /\ \A k \in Profiles : CursorPeriod % k = 0

VARIABLES
    inflight,     \* ProfileState.inflight
    cooldown,     \* cooldown_until - clock(), 0 when it has passed
    disabled,     \* the profiles whose disabled_reason is set
    consecutive,  \* ProfileState.consecutive_failures
    requests,     \* ProfileState.requests
    successes,    \* ProfileState.successes
    failures,     \* ProfileState.failures
    waiting,      \* self.waiting
    cursor,       \* self.round_robin_cursor
    queue,        \* the tasks suspended in condition.wait()
    notified,     \* those of them notify_all() has made runnable
    deadline,     \* what is left of the queue timeout of a waiting task
    timer         \* what is left of its current wait_for()

profileVars == <<inflight, cooldown, disabled, consecutive,
                 requests, successes, failures, cursor>>
queueVars == <<waiting, queue, notified, deadline, timer>>
schedulerVars == <<inflight, cooldown, disabled, consecutive, requests,
                   successes, failures, cursor, waiting, queue, notified,
                   deadline, timer>>

Larger(a, b) == IF a >= b THEN a ELSE b
OneLess(n) == IF n > 0 THEN n - 1 ELSE 0

SchedulerInit ==
    /\ inflight = [p \in Profiles |-> 0]
    /\ cooldown = [p \in Profiles |-> 0]
    /\ disabled = {}
    /\ consecutive = [p \in Profiles |-> 0]
    /\ requests = [p \in Profiles |-> 0]
    /\ successes = [p \in Profiles |-> 0]
    /\ failures = [p \in Profiles |-> 0]
    /\ waiting = 0
    /\ cursor = 0
    /\ queue = {}
    /\ notified = {}
    /\ deadline = [r \in Requests |-> 0]
    /\ timer = [r \in Requests |-> 0]

----------------------------------------------------------------------------
(* _choose(excluded) *)

\* Mutant: one request too many is let in.
AvailableOffByOne(p) ==
    /\ p \in Enabled
    /\ p \notin disabled
    /\ cooldown[p] = 0
    /\ inflight[p] <= MaxConc[p]

Available(p) ==
    /\ p \in Enabled
    /\ p \notin disabled
    /\ cooldown[p] = 0
    /\ inflight[p] < MaxConc[p]

Candidates(excl) == {p \in Profiles \ excl : Available(p)}

\* inflight / max_concurrency of p is no larger than that of q.
NoMoreLoaded(p, q) == inflight[p] * MaxConc[q] <= inflight[q] * MaxConc[p]

Tied(excl) ==
    {p \in Candidates(excl) : \A q \in Candidates(excl) : NoMoreLoaded(p, q)}

\* p is tied[round_robin_cursor % len(tied)].
Chosen(p, excl) ==
    /\ p \in Tied(excl)
    /\ Cardinality({q \in Tied(excl) : q < p}) = cursor % Cardinality(Tied(excl))

\* The effect of a successful _choose and of the reservation that follows it.
Reserve(p) ==
    /\ inflight' = [inflight EXCEPT ![p] = @ + 1]
    /\ requests' = [requests EXCEPT ![p] = @ + 1]
    /\ cursor' = (cursor + 1) % CursorPeriod
    /\ UNCHANGED <<cooldown, disabled, consecutive, successes, failures>>

----------------------------------------------------------------------------
(* acquire(excluded) before the task has waited *)

AcquireNow(p, excl) ==
    /\ Chosen(p, excl)
    /\ Reserve(p)
    /\ UNCHANGED queueVars

QueueFull(excl) ==
    /\ Candidates(excl) = {}
    /\ waiting >= QueueSize
    /\ UNCHANGED schedulerVars

\* The delays until a profile the task may use comes out of its cooldown.
CooldownDelays(excl) ==
    {cooldown[p] : p \in {q \in Enabled \ (excl \union disabled) : cooldown[q] > 0}}

\* Mutant: the end of a cooldown does not wake anybody.
WaitTimeoutIgnoringCooldowns(t, remaining, excl) == t = remaining

\* t is min(remaining, min(cooldown_delays)).
IsWaitTimeout(t, remaining, excl) ==
    /\ t \in {remaining} \union CooldownDelays(excl)
    /\ \A d \in {remaining} \union CooldownDelays(excl) : t <= d

\* wait_for(condition.wait(), timeout=wait_timeout)
Suspend(r, remaining, excl) ==
    /\ notified' = notified \ {r}
    /\ deadline' = [deadline EXCEPT ![r] = remaining]
    /\ \E t \in {remaining} \union CooldownDelays(excl) :
          /\ IsWaitTimeout(t, remaining, excl)
          /\ timer' = [timer EXCEPT ![r] = t]
    /\ UNCHANGED profileVars

Enqueue(r, excl) ==
    /\ Candidates(excl) = {}
    /\ waiting < QueueSize
    /\ waiting' = waiting + 1
    /\ queue' = queue \union {r}
    /\ Suspend(r, QueueTimeout, excl)

----------------------------------------------------------------------------
(* acquire(excluded) when condition.wait() or its timeout has ended.  A    *)
(* task that was notified and whose timer has run out as well may see      *)
(* either one first.                                                       *)

\* The task reaches the second _choose.
Rechecks(r) ==
    /\ r \in queue
    /\ \/ r \in notified
       \/ timer[r] = 0 /\ deadline[r] > 0

\* finally: self.waiting -= 1
LeaveQueue(r) ==
    /\ waiting' = waiting - 1
    /\ queue' = queue \ {r}
    /\ notified' = notified \ {r}
    /\ deadline' = [deadline EXCEPT ![r] = 0]
    /\ timer' = [timer EXCEPT ![r] = 0]

AcquireAfterWait(r, p, excl) ==
    /\ Rechecks(r)
    /\ Chosen(p, excl)
    /\ Reserve(p)
    /\ LeaveQueue(r)

WaitAgain(r, excl) ==
    /\ Rechecks(r)
    /\ Candidates(excl) = {}
    /\ deadline[r] > 0
    /\ Suspend(r, deadline[r], excl)
    /\ UNCHANGED <<waiting, queue>>

\* Mutant: the task leaves the queue but stays counted.
WaitExpiresStillCounted(r, excl) ==
    /\ r \in queue
    /\ deadline[r] = 0 /\ timer[r] = 0
    /\ queue' = queue \ {r}
    /\ notified' = notified \ {r}
    /\ UNCHANGED <<profileVars, waiting, deadline, timer>>

\* Mutant: condition.wait() without a timeout.
WaitExpiresOnlyNotified(r, excl) ==
    /\ r \in queue
    /\ deadline[r] = 0
    /\ r \in notified /\ Candidates(excl) = {}
    /\ LeaveQueue(r)
    /\ UNCHANGED profileVars

\* QueueTimeoutError: from the handler of TimeoutError, which does not call
\* _choose again, or from the head of the loop after a vain notification.
WaitExpires(r, excl) ==
    /\ r \in queue
    /\ deadline[r] = 0
    /\ \/ timer[r] = 0
       \/ r \in notified /\ Candidates(excl) = {}
    /\ LeaveQueue(r)
    /\ UNCHANGED profileVars

----------------------------------------------------------------------------
(* release(state, outcome, latency) *)

Outcomes == {"success", "client_error", "rate_limit", "auth_failure",
             "connect_failure", "upstream_failure"}

CountsTowardsCircuit(outcome) == outcome \in {"connect_failure", "upstream_failure"}

OpensCircuit(p, outcome) ==
    /\ CountsTowardsCircuit(outcome)
    /\ consecutive[p] + 1 >= FailureThreshold

ConsecutiveAfter(p, outcome) ==
    CASE outcome = "success" -> 0
      [] outcome = "client_error" -> consecutive[p]
      [] OpensCircuit(p, outcome) -> 0
      [] OTHER -> consecutive[p] + 1

\* Mutant: a rate limit overwrites a longer cooldown.
CooldownAfterOverwriting(p, outcome) ==
    CASE outcome = "rate_limit" -> RateLimitCooldown
      [] OpensCircuit(p, outcome) -> Larger(cooldown[p], CircuitCooldown)
      [] OTHER -> cooldown[p]

CooldownAfter(p, outcome) ==
    CASE outcome = "rate_limit" -> Larger(cooldown[p], RateLimitCooldown)
      [] OpensCircuit(p, outcome) -> Larger(cooldown[p], CircuitCooldown)
      [] OTHER -> cooldown[p]

\* Mutant: a client error is not counted.
CountsServerFailures(outcome) == outcome \notin {"success", "client_error"}

CountsAsFailure(outcome) == outcome # "success"

\* The profile's part of release().
Settled(p, outcome) ==
    /\ inflight' = [inflight EXCEPT ![p] = OneLess(@)]
    /\ consecutive' = [consecutive EXCEPT ![p] = ConsecutiveAfter(p, outcome)]
    /\ cooldown' = [cooldown EXCEPT ![p] = CooldownAfter(p, outcome)]
    /\ disabled' = IF outcome = "auth_failure" THEN disabled \union {p} ELSE disabled
    /\ successes' = [successes EXCEPT ![p] = IF outcome = "success" THEN @ + 1 ELSE @]
    /\ failures' = [failures EXCEPT ![p] = IF CountsAsFailure(outcome) THEN @ + 1 ELSE @]
    /\ UNCHANGED <<requests, cursor>>

\* Mutant: release() wakes nobody.
NotifyNobody == UNCHANGED notified

\* condition.notify_all()
NotifyAll == notified' = queue

Release(p, outcome) ==
    /\ Settled(p, outcome)
    /\ NotifyAll
    /\ UNCHANGED <<waiting, queue, deadline, timer>>

----------------------------------------------------------------------------
(* The clock moves on: every running countdown loses one unit.             *)

Tick ==
    /\ \/ \E p \in Profiles : cooldown[p] > 0
       \/ \E r \in queue : deadline[r] > 0
    /\ cooldown' = [p \in Profiles |-> OneLess(cooldown[p])]
    /\ deadline' = [r \in Requests |-> OneLess(deadline[r])]
    /\ timer' = [r \in Requests |-> OneLess(timer[r])]
    /\ UNCHANGED <<inflight, disabled, consecutive, requests, successes,
                   failures, cursor, waiting, queue, notified>>
=============================================================================
