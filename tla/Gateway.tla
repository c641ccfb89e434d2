------------------------------ MODULE Gateway ------------------------------
(***************************************************************************)
(* class GatewayApplication of api_gateway.py over its CapacityScheduler:  *)
(* one task per HTTP request, from the arrival of a chat completion to the *)
(* last message of the response, with the retries of _proxy() over the     *)
(* upstream profiles.  A step is the code between two awaits.              *)
(***************************************************************************)
EXTENDS CapacityScheduler

CONSTANTS
    MaxAttempts,   \* settings.max_attempts
    Streaming,     \* the requests whose payload has "stream": true
    Unbuildable    \* the requests client.build_request() raises for

ASSUME AttemptsAssumption == MaxAttempts \in Nat \ {0}

ASSUME PayloadAssumption ==
    Streaming \subseteq Requests /\ Unbuildable \subseteq Requests

NoProfile == 0

VARIABLES
    pc,         \* where the task of a request is suspended
    held,       \* `state` while its slot has not been released
    excluded,   \* `excluded`
    attempts,   \* how often the loop of _proxy has called the upstream
    status,     \* `last_status`, then the status sent to the client
    starts,     \* http.response.start messages sent
    ends        \* http.response.body messages with more_body False sent

proxyVars == <<pc, held, excluded, attempts, status, starts, ends>>
vars == <<schedulerVars, proxyVars>>

Locations == {"new", "attempt", "waiting", "upstream", "replying", "settling",
              "final", "final_body", "done", "crashed"}

\* How an upstream attempt that is retried ends, and the outcome it releases
\* its slot with: 429; 502, 503 or 504; 401 or 403; a ConnectError; any other
\* TransportError before the response has started.
RetriedOutcome == [rate_limited   |-> "rate_limit",
                   upstream_error |-> "upstream_failure",
                   unauthorized   |-> "auth_failure",
                   connect_failed |-> "connect_failure",
                   read_failed    |-> "upstream_failure"]

\* The final statuses of an upstream answer that is passed on: 2xx, and any
\* status that is neither 2xx nor retried.
RelayedOutcome == [ok |-> "success", client_error |-> "client_error"]

\* What the gateway answers itself: 503 without an upstream, 400/401/404/413,
\* 429 queue full, 503 queue timeout, 504 upstream timeout.
OwnStatuses == {"no_upstream", "rejected", "queue_full", "queue_timeout",
                "gateway_timeout"}

Statuses == OwnStatuses \union DOMAIN RetriedOutcome \union DOMAIN RelayedOutcome

Init ==
    /\ SchedulerInit
    /\ pc = [r \in Requests |-> "new"]
    /\ held = [r \in Requests |-> NoProfile]
    /\ excluded = [r \in Requests |-> {}]
    /\ attempts = [r \in Requests |-> 0]
    /\ status = [r \in Requests |-> "no_upstream"]
    /\ starts = [r \in Requests |-> 0]
    /\ ends = [r \in Requests |-> 0]

Goto(r, from, to) == pc[r] = from /\ pc' = [pc EXCEPT ![r] = to]
Answer(r, s) == status' = [status EXCEPT ![r] = s]

----------------------------------------------------------------------------
(* __call__ *)

\* An authorised POST with a JSON object: _proxy starts.
Accept(r) ==
    /\ Goto(r, "new", "attempt")
    /\ UNCHANGED <<schedulerVars, held, excluded, attempts, status, starts, ends>>

\* Unknown path, wrong token, oversized or malformed body.
Reject(r) ==
    /\ Goto(r, "new", "final")
    /\ Answer(r, "rejected")
    /\ UNCHANGED <<schedulerVars, held, excluded, attempts, starts, ends>>

----------------------------------------------------------------------------
(* _proxy: the head of the loop and acquire() *)

MayAttempt(r) ==
    /\ pc[r] = "attempt"
    /\ attempts[r] < MaxAttempts
    /\ ~ Profiles \subseteq excluded[r]

\* The loop is exhausted, or every profile has been tried: last_status is sent.
GiveUp(r) ==
    /\ ~ MayAttempt(r)
    /\ Goto(r, "attempt", "final")
    /\ UNCHANGED <<schedulerVars, held, excluded, attempts, status, starts, ends>>

\* Mutant: the profile is not excluded from the next attempt.
CallUpstreamAgain(r, p) ==
    /\ held' = [held EXCEPT ![r] = p]
    /\ attempts' = [attempts EXCEPT ![r] = @ + 1]
    /\ pc' = [pc EXCEPT ![r] = IF r \in Unbuildable THEN "crashed" ELSE "upstream"]
    /\ UNCHANGED <<excluded, status, starts, ends>>

\* acquire() returns p and build_request() runs before the next await.  It is
\* outside the try block: when it raises, nothing releases the slot.
CallUpstream(r, p) ==
    /\ held' = [held EXCEPT ![r] = p]
    /\ excluded' = [excluded EXCEPT ![r] = @ \union {p}]
    /\ attempts' = [attempts EXCEPT ![r] = @ + 1]
    /\ pc' = [pc EXCEPT ![r] = IF r \in Unbuildable THEN "crashed" ELSE "upstream"]
    /\ UNCHANGED <<status, starts, ends>>

AttemptNow(r, p) ==
    /\ MayAttempt(r)
    /\ AcquireNow(p, excluded[r])
    /\ CallUpstream(r, p)

RefuseFull(r) ==
    /\ MayAttempt(r)
    /\ QueueFull(excluded[r])
    /\ Goto(r, "attempt", "final")
    /\ Answer(r, "queue_full")
    /\ UNCHANGED <<held, excluded, attempts, starts, ends>>

WaitForCapacity(r) ==
    /\ MayAttempt(r)
    /\ Enqueue(r, excluded[r])
    /\ Goto(r, "attempt", "waiting")
    /\ UNCHANGED <<held, excluded, attempts, status, starts, ends>>

AttemptAfterWait(r, p) ==
    /\ pc[r] = "waiting"
    /\ AcquireAfterWait(r, p, excluded[r])
    /\ CallUpstream(r, p)

KeepWaiting(r) ==
    /\ pc[r] = "waiting"
    /\ WaitAgain(r, excluded[r])
    /\ UNCHANGED proxyVars

GiveUpWaiting(r) ==
    /\ WaitExpires(r, excluded[r])
    /\ Goto(r, "waiting", "final")
    /\ Answer(r, "queue_timeout")
    /\ UNCHANGED <<held, excluded, attempts, starts, ends>>

----------------------------------------------------------------------------
(* _proxy: the upstream call *)

ReleaseSlot(r, outcome) ==
    /\ Release(held[r], outcome)
    /\ held' = [held EXCEPT ![r] = NoProfile]

\* A retryable status, a refused credential, a connection or read error
\* before the response has started: release, then the next attempt.
Retry(r, s) ==
    /\ Goto(r, "upstream", "attempt")
    /\ ReleaseSlot(r, RetriedOutcome[s])
    /\ Answer(r, s)
    /\ UNCHANGED <<excluded, attempts, starts, ends>>

\* httpx.TimeoutException before the response has started: 504, no retry.
UpstreamTimesOut(r) ==
    /\ Goto(r, "upstream", "final")
    /\ ReleaseSlot(r, "upstream_failure")
    /\ Answer(r, "gateway_timeout")
    /\ UNCHANGED <<excluded, attempts, starts, ends>>

\* The status line is passed on: after the whole body has been read, or, for
\* a stream, before.
StartReply(r, s) ==
    /\ Goto(r, "upstream", "replying")
    /\ Answer(r, s)
    /\ starts' = [starts EXCEPT ![r] = @ + 1]
    /\ UNCHANGED <<schedulerVars, held, excluded, attempts, ends>>

EndReply(r) ==
    /\ Goto(r, "replying", "settling")
    /\ ends' = [ends EXCEPT ![r] = @ + 1]
    /\ UNCHANGED <<schedulerVars, held, excluded, attempts, status, starts>>

\* The slot is released after the client has the whole response.
Settle(r) ==
    /\ Goto(r, "settling", "done")
    /\ ReleaseSlot(r, RelayedOutcome[status[r]])
    /\ UNCHANGED <<excluded, attempts, status, starts, ends>>

\* Mutant: a broken stream is answered with an error response.
StreamBreaksIntoError(r) ==
    /\ r \in Streaming
    /\ Goto(r, "replying", "final")
    /\ ReleaseSlot(r, "upstream_failure")
    /\ UNCHANGED <<excluded, attempts, status, starts, ends>>

\* A timeout or a TransportError in aiter_bytes(), the response has started:
\* release, then an empty last body message.
StreamBreaks(r) ==
    /\ r \in Streaming
    /\ Goto(r, "replying", "final_body")
    /\ ReleaseSlot(r, "upstream_failure")
    /\ UNCHANGED <<excluded, attempts, status, starts, ends>>

----------------------------------------------------------------------------
(* _json_response, and the two messages after the loop of _proxy *)

SendFinalStart(r) ==
    /\ Goto(r, "final", "final_body")
    /\ starts' = [starts EXCEPT ![r] = @ + 1]
    /\ UNCHANGED <<schedulerVars, held, excluded, attempts, status, ends>>

SendFinalBody(r) ==
    /\ Goto(r, "final_body", "done")
    /\ ends' = [ends EXCEPT ![r] = @ + 1]
    /\ UNCHANGED <<schedulerVars, held, excluded, attempts, status, starts>>

----------------------------------------------------------------------------
(* Any other exception at an await: a body that cannot be decoded, a send  *)
(* that fails, the task cancelled.  The finally blocks of acquire() and    *)
(* _proxy() run; the gateway sends nothing more.                           *)

\* Mutant: no finally block around the upstream call.
AbortKeepingSlot(r) ==
    /\ pc[r] \in {"upstream", "replying", "settling"}
    /\ pc' = [pc EXCEPT ![r] = "crashed"]
    /\ UNCHANGED <<schedulerVars, held, excluded, attempts, status, starts, ends>>

AbortHolding(r) ==
    /\ pc[r] \in {"upstream", "replying", "settling"}
    /\ pc' = [pc EXCEPT ![r] = "crashed"]
    /\ ReleaseSlot(r, "upstream_failure")
    /\ UNCHANGED <<excluded, attempts, status, starts, ends>>

AbortWaiting(r) ==
    /\ Goto(r, "waiting", "crashed")
    /\ LeaveQueue(r)
    /\ UNCHANGED <<profileVars, held, excluded, attempts, status, starts, ends>>

AbortSending(r) ==
    /\ pc[r] \in {"attempt", "final", "final_body"}
    /\ pc' = [pc EXCEPT ![r] = "crashed"]
    /\ UNCHANGED <<schedulerVars, held, excluded, attempts, status, starts, ends>>

----------------------------------------------------------------------------

Acquires(r) ==
    \/ \E p \in Profiles : AttemptNow(r, p) \/ AttemptAfterWait(r, p)
    \/ RefuseFull(r)
    \/ WaitForCapacity(r)
    \/ KeepWaiting(r)
    \/ GiveUpWaiting(r)
    \/ GiveUp(r)

Replies(r) ==
    \/ \E s \in DOMAIN RelayedOutcome : StartReply(r, s)
    \/ EndReply(r)
    \/ SendFinalStart(r)
    \/ SendFinalBody(r)

Releases(r) ==
    \/ \E s \in DOMAIN RetriedOutcome : Retry(r, s)
    \/ UpstreamTimesOut(r)
    \/ Settle(r)
    \/ StreamBreaks(r)

Aborts(r) == AbortHolding(r) \/ AbortWaiting(r) \/ AbortSending(r)

Arrives(r) == Accept(r) \/ Reject(r)

\* What the event loop and the upstream owe a request that has arrived.
Proceeds(r) == Acquires(r) \/ Replies(r) \/ Releases(r)

TickStep == Tick /\ UNCHANGED proxyVars

\* Every request has been dealt with; any other state without a step is a
\* deadlock.
Finished ==
    /\ \A r \in Requests : pc[r] \in {"done", "crashed"}
    /\ UNCHANGED vars

Next ==
    \/ \E r \in Requests : Arrives(r) \/ Proceeds(r) \/ Aborts(r)
    \/ TickStep
    \/ Finished

Spec == Init /\ [][Next]_vars

\* A runnable task runs, the clock moves, and an upstream call ends: each of
\* its operations has upstream_timeout_seconds.
FairSpec ==
    /\ Spec
    /\ \A r \in Requests : WF_vars(Proceeds(r))
    /\ WF_vars(TickStep)

----------------------------------------------------------------------------
(* What the gateway guarantees *)

\* Type correctness of the scheduler and of the request handler.
TypeOK ==
    /\ inflight \in [Profiles -> Nat]
    /\ cooldown \in [Profiles -> Nat]
    /\ disabled \subseteq Profiles
    /\ consecutive \in [Profiles -> Nat]
    /\ requests \in [Profiles -> Nat]
    /\ successes \in [Profiles -> Nat]
    /\ failures \in [Profiles -> Nat]
    /\ waiting \in Int
    /\ cursor \in 0 .. CursorPeriod - 1
    /\ queue \subseteq Requests
    /\ notified \subseteq Requests
    /\ deadline \in [Requests -> Nat]
    /\ timer \in [Requests -> Nat]
    /\ pc \in [Requests -> Locations]
    /\ held \in [Requests -> Profiles \union {NoProfile}]
    /\ excluded \in [Requests -> SUBSET Profiles]
    /\ attempts \in [Requests -> Nat]
    /\ status \in [Requests -> Statuses]
    /\ starts \in [Requests -> Nat]
    /\ ends \in [Requests -> Nat]

\* The requests that have reserved a slot of p and not released it.
Holders(p) == {r \in Requests : held[r] = p}

\* "Selection and slot reservation are atomic, so a profile never exceeds its
\* configured hard limit": whatever the interleaving of acquire() and
\* release(), inflight counts the requests that hold a slot of the profile and
\* stays within max_concurrency.
CapacityRespected ==
    \A p \in Profiles :
        /\ inflight[p] = Cardinality(Holders(p))
        /\ inflight[p] <= MaxConc[p]

\* self.waiting is the number of tasks in the queue on every path out of
\* acquire(), and the queue keeps its bound.
QueueBounded ==
    /\ queue = {r \in Requests : pc[r] = "waiting"}
    /\ waiting = Cardinality(queue)
    /\ waiting <= QueueSize

\* Both limits of the scheduler, and the counters they are tested with: a wait
\* that ends by its timer must leave the queue once and hold no slot, also when
\* a release() served it in the same iteration of the loop.
LimitsRespected == CapacityRespected /\ QueueBounded

\* acquire() sleeps only while it must: a waiting task that could be served
\* has been notified or its timer has run out, whether the capacity came from
\* a release() or from the end of a cooldown that nothing announces.
NoLostWakeup ==
    \A r \in queue : Candidates(excluded[r]) # {} => r \in notified \/ timer[r] = 0

\* "When every profile is full, requests wait": an undisturbed waiter is one
\* whose every usable profile is busy with requests that are still running.
WaitsOnlyWhenFull ==
    \A r \in queue \ notified : timer[r] > 0 =>
        \A p \in Enabled \ (excluded[r] \union disabled) :
            \/ cooldown[p] > 0
            \/ Cardinality({q \in Holders(p) : pc[q] # "crashed"}) >= MaxConc[p]

\* Whatever way a request ends, release() has run for the slot it held: the
\* finally block of _proxy covers every exit.
SlotsReturned ==
    \A r \in Requests : pc[r] \in {"attempt", "waiting", "final", "done", "crashed"}
                           => held[r] = NoProfile

\* The counters of /admin/status balance: every reserved slot is in flight or
\* has been settled exactly once.
StatisticsBalance ==
    \A p \in Profiles : requests[p] = successes[p] + failures[p] + inflight[p]

\* The retries of _proxy go to distinct profiles and stay within max_attempts,
\* through any sequence of waits and failures.
DistinctAttempts ==
    \A r \in Requests :
        /\ attempts[r] = Cardinality(excluded[r])
        /\ attempts[r] <= MaxAttempts
        /\ held[r] # NoProfile => held[r] \in excluded[r]

\* The client gets one response: at most one start and one last body message,
\* in this order, and both once the handler returns normally; in particular
\* no error answer follows a response that has started.
OneResponse ==
    \A r \in Requests :
        /\ ends[r] <= starts[r] /\ starts[r] <= 1
        /\ pc[r] = "done" => ends[r] = 1

\* Only the clock brings a profile out of its cooldown: neither a later
\* rate limit nor a circuit that opens during it shortens what is left.
CooldownNeverShortened ==
    [][\A p \in Profiles : cooldown'[p] < cooldown[p] => TickStep]_vars

\* The abstract pool: a slot is lent while its release() is outstanding, and
\* the answer is what the client has seen of the response.
Pool == INSTANCE CapacityPool WITH
    Limit <- MaxConc,
    lent <- held,
    tried <- excluded,
    answer <- [r \in Requests |-> IF ends[r] > 0 THEN "complete"
                                  ELSE IF starts[r] > 0 THEN "started" ELSE "none"]

\* The gateway implements the pool: the scheduler, its queue and the retries
\* only ever borrow, give back and answer.
ImplementsPool == Pool!SafePool

\* Every request that arrives is dealt with: no task waits forever for a
\* slot, whatever the profiles do.
EveryRequestEnds ==
    \A r \in Requests : pc[r] # "new" ~> pc[r] \in {"done", "crashed"}
=============================================================================
