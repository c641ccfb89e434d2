------------------------------- MODULE Fuzzer -------------------------------
(***************************************************************************)
(* The fuzzing campaign of AFLNet and ChatAFL (afl-fuzz.c, state-aware     *)
(* mode): the dry run of the initial seeds, the choice of a target state   *)
(* and of a seed, the executions of one seed, what is kept of each, and    *)
(* the signals that stop or skip.  It composes the queue with the learnt   *)
(* state machine.                                                          *)
(*                                                                         *)
(* An execution is one atomic step with a result out of Results: its       *)
(* fault, its trace and the server's responses.  Execution.tla models what *)
(* happens inside it.                                                      *)
(***************************************************************************)
EXTENDS SeedQueue, StateTargets

CONSTANTS
    Results,         \* [fault, trace, codes, annotations, factor] of a run
    InitialSeeds,    \* the number of regions of each seed of read_testcases
    StateMode,       \* state_selection_algo
    SeedMode,        \* seed_selection_algo
    FewSeeds,        \* 10: with more seeds of a state, FAVOR looks at them
    FewPaths,        \* 10: with more entries, others than favored are skipped
    TmoutLimit,      \* TMOUT_LIMIT
    StallThreshold,  \* UNINTERESTING_THRESHOLD
    ChatThreshold,   \* CHATTING_THRESHOLD
    KeepHangs,       \* KEEP_UNIQUE_HANG
    KeepCrashes,     \* KEEP_UNIQUE_CRASH
    SkipTimeouts,    \* -t N+
    SkipCrashes      \* AFL_SKIP_CRASHES

ASSUME FuzzerAssumption ==
    /\ Results \subseteq [fault : {"none", "tmout", "crash", "error"},
                          trace : [Bytes -> SUBSET Bits], factor : Nat,
                          codes : Seq(States), annotations : Seq(Seq(States))]
    /\ {StateMode, SeedMode} \subseteq {"random", "round_robin", "favor"}
    /\ InitialSeeds \in Seq(Nat \ {0}) \ {<<>>}
    /\ {FewSeeds, FewPaths, TmoutLimit, StallThreshold, ChatThreshold,
        KeepHangs, KeepCrashes} \subseteq Nat
    /\ {SkipTimeouts, SkipCrashes} \subseteq BOOLEAN

VARIABLES
    phase,           \* "dry_run", "select", "stall", "fuzz", "abandon", "sync", "ended", "aborted"
    cur,             \* dry run: the next seed; else queue_cur, or 0
    stopSoon, skipRequested,
    subseqTmouts, uninterestingTimes, chatTimes,
    virginTmout, virginCrash, hangs, crashes

signals == <<stopSoon, skipRequested>>
limits == <<subseqTmouts, uninterestingTimes, chatTimes>>
samples == <<virginTmout, virginCrash, hangs, crashes>>
vars == <<queueVars, targetVars, phase, cur, signals, limits, samples>>

Clean == {r \in Results : r.fault = "none"}
Row(tgt) == fuzzedMap[get_state_index(stateIds, tgt) + 1]

----------------------------------------------------------------------------
(* Runs, their responses and calibration *)

\* What update_state_aware_variables makes of the entry: the count of states
\* and the annotations of the regions whose messages were sent.
Annotated(e, r) ==
    IF r.codes = <<>> THEN e
    ELSE [e EXCEPT !.uniqueStates = get_unique_state_count(r.codes),
                   !.regions = [i \in DOMAIN @ |-> IF i <= Len(r.annotations)
                                                   THEN r.annotations[i] ELSE @[i]]]

\* The rest of the call for the entry e at q; nothing without a response.
Learn(q, e, r, map) ==
    IF r.codes = <<>>
    THEN fuzzedMap' = map /\ UNCHANGED <<machine, seeds, nextSeed>>
    ELSE update_state_aware_variables(q, r.codes, Annotated(e, r).regions, map)

\* The score of an entry whose calibration succeeds.
Rated(entries, q, last) ==
    update_bitmap_score([entries EXCEPT ![q].calFailed = 0, ![q].factor = last.factor],
                        topRated, q, last.trace)
\* calibrate_case: some clean runs with the results of seen, of which the last
\* rates the entry; or, after them, a run that fails or is stopped.
Calibrated(entries, q, last) ==
    IF last.fault = "none" THEN Rated(entries, q, last)
    ELSE [entries |-> [entries EXCEPT ![q].calFailed = @ + 1], top |-> topRated, changed |-> FALSE]

CalibrationRuns(seen, last) == last.fault = "none" => last \in seen

Rates(c, seen) ==
    /\ topRated' = c.top /\ scoreChanged' = (scoreChanged \/ c.changed)
    /\ virgin' = [b \in Bytes |-> virgin[b] \ UNION {r.trace[b] : r \in seen}]
    /\ UNCHANGED <<queuedFavored, pendingFavored>>

----------------------------------------------------------------------------
(* The dry run *)

\* A seed from the file of a number of regions, before it has ever run.
SeedRead(regions) == [NewEntry(0) EXCEPT !.regions = [i \in 1..regions |-> <<>>]]

Init ==
    /\ TargetsInit
    /\ QueueInit([i \in DOMAIN InitialSeeds |-> SeedRead(InitialSeeds[i])])
    /\ fuzzedMap = <<[i \in DOMAIN InitialSeeds |-> Unreachable]>>
    /\ phase = "dry_run" /\ cur = 1
    /\ stopSoon = FALSE /\ skipRequested = FALSE
    /\ subseqTmouts = 0 /\ uninterestingTimes = 0 /\ chatTimes = 0
    /\ virginTmout = Pristine /\ virginCrash = Pristine /\ hangs = 0 /\ crashes = 0

CalChances == 3
IsSkipped(fault) ==
    \/ fault = "tmout" /\ SkipTimeouts
    \/ fault = "crash" /\ SkipCrashes

\* perform_dry_run for one seed; a stop leaves the loop.
DryRun ==
    /\ phase = "dry_run" /\ cur \in DOMAIN queue
    /\ \E seen \in SUBSET Clean, last \in Results :
          LET c == Calibrated([queue EXCEPT ![cur].initial = TRUE], cur, last)
              skipped == IsSkipped(last.fault) /\ ~ stopSoon
              e == Annotated(c.entries[cur], last)
          IN /\ CalibrationRuns(seen, last)
             /\ queue' = [c.entries EXCEPT ![cur] =
                              [e EXCEPT !.calFailed = IF skipped THEN CalChances ELSE @]]
             /\ Rates(c, seen)
             /\ Learn(cur, queue[cur], last, fuzzedMap)
             /\ phase' = IF last.fault = "none" \/ skipped \/ stopSoon THEN phase ELSE "aborted"
             /\ cur' = IF stopSoon THEN Len(queue) + 1 ELSE cur + 1
    /\ UNCHANGED <<pendingNotFuzzed, choice, signals, limits, samples>>

\* The favored seeds are marked before the first target is chosen.
StartFuzzing ==
    /\ phase = "dry_run" /\ cur > Len(queue)
    /\ cull_queue(target, Row(target))
    /\ phase' = IF stopSoon THEN "ended"
                ELSE IF \A q \in DOMAIN queue : queue[q].calFailed = CalChances
                     THEN "aborted" ELSE "select"
    /\ cur' = 0
    /\ UNCHANGED <<topRated, pendingNotFuzzed, virgin, targetVars, signals, limits, samples>>

----------------------------------------------------------------------------
(* The choice of the state and the seed *)

ModeRandom(s, q, next) ==
    \E i \in DOMAIN seeds[s] : q = seeds[s][i] /\ next = i - 1

ModeRoundRobin(s, q, next) ==
    q = seeds[s][nextSeed[s] + 1] /\ next = NextIndex(nextSeed[s], Len(seeds[s]))

\* With many seeds the list is walked: a seed may be skipped with a certain
\* probability, is taken for certain when it is favored, not fuzzed for this
\* state and at home in it, and is never taken when no favored seed is pending
\* and it is favored itself or the queue is small.  Five rounds without a
\* choice end with the last seed.
MayTake(q) == pendingFavored' # 0 \/ (~ queue'[q].favored /\ Len(queue) > FewPaths)
MustTake(s, q) ==
    /\ pendingFavored' # 0
    /\ queue'[q].generating = s \/ queue'[q].initial
    /\ Row(s)[q] # 1 /\ queue'[q].favored

ModeFavor(s, q, next) ==
    LET n == Len(seeds[s])
        at(k) == seeds[s][((nextSeed[s] + k) % n) + 1]
    IN IF n <= FewSeeds THEN ModeRoundRobin(s, q, next)
       ELSE \/ \E k \in 0..(n - 1) :
                  /\ q = at(k) /\ MayTake(q)
                  /\ \A j \in 0..(k - 1) : ~ MustTake(s, at(j))
                  /\ next = (nextSeed[s] + k + 1) % n
            \/ /\ \A k \in 0..(n - 1) : ~ MustTake(s, at(k))
               /\ q = seeds[s][n] /\ next = 0

\* No seed for a state that none reaches; else q, and the index that follows.
choose_seed(s, q) ==
    IF seeds[s] = <<>> THEN q = Nobody /\ UNCHANGED nextSeed
    ELSE \E next \in 0..(Len(seeds[s]) - 1) :
            /\ CASE SeedMode = "random" -> ModeRandom(s, q, next)
                 [] SeedMode = "round_robin" -> ModeRoundRobin(s, q, next)
                 [] SeedMode = "favor" -> ModeFavor(s, q, next)
            /\ nextSeed' = [nextSeed EXCEPT ![s] = next]

\* The regions M2 of a seed that are mutated for the target: from the one
\* after the first that ends in the target, those with as many codes as it.
\* None when a region before has no codes or none is left.
LeadingAlike(regions, from) ==
    {i \in from..Len(regions) :
        \A j \in from..i : Len(regions[j]) = Len(regions[from])}

M2Regions(regions, tgt) ==
    IF tgt = 0 THEN LeadingAlike(regions, 1)
    ELSE LET ends == {i \in DOMAIN regions :
                        /\ regions[i] # <<>> /\ Last(regions[i]) = tgt
                        /\ \A j \in 1..i : regions[j] # <<>>}
         IN IF ends = {} THEN {}
            ELSE LeadingAlike(regions, (CHOOSE i \in ends : \A j \in ends : i <= j) + 1)

IsStalled == uninterestingTimes >= StallThreshold /\ chatTimes < ChatThreshold

\* One round of the loop that looks for a state and a seed with regions, and
\* the head of fuzz_one, which gives the seed up when it has no M2.
SelectSeed ==
    /\ phase = "select"
    /\ choose_target_state(StateMode)
    /\ cull_queue(target', Row(target'))
    /\ \E q \in {Nobody} \union DOMAIN queue :
          /\ choose_seed(target', q)
          /\ IF q = Nobody \/ queue[q].regions = <<>>
             THEN UNCHANGED <<phase, cur, subseqTmouts>>
             ELSE /\ cur' = q /\ subseqTmouts' = 0
                  /\ phase' = IF M2Regions(queue[q].regions, target') = {}
                              THEN (IF stopSoon THEN "ended" ELSE phase)
                              ELSE IF IsStalled THEN "stall" ELSE "fuzz"
    /\ UNCHANGED <<topRated, pendingNotFuzzed, virgin, machine, seeds, fuzzedMap,
                   signals, uninterestingTimes, chatTimes, samples>>

----------------------------------------------------------------------------
(* What is kept of a run: save_if_interesting *)

NotQueued == UNCHANGED <<queueVars, machine, seeds, nextSeed, fuzzedMap>>

\* A run with new coverage becomes an entry, generated for the target, and is
\* calibrated at once; its states are learnt before.
Enqueue(r, after) ==
    LET q == Len(queue) + 1
        e == [NewEntry(target) EXCEPT !.regions = [i \in DOMAIN r.annotations |-> <<>>]]
    IN /\ has_new_bits(r.trace, virgin) # 0
       /\ \E seen \in SUBSET Clean, last \in Results :
             LET c == Calibrated(Append(queue, Annotated(e, r)), q, last)
             IN /\ CalibrationRuns(seen, last)
                /\ queue' = c.entries
                /\ Rates(c, seen \union {r})
                /\ phase' = IF last.fault = "error" THEN "aborted" ELSE after
       /\ pendingNotFuzzed' = (pendingNotFuzzed + 1) % CounterRange
       /\ Learn(q, e, r, NewColumn(fuzzedMap))
       /\ UNCHANGED samples

\* A crash is saved when its simplified trace is new to the map of crashes.
KeepCrash(trace) ==
    LET t == simplify_trace(trace)
        new == crashes < KeepCrashes /\ has_new_bits(t, virginCrash) # 0
    IN /\ virginCrash' = IF crashes < KeepCrashes THEN Seen(t, virginCrash) ELSE virginCrash
       /\ crashes' = IF new THEN crashes + 1 ELSE crashes

\* A hang with a new trace is run again with more time, and saved when it hangs
\* again; when it crashes it is a crash.
KeepHang(trace) ==
    LET t == simplify_trace(trace)
    IN IF hangs >= KeepHangs \/ has_new_bits(t, virginTmout) = 0
       THEN /\ virginTmout' = IF hangs >= KeepHangs THEN virginTmout ELSE Seen(t, virginTmout)
            /\ UNCHANGED <<hangs, virginCrash, crashes>>
       ELSE /\ virginTmout' = Seen(t, virginTmout)
            /\ \E again \in Results :
                  IF again.fault = "crash" THEN KeepCrash(again.trace) /\ UNCHANGED hangs
                  ELSE /\ hangs' = hangs + (IF again.fault = "tmout" THEN 1 ELSE 0)
                       /\ UNCHANGED <<virginCrash, crashes>>

\* Whether the run is kept in the queue.
Keeps(r) == r.fault = "none" /\ has_new_bits(r.trace, virgin) # 0

\* The phase after it is after, unless the target cannot be executed.
save_if_interesting(r, after) ==
    \/ Keeps(r) /\ Enqueue(r, after)
    \/ /\ ~ Keeps(r) /\ NotQueued
       /\ phase' = IF r.fault = "error" THEN "aborted" ELSE after
       /\ CASE r.fault = "tmout" -> KeepHang(r.trace)
            [] r.fault = "crash" -> KeepCrash(r.trace) /\ UNCHANGED <<virginTmout, hangs>>
            [] OTHER -> UNCHANGED samples

----------------------------------------------------------------------------
(* Executions of the selected seed *)

\* uninteresting_times matters up to the threshold only.
Uninteresting(r, times) ==
    IF Keeps(r) THEN 0 ELSE IF times < StallThreshold THEN times + 1 ELSE times

\* common_fuzz_stuff after the run: the seed is abandoned on a stop, on too
\* many timeouts in a row or when the user asks for it; else the run is kept
\* when it is of interest.
common_fuzz_stuff(r, times) ==
    LET late == r.fault = "tmout" /\ subseqTmouts > TmoutLimit
    IN /\ subseqTmouts' = IF stopSoon \/ late THEN subseqTmouts
                          ELSE IF r.fault = "tmout" THEN subseqTmouts + 1 ELSE 0
       /\ skipRequested' = (skipRequested /\ (stopSoon \/ late))
       /\ IF stopSoon \/ late \/ skipRequested
          THEN /\ phase' = "abandon" /\ uninterestingTimes' = times
               /\ NotQueued /\ UNCHANGED samples
          ELSE /\ save_if_interesting(r, "fuzz")
               /\ uninterestingTimes' = Uninteresting(r, times)

Execute ==
    /\ phase = "fuzz"
    /\ \E r \in Results : common_fuzz_stuff(r, uninterestingTimes)
    /\ UNCHANGED <<cur, choice, stopSoon, chatTimes>>

\* The seed is stalled: a language model is asked for the next message when
\* the responses of the seed were saved, and its answer, if any, is run.
AskModel ==
    /\ phase = "stall"
    /\ \/ /\ phase' = "fuzz" /\ uninterestingTimes' = 0
          /\ chatTimes' \in {chatTimes, chatTimes + 1}
          /\ NotQueued /\ UNCHANGED <<samples, subseqTmouts, skipRequested>>
       \/ /\ chatTimes' = chatTimes + 1
          /\ \E r \in Results : common_fuzz_stuff(r, 0)
    /\ UNCHANGED <<cur, choice, stopSoon>>

\* All stages are done, or the seed is abandoned.  The seed is marked and counted
\* off for the target of the first time that it gets here, and never again: a visit
\* for another state leaves no mark.
\* Mutant: the entry is counted off at every visit.
FirstVisitForgotten(q) == ~ stopSoon /\ queue[q].calFailed = 0
FirstVisit(q) == ~ stopSoon /\ queue[q].calFailed = 0 /\ ~ queue[q].wasFuzzed

\* The test of stop_soon after fuzz_one, and whether sync_fuzzers is due.
\* Mutant: the stop is not looked at.
AfterSeedAnyway == IF phase = "fuzz" THEN {"sync", "select"} ELSE {"select"}
AfterSeed == IF stopSoon THEN {"ended"} ELSE IF phase = "fuzz" THEN {"sync", "select"} ELSE {"select"}

LeaveSeed ==
    /\ phase \in {"fuzz", "abandon"}
    /\ IF FirstVisit(cur)
       THEN /\ queue' = [queue EXCEPT ![cur].wasFuzzed = TRUE]
            /\ fuzzedMap' = [fuzzedMap EXCEPT ![get_state_index(stateIds, target) + 1][cur] = 1]
            /\ pendingNotFuzzed' = Decremented(pendingNotFuzzed)
            /\ pendingFavored' = IF queue[cur].favored THEN Decremented(pendingFavored)
                                 ELSE pendingFavored
       ELSE UNCHANGED <<queue, fuzzedMap, pendingNotFuzzed, pendingFavored>>
    /\ phase' \in AfterSeed
    /\ UNCHANGED <<topRated, scoreChanged, queuedFavored, virgin, machine, seeds, nextSeed,
                   choice, cur, signals, limits, samples>>

\* sync_fuzzers runs a file of another fuzzer; a stop leaves it at once.
ImportFile ==
    /\ phase = "sync"
    /\ \E r \in Results :
          IF stopSoon THEN phase' = "ended" /\ NotQueued /\ UNCHANGED samples
          ELSE save_if_interesting(r, phase)
    /\ UNCHANGED <<cur, choice, signals, limits>>

EndSync ==
    /\ phase = "sync"
    /\ phase' = IF stopSoon THEN "ended" ELSE "select"
    /\ NotQueued
    /\ UNCHANGED <<cur, choice, signals, limits, samples>>

\* handle_stop_sig at any time; handle_skipreq sets a flag that only the runs
\* of a seed read, so that an earlier signal comes to the same.
StopSignal ==
    /\ phase \notin {"ended", "aborted"} /\ ~ stopSoon
    /\ stopSoon' = TRUE
    /\ UNCHANGED <<queueVars, targetVars, phase, cur, skipRequested, limits, samples>>

SkipSignal ==
    /\ phase \in {"stall", "fuzz"} /\ ~ skipRequested
    /\ skipRequested' = TRUE
    /\ UNCHANGED <<queueVars, targetVars, phase, cur, stopSoon, limits, samples>>

Next ==
    \/ DryRun \/ StartFuzzing \/ SelectSeed \/ AskModel \/ Execute \/ LeaveSeed
    \/ ImportFile \/ EndSync \/ StopSignal \/ SkipSignal

Spec == Init /\ [][Next]_vars

\* afl-fuzz runs, and the random choices of the loop that selects find sooner
\* or later a seed to fuzz when they can.
FindsSeed == SelectSeed /\ phase' # "select"
FairSpec ==
    /\ Spec
    /\ WF_vars(DryRun) /\ WF_vars(StartFuzzing)
    /\ WF_vars(SelectSeed) /\ SF_vars(FindsSeed)
    /\ WF_vars(AskModel) /\ WF_vars(LeaveSeed) /\ WF_vars(EndSync)

----------------------------------------------------------------------------
(* What holds of the campaign *)

\* The map of fuzzed seeds stays aligned with the states and the queue: it has
\* a column for each seed and a row for each state, and a seed that is listed
\* for a state is marked as reaching it, so that choose_seed never reads a cell
\* outside of the map or one of a seed that cannot reach the state.
MapAligned ==
    /\ Columns(fuzzedMap) = Len(queue)
    /\ ToSet(stateIds) = DOMAIN seeds
    /\ \A s \in DOMAIN seeds :
          /\ get_state_index(stateIds, s) < Len(fuzzedMap)
          /\ \A q \in ToSet(seeds[s]) : Row(s)[q] # Unreachable

\* The map marks a seed for a single state, however many it was fuzzed for, and for
\* none before: was_fuzzed of the entry, which is not per state, stands before the
\* mark.
MarkedOnlyOnce ==
    \A q \in DOMAIN queue :
        Cardinality({i \in DOMAIN fuzzedMap : fuzzedMap[i][q] = 1})
            = (IF queue[q].wasFuzzed THEN 1 ELSE 0)

\* What the comments say of was_fuzzed_map ("state-specific was_fuzzed information",
\* "was_fuzzed information becomes state-aware"): a seed that was just fuzzed for the
\* target is marked for it.  choose_seed and cull_queue read the mark of the target.
MarkedForTarget == phase = "sync" => queue[cur].calFailed # 0 \/ Row(target)[cur] = 1

\* After a stop signal the campaign ends, if state 0 has a seed with regions
\* when it comes: the loop that selects does not look at stop_soon.
CanSelect == \E q \in ToSet(seeds[0]) : queue[q].regions # <<>>
StopEnds == (stopSoon /\ CanSelect) ~> (phase \in {"ended", "aborted"})
=============================================================================
