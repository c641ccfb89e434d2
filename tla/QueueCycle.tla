----------------------------- MODULE QueueCycle -----------------------------
(***************************************************************************)
(* The main loop of afl-fuzz without -E: cycle after cycle over the queue, *)
(* entries skipped or fuzzed, recombination once a cycle finds nothing,    *)
(* and the ways to stop: a signal, AFL_EXIT_WHEN_DONE,                     *)
(* AFL_BENCH_UNTIL_CRASH and AFL_BENCH_JUST_ONE. What fuzz_one does with   *)
(* an entry is one step with whatever it finds.                            *)
(***************************************************************************)
EXTENDS Integers, Sequences, FiniteSets

CONSTANTS
    DoneCycles,     \* 100: more cycles without a find are enough
    FewPaths,       \* 10: with more entries, others than favored are skipped
    SyncInterval,   \* SYNC_INTERVAL
    InitialPaths,   \* entries of the dry run
    MaxPaths        \* and at any time (a bound)

\* A dry run that keeps no entry ends the program.
ASSUME QueueCycleAssumption ==
    /\ DoneCycles \in Nat /\ FewPaths \in Nat /\ SyncInterval \in Nat \ {0}
    /\ InitialPaths \in Nat \ {0} /\ MaxPaths \in Nat

VARIABLES
    opts,           \* [dumb, whenDone, untilCrash, justOne, sync, importFirst, splicing]
    loop,           \* where the loop is
    paths,          \* the queue: [fuzzed, failed], failed: its calibration
    cur,            \* the place of queue_cur
    seek,           \* seek_to
    cycle,          \* queue_cycle, up to 2
    prevQueued, useSplicing, cyclesWoFinds, syncCount,
    crashed,        \* total_crashes > 0
    stop,           \* stop_soon: "no", 1 is "user", 2 is one of the others
    server,         \* the fork server
    offered         \* history: how often each entry came up since the last find

cycleVars == <<opts, loop, paths, cur, seek, cycle, prevQueued, useSplicing, cyclesWoFinds,
               syncCount, crashed, stop, server, offered>>

Enough == DoneCycles + 1
UpTo(limit, n) == IF n > limit THEN limit ELSE n
NewPath == [fuzzed |-> FALSE, failed |-> FALSE]
CycleOptions ==
    [dumb : BOOLEAN, whenDone : BOOLEAN, untilCrash : BOOLEAN, justOne : BOOLEAN, sync : BOOLEAN,
     importFirst : BOOLEAN, splicing : BOOLEAN]

CycleInit(o) ==
    /\ opts = o /\ loop = "cycle"
    /\ paths \in [1..InitialPaths -> [fuzzed : {FALSE}, failed : BOOLEAN]]
    /\ seek \in 0..(InitialPaths - 1)
    /\ cur = 0 /\ cycle = 0 /\ prevQueued = 0 /\ useSplicing = o.splicing /\ cyclesWoFinds = 0
    /\ syncCount = 0 /\ crashed = FALSE /\ stop = "no" /\ server = "alive"
    /\ offered = [i \in 1..InitialPaths |-> 0]

----------------------------------------------------------------------------
\* show_stats is called time and again, and most calls return at once.
Stats(quiet, queue, crash) ==
    {stop}
    \cup (IF ~opts.dumb /\ opts.whenDone /\ quiet > DoneCycles /\ \A i \in DOMAIN queue : queue[i].fuzzed
          THEN {"done"} ELSE {})
    \cup (IF opts.untilCrash /\ crash THEN {"crash"} ELSE {})

\* n entries more: add_to_queue.
Grown(queue, n) == queue \o [i \in 1..n |-> NewPath]
\* Mutant: what was imported does not end the quiet time.
FindsUnnoticed(n) ==
    /\ paths' = Grown(paths, n)
    /\ cyclesWoFinds' = cyclesWoFinds
    /\ offered' = IF n > 0 THEN [i \in 1..(Len(paths) + n) |-> 0] ELSE offered

Finds(n) ==
    /\ paths' = Grown(paths, n)
    /\ cyclesWoFinds' = IF n > 0 THEN 0 ELSE cyclesWoFinds
    /\ offered' = IF n > 0 THEN [i \in 1..(Len(paths) + n) |-> 0] ELSE offered

\* The statistics come before the comparison, the import after it.
StartCycle ==
    /\ loop = "cycle" /\ loop' = "fuzz"
    /\ cycle' = UpTo(2, cycle + 1) /\ cur' = 1 + seek /\ seek' = 0
    /\ stop' \in Stats(cyclesWoFinds, paths, crashed)
    /\ LET quiet == Len(paths) = prevQueued
           count == IF ~quiet THEN 0 ELSE UpTo(Enough, cyclesWoFinds + (IF useSplicing THEN 1 ELSE 0))
       IN \E n \in 0..(MaxPaths - Len(paths)) :
             /\ n > 0 => opts.sync /\ opts.importFirst /\ cycle = 0
             /\ useSplicing' = (useSplicing \/ quiet)
             /\ paths' = Grown(paths, n)
             /\ cyclesWoFinds' = IF n > 0 THEN 0 ELSE count
             /\ offered' = IF n > 0 THEN [i \in 1..(Len(paths) + n) |-> 0] ELSE offered
    /\ prevQueued' = Len(paths)
    /\ UNCHANGED <<opts, syncCount, crashed, server>>

\* Which entries are favored is cull_queue's choice, made before each visit;
\* it makes none in dumb mode.
Skippable(favored) ==
    LET waiting == \E i \in favored : ~paths[i].fuzzed
    IN IF waiting THEN paths[cur].fuzzed \/ cur \notin favored
       ELSE ~opts.dumb /\ cur \notin favored /\ Len(paths) > FewPaths

\* Each entry comes up, the ones that are passed over too.
Offered(i) == offered' = [offered EXCEPT ![i] = UpTo(Enough, @ + 1)]

SkipEntry ==
    /\ loop = "fuzz" /\ loop' = "after"
    /\ \E favored \in SUBSET DOMAIN paths : (opts.dumb => favored = {}) /\ Skippable(favored)
    /\ Offered(cur)
    /\ UNCHANGED <<opts, paths, cur, seek, cycle, prevQueued, useSplicing, cyclesWoFinds, syncCount,
                   crashed, stop, server>>

\* After a stop nothing is kept. An entry counts as fuzzed at abandon_entry,
\* unless it could not be calibrated or the run is stopped.
FuzzEntry ==
    /\ loop = "fuzz" /\ loop' = "sync"
    /\ \E n \in 0..(MaxPaths - Len(paths)), failed \in {FALSE, paths[cur].failed} :
          /\ stop # "no" => n = 0
          /\ crashed' \in (IF stop = "no" THEN {crashed, TRUE} ELSE {crashed})
          /\ stop' \in Stats(IF n > 0 THEN 0 ELSE cyclesWoFinds, Grown(paths, n), crashed')
          /\ paths' = [Grown(paths, n) EXCEPT ![cur] = [fuzzed |-> @.fuzzed \/ (~failed /\ stop' = "no"),
                                                        failed |-> failed]]
          /\ cyclesWoFinds' = IF n > 0 THEN 0 ELSE cyclesWoFinds
          /\ IF n > 0 THEN offered' = [i \in 1..(Len(paths) + n) |-> 0] ELSE Offered(cur)
    /\ UNCHANGED <<opts, cur, seek, cycle, prevQueued, useSplicing, syncCount, server>>

\* Every few entries, the queues of the other fuzzers are looked at.
SyncFuzzers ==
    /\ loop = "sync" /\ loop' = "after"
    /\ IF stop = "no" /\ opts.sync
       THEN /\ syncCount' = (syncCount + 1) % SyncInterval
            /\ \E n \in 0..(MaxPaths - Len(paths)) : (n > 0 => syncCount = 0) /\ Finds(n)
       ELSE UNCHANGED <<syncCount, paths, cyclesWoFinds, offered>>
    /\ UNCHANGED <<opts, cur, seek, cycle, prevQueued, useSplicing, crashed, stop, server>>

NextEntry ==
    /\ loop = "after"
    /\ stop' = IF stop = "no" /\ opts.justOne THEN "one" ELSE stop
    /\ IF stop' # "no" THEN loop' = "end" /\ cur' = cur
       ELSE IF cur = Len(paths) THEN loop' = "cycle" /\ cur' = 0
       ELSE loop' = "fuzz" /\ cur' = cur + 1
    /\ UNCHANGED <<opts, paths, seek, cycle, prevQueued, useSplicing, cyclesWoFinds, syncCount,
                   crashed, server, offered>>

\* Who stops by itself kills the server; then it is waited for.
KillServer ==
    /\ loop = "end" /\ loop' = "wait"
    /\ stop' \in Stats(cyclesWoFinds, paths, crashed)
    /\ server' = IF stop' \in {"done", "crash", "one"} THEN "killed" ELSE server
    /\ UNCHANGED <<opts, paths, cur, seek, cycle, prevQueued, useSplicing, cyclesWoFinds, syncCount,
                   crashed, offered>>

ServerReaped ==
    /\ loop = "wait" /\ server = "killed" /\ loop' = "off"
    /\ UNCHANGED <<opts, paths, cur, seek, cycle, prevQueued, useSplicing, cyclesWoFinds, syncCount,
                   crashed, stop, server, offered>>

\* handle_stop_sig
UserStops ==
    /\ loop # "off" /\ stop # "user" /\ stop' = "user" /\ server' = "killed"
    /\ UNCHANGED <<opts, loop, paths, cur, seek, cycle, prevQueued, useSplicing, cyclesWoFinds,
                   syncCount, crashed, offered>>

CycleNext ==
    \/ StartCycle \/ SkipEntry \/ FuzzEntry \/ SyncFuzzers \/ NextEntry \/ KillServer \/ ServerReaped
    \/ UserStops

CycleSpec == (\E o \in CycleOptions : CycleInit(o)) /\ [][CycleNext]_cycleVars

----------------------------------------------------------------------------
\* AFL_EXIT_WHEN_DONE ends a campaign only when each entry has been fuzzed,
\* and has come up again and again, DoneCycles times at least, without
\* anything being found, also if the first cycle began in the middle of the
\* queue; and the end never waits for a fork server that lives.
CampaignEndsWell ==
    /\ stop = "done" => \A i \in DOMAIN paths : paths[i].fuzzed /\ offered[i] >= DoneCycles
    /\ loop \in {"wait", "off"} => server = "killed"
=============================================================================
