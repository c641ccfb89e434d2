----------------------------- MODULE SeedQueue -----------------------------
(***************************************************************************)
(* The coverage bitmap and the queue of seeds of afl-fuzz.c: what counts   *)
(* as new coverage, which seed is top rated for each byte of the map, and  *)
(* which seeds are favored.                                                *)
(*                                                                         *)
(* A byte of the map is the set of its bits: after classify_counts a hit   *)
(* byte has one, the class of its count; virgin bytes have all eight.      *)
(* exec_us * len is one number, the factor of a seed.                      *)
(***************************************************************************)
EXTENDS Integers, SequencesExt

CONSTANTS
    MapSize,        \* bytes of the bitmap
    CounterRange    \* where the unsigned counters wrap (2^32 in the code)

ASSUME QueueAssumption == MapSize \in Nat \ {0} /\ CounterRange \in Nat \ {0}

VARIABLES
    queue,          \* the entries, in order
    topRated,       \* top_rated: byte |-> a position in the queue, or Nobody
    scoreChanged,   \* score_changed
    queuedFavored, pendingFavored, pendingNotFuzzed,
    virgin          \* virgin_bits

counters == <<queuedFavored, pendingFavored, pendingNotFuzzed>>
queueVars == <<queue, topRated, scoreChanged, counters, virgin>>

Bytes == 1..MapSize
Bits == 0..7
Nobody == 0
NoTrace == {}       \* a trace_mini that is not allocated

----------------------------------------------------------------------------
(* The bitmap *)

\* Hit counts to classes, one bit each.
CountClass(n) ==
    CASE n = 0 -> {}
      [] n \in 1..2 -> {n - 1}
      [] n = 3 -> {2}
      [] n \in 4..7 -> {3}
      [] n \in 8..15 -> {4}
      [] n \in 16..31 -> {5}
      [] n \in 32..127 -> {6}
      [] n \in 128..255 -> {7}

classify_counts(counts) == [b \in Bytes |-> CountClass(counts[b])]

\* The trace without counts: bit 7 for a hit, bit 0 for none.
simplify_trace(trace) == [b \in Bytes |-> IF trace[b] = {} THEN {0} ELSE {7}]

minimize_bits(trace) == {b \in Bytes : trace[b] # {}}

Pristine == [b \in Bytes |-> Bits]

\* The loops over the map go from its first byte to its last.
InOrder == [b \in Bytes |-> b]

\* 2: a byte hit for the first time, 1: a new count of a byte only.
has_new_bits(trace, map) ==
    IF \A b \in Bytes : trace[b] \intersect map[b] = {} THEN 0
    ELSE IF \E b \in Bytes : trace[b] # {} /\ map[b] = Bits THEN 2 ELSE 1

Seen(trace, map) == [b \in Bytes |-> map[b] \ trace[b]]

----------------------------------------------------------------------------
(* Entries *)

\* What add_to_queue makes of a file; the callers fill in the rest.
NewEntry(state) ==
    [initial |-> FALSE, favored |-> FALSE, wasFuzzed |-> FALSE, calFailed |-> 0,
     factor |-> 0, uniqueStates |-> 0, generating |-> state, mini |-> NoTrace,
     tcRef |-> 0, redundant |-> FALSE, regions |-> <<>>]

\* The queue once the initial seeds are read.
QueueInit(initial) ==
    /\ queue = initial /\ pendingNotFuzzed = Len(initial)
    /\ topRated = [b \in Bytes |-> Nobody]
    /\ scoreChanged = FALSE
    /\ queuedFavored = 0 /\ pendingFavored = 0
    /\ virgin = Pristine

\* The unsigned decrement of a counter.
Decremented(n) == (n - 1) % CounterRange

----------------------------------------------------------------------------
(* update_bitmap_score *)

\* The contender loses only to a winner with more states: the second test of
\* the code, of speed and size, repeats the condition of the first, and is
\* never reached with it.
Wins(entries, q, old) ==
    old = Nobody \/ entries[q].uniqueStates >= entries[old].uniqueStates

\* A byte less for the previous winner, which loses its trace with the last.
\* Mutant: the trace is dropped at the first byte lost.
UnreferencedTooEarly(e) == [e EXCEPT !.tcRef = @ - 1, !.mini = NoTrace]
Unreferenced(e) ==
    [e EXCEPT !.tcRef = @ - 1, !.mini = IF e.tcRef = 1 THEN NoTrace ELSE @]

Referenced(e, trace) ==
    [e EXCEPT !.tcRef = @ + 1,
              !.mini = IF @ = NoTrace THEN minimize_bits(trace) ELSE @]

\* The winner q takes the byte b.
TakeByte(r, q, b, trace) ==
    LET old == r.top[b]
        es  == IF old = Nobody THEN r.entries ELSE [r.entries EXCEPT ![old] = Unreferenced(@)]
    IN [entries |-> [es EXCEPT ![q] = Referenced(@, trace)],
        top |-> [r.top EXCEPT ![b] = q], changed |-> TRUE]

\* Entries, winners and whether any changed, after q has run with the trace.
update_bitmap_score(entries, top, q, trace) ==
    FoldLeft(LAMBDA r, b : IF trace[b] # {} /\ Wins(r.entries, q, r.top[b])
                           THEN TakeByte(r, q, b, trace) ELSE r,
             [entries |-> entries, top |-> top, changed |-> FALSE],
             InOrder)

----------------------------------------------------------------------------
(* cull_queue *)

\* The bytes whose winner is marked as favored, in the order of the map: those
\* in no trace of a winner taken before.
PickedFrom(bytes, top) ==
    FoldLeft(LAMBDA taken, b :
                 IF top[b] # Nobody /\ \A c \in taken : b \notin queue[top[c]].mini
                 THEN taken \union {b} ELSE taken,
             {}, bytes)
\* Mutant: the first byte is not looked at.
PickedButFirst(top) == PickedFrom([b \in 1..(MapSize - 1) |-> b + 1], top)
Picked(top) == PickedFrom(InOrder, top)

\* A favored seed counts as pending when it was generated for the target (or
\* is an initial seed) and has not been fuzzed for the target.
IsPendingFor(q, tgt, row) ==
    /\ queue[q].generating = tgt \/ queue[q].initial
    /\ row[q] = 0

\* The call for the target tgt whose row of the map is row.  Initial seeds
\* stay favored once they are.
cull_queue(tgt, row) ==
    IF ~ scoreChanged
    THEN UNCHANGED <<queue, scoreChanged, queuedFavored, pendingFavored>>
    ELSE LET picked == Picked(topRated)
             favs == {topRated[b] : b \in picked}
             fav(q) == q \in favs \/ (queue[q].initial /\ queue[q].favored)
         IN /\ scoreChanged' = FALSE
            /\ queuedFavored' = Cardinality(picked)
            /\ pendingFavored' = Cardinality({b \in picked : IsPendingFor(topRated[b], tgt, row)})
            /\ queue' = [q \in DOMAIN queue |->
                            [queue[q] EXCEPT !.favored = fav(q), !.redundant = ~ fav(q)]]

----------------------------------------------------------------------------
(* What holds of the queue *)

\* The winner of a byte keeps a trace for as long as it wins one, so that
\* cull_queue, which reads the trace of every winner, never reads a freed one;
\* its reference count is the number of the bytes it wins.
WinnersKeepTraces ==
    \A q \in DOMAIN queue :
        LET won == {b \in Bytes : topRated[b] = q}
        IN queue[q].tcRef = Cardinality(won) /\ (won # {} <=> queue[q].mini # NoTrace)

\* pending_not_fuzzed is the number of entries never fuzzed.
NotFuzzedCounted ==
    pendingNotFuzzed = Cardinality({q \in DOMAIN queue : ~ queue[q].wasFuzzed})

\* Right after the queue is culled the favored seeds cover every byte of the
\* map that any seed covers.
FavoredCoverMap ==
    ~ scoreChanged =>
        \A b \in Bytes : topRated[b] # Nobody =>
            \E q \in DOMAIN queue : queue[q].favored /\ (b \in queue[q].mini \/ topRated[b] = q)
=============================================================================
