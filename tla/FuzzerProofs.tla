---------------------------- MODULE FuzzerProofs ----------------------------
(***************************************************************************)
(* The campaign of Fuzzer.tla, for maps, queues, sets of states and        *)
(* results of any size: every seed that wins a byte keeps its trace, the   *)
(* favored seeds cover the map after each culling, the map of fuzzed seeds *)
(* stays aligned with the states and the queue, and each seed is marked    *)
(* there for one state at most.                                            *)
(*                                                                         *)
(* FuzzerInv is inductive.  Beyond the five invariants it needs the types, *)
(* that a seed not yet fuzzed has no mark at all (the response of a run    *)
(* clears cells of the seed that ran), that nothing is fuzzed during the   *)
(* dry run, and that the target is a known state.                          *)
(***************************************************************************)
EXTENDS Fuzzer, FuzzerLemmas

Maps == [Bytes -> SUBSET Bits]
Phases == {"dry_run", "select", "stall", "fuzz", "abandon", "sync", "ended", "aborted"}

QueueTyped ==
    /\ queue \in Seq(Entry)
    /\ topRated \in [Bytes -> {Nobody} \union 1 .. Len(queue)]
    /\ scoreChanged \in BOOLEAN
    /\ queuedFavored \in Nat /\ pendingFavored \in Nat /\ pendingNotFuzzed \in Nat
    /\ virgin \in Maps

\* The graph of the learnt states and the choice that is made among them.
ChoiceTyped ==
    /\ 0 \in nodes /\ nodes \subseteq States
    /\ selectedState \in 0 .. (Len(stateIds) - 1) /\ stateCycles \in Nat
    /\ target \in ToSet(stateIds)

CampaignTyped ==
    /\ phase \in Phases /\ cur \in Nat
    /\ phase \in {"stall", "fuzz", "abandon"} => cur \in 1 .. Len(queue)
    /\ stopSoon \in BOOLEAN /\ skipRequested \in BOOLEAN
    /\ subseqTmouts \in Nat /\ uninterestingTimes \in Nat /\ chatTimes \in Nat
    /\ virginTmout \in Maps /\ virginCrash \in Maps /\ hangs \in Nat /\ crashes \in Nat

TypeOK == QueueTyped /\ Tables \in Table(Len(queue)) /\ ChoiceTyped /\ CampaignTyped

\* A seed that has been fuzzed has one mark, another none.
MarkedOnce ==
    \A q \in 1 .. Len(queue) :
        IF queue[q].wasFuzzed THEN Cardinality(FuzzedFor(fuzzedMap, q)) = 1
        ELSE FuzzedFor(fuzzedMap, q) = {}

\* The counter is exact for as long as it does not wrap.
CountedUntilWrap == Len(queue) < CounterRange => NotFuzzedCounted

NothingFuzzedYet == phase = "dry_run" => \A q \in 1 .. Len(queue) : ~ queue[q].wasFuzzed

QueueSound == KeepsTraces(queue, topRated) /\ FavoredCoverMap /\ CountedUntilWrap
TablesSound == Aligned(Tables) /\ MarkedOnce /\ NothingFuzzedYet

FuzzerInv == TypeOK /\ QueueSound /\ TablesSound
----------------------------------------------------------------------------
(* Entries *)

\* What of an entry the steps of a run leave alone.
Lasting(e) == <<e.favored, e.wasFuzzed, e.mini, e.tcRef>>

\* The responses of a run change the states and the regions of its entry.
LEMMA AnnotatedKeeps ==
    ASSUME NEW e \in Entry, NEW r \in Results
    PROVE  Annotated(e, r) \in Entry /\ Lasting(Annotated(e, r)) = Lasting(e)
<1>1. r.codes \in Seq(States) /\ r.annotations \in Seq(Seq(States))
  BY FuzzerAssumption
<1>2. get_unique_state_count(r.codes) \in Nat
  <2>1. PICK c : c = r.codes
    OBVIOUS
  <2>2. Len(c) \in Nat /\ c \in [1 .. Len(c) -> ToSet(c)]
    BY <1>1, <2>1 DEF ToSet
  <2>3. c \in Surjection(1 .. Len(c), ToSet(c))
    BY <2>2 DEF Surjection, ToSet
  <2>4. IsFiniteSet(1 .. Len(c))
    BY <2>2, FS_Interval
  <2>5. IsFiniteSet(ToSet(c))
    BY <2>3, <2>4, FS_Surjection
  <2> QED BY <2>1, <2>5, FS_CardinalityType DEF get_unique_state_count
<1>3. PICK k, regions :
         /\ k = get_unique_state_count(r.codes)
         /\ regions = [i \in DOMAIN e.regions |-> IF i <= Len(r.annotations) THEN r.annotations[i]
                                                  ELSE e.regions[i]]
  OBVIOUS
<1>4. regions \in Seq(Seq(States))
  <2>1. PICK old, more, n : old = e.regions /\ more = r.annotations /\ n = Len(old)
    OBVIOUS
  <2>2. old \in Seq(Seq(States)) /\ more \in Seq(Seq(States)) /\ n \in Nat /\ DOMAIN old = 1 .. n
    BY <1>1, <2>1 DEF Entry
  <2>3. \A i \in 1 .. n : i <= Len(more) => more[i] \in Seq(States)
    BY <2>2
  <2>4. \A i \in 1 .. n : old[i] \in Seq(States)
    BY <2>2
  <2>5. regions \in [1 .. n -> Seq(States)]
    BY <1>3, <2>1, <2>2, <2>3, <2>4
  <2> QED BY <2>2, <2>5
<1>5. CASE r.codes = <<>>
  BY <1>5 DEF Annotated
<1>6. CASE r.codes # <<>>
  <2>1. Annotated(e, r) = [e EXCEPT !.uniqueStates = k, !.regions = regions]
    BY <1>3, <1>6 DEF Annotated
  <2> QED BY <1>2, <1>3, <1>4, <2>1 DEF Entry, Lasting
<1> QED BY <1>5, <1>6

\* An entry that is changed in other fields is an entry.
LEMMA FreshEntry ==
    ASSUME NEW s \in States, NEW regions \in Seq(Seq(States))
    PROVE  /\ [NewEntry(s) EXCEPT !.regions = regions] \in Entry
           /\ Lasting([NewEntry(s) EXCEPT !.regions = regions]) = <<FALSE, FALSE, NoTrace, 0>>
  BY DEF NewEntry, Entry, Lasting, NoTrace

----------------------------------------------------------------------------
(* Calibration *)

\* What holds after a calibration that yields c of n entries: the winners keep
\* their traces, and no winner or trace changes unless c says so.
Sound(c, entries, n) ==
    /\ c.entries \in [1 .. n -> Entry] /\ c.top \in [Bytes -> {Nobody} \union 1 .. n]
    /\ c.changed \in BOOLEAN
    /\ KeepsTraces(c.entries, c.top)
    /\ \A p \in 1 .. n : /\ c.entries[p].favored = entries[p].favored
                         /\ c.entries[p].wasFuzzed = entries[p].wasFuzzed
    /\ ~ c.changed => /\ c.top = topRated
                      /\ \A p \in 1 .. n : c.entries[p].mini = entries[p].mini

LEMMA KeepsTracesOf ==
    ASSUME NEW n \in Nat, NEW es, NEW fs, DOMAIN es = 1 .. n, DOMAIN fs = 1 .. n, NEW top,
           \A p \in 1 .. n : fs[p].tcRef = es[p].tcRef /\ fs[p].mini = es[p].mini,
           KeepsTraces(es, top)
    PROVE  KeepsTraces(fs, top)
  BY DEF KeepsTraces

LEMMA CalibrationSound ==
    ASSUME NEW n \in Nat, NEW entries \in [1 .. n -> Entry],
           topRated \in [Bytes -> {Nobody} \union 1 .. n], KeepsTraces(entries, topRated),
           NEW q \in 1 .. n, NEW last \in Results
    PROVE  Sound(Calibrated(entries, q, last), entries, n)
<1>1. last.trace \in Maps /\ last.factor \in Nat
  BY FuzzerAssumption DEF Maps
<1>2. CASE last.fault = "none"
  <2>1. PICK es : es = [entries EXCEPT ![q].calFailed = 0, ![q].factor = last.factor]
    OBVIOUS
  <2>2. es = [entries EXCEPT ![q] = [entries[q] EXCEPT !.calFailed = 0, !.factor = last.factor]]
    BY <2>1
  <2>3. [entries[q] EXCEPT !.calFailed = 0, !.factor = last.factor] \in Entry
    <3>1. PICK e : e = entries[q]
      OBVIOUS
    <3>2. e \in Entry
      BY <3>1
    <3> QED BY <1>1, <3>1, <3>2 DEF Entry
  <2>4. es \in [1 .. n -> Entry]
    BY <2>2, <2>3
  <2>5. \A p \in 1 .. n : /\ Lasting(es[p]) = Lasting(entries[p])
                          /\ es[p].tcRef = entries[p].tcRef /\ es[p].mini = entries[p].mini
    BY <2>2 DEF Entry, Lasting
  <2>6. KeepsTraces(es, topRated)
    BY <2>4, <2>5, KeepsTracesOf
  <2>7. PICK c : c = update_bitmap_score(es, topRated, q, last.trace)
    OBVIOUS
  <2>8. c \in Scored(es, topRated)
    BY <1>1, <2>4, <2>6, <2>7, ScoreKeeps DEF Maps
  <2>9. Calibrated(entries, q, last) = c
    BY <1>2, <2>1, <2>7 DEF Calibrated, Rated
  <2>10. /\ c.entries \in [1 .. n -> Entry] /\ c.top \in [Bytes -> {Nobody} \union 1 .. n]
         /\ c.changed \in BOOLEAN /\ KeepsTraces(c.entries, c.top)
         /\ \A p \in 1 .. n : Rest(c.entries[p]) = Rest(es[p])
         /\ ~ c.changed => c.entries = es /\ c.top = topRated
    BY <2>4, <2>8 DEF Scored
  <2>11. \A p \in 1 .. n : c.entries[p].favored = es[p].favored /\ c.entries[p].wasFuzzed = es[p].wasFuzzed
    BY <2>10 DEF Rest
  <2>12. \A p \in 1 .. n : es[p].favored = entries[p].favored /\ es[p].wasFuzzed = entries[p].wasFuzzed
    BY <2>5 DEF Lasting
  <2> QED BY <2>5, <2>9, <2>10, <2>11, <2>12 DEF Sound
<1>3. CASE last.fault # "none"
  <2>1. PICK es : es = [entries EXCEPT ![q].calFailed = @ + 1]
    OBVIOUS
  <2>2. es = [entries EXCEPT ![q] = [entries[q] EXCEPT !.calFailed = entries[q].calFailed + 1]]
    BY <2>1
  <2>3. [entries[q] EXCEPT !.calFailed = entries[q].calFailed + 1] \in Entry
    <3>1. PICK e, k : e = entries[q] /\ k = entries[q].calFailed + 1
      OBVIOUS
    <3>2. e \in Entry /\ e.calFailed \in Nat
      BY <3>1 DEF Entry
    <3>3. k \in Nat
      BY <3>1, <3>2
    <3> QED BY <3>1, <3>2, <3>3 DEF Entry
  <2>4. es \in [1 .. n -> Entry]
    BY <2>2, <2>3
  <2>5. \A p \in 1 .. n : /\ es[p].favored = entries[p].favored /\ es[p].wasFuzzed = entries[p].wasFuzzed
                          /\ es[p].tcRef = entries[p].tcRef /\ es[p].mini = entries[p].mini
    BY <2>2 DEF Entry
  <2>6. KeepsTraces(es, topRated)
    BY <2>4, <2>5, KeepsTracesOf
  <2>7. Calibrated(entries, q, last) = [entries |-> es, top |-> topRated, changed |-> FALSE]
    BY <1>3, <2>1 DEF Calibrated
  <2> QED BY <2>4, <2>5, <2>6, <2>7 DEF Sound
<1> QED BY <1>2, <1>3
----------------------------------------------------------------------------
(* The queue after a calibration *)

\* The entries of the queue, and e after them.
WithSeed(es, e, n) ==
    /\ es \in [1 .. (n + 1) -> Entry] /\ es[n + 1] = e
    /\ \A p \in 1 .. n : es[p] = queue[p]
    /\ KeepsTraces(es, topRated)

\* A seed that has just been added wins nothing.
LEMMA AddedSound ==
    ASSUME NEW n \in Nat, queue \in [1 .. n -> Entry],
           topRated \in [Bytes -> {Nobody} \union 1 .. n], KeepsTraces(queue, topRated),
           NEW e \in Entry, e.mini = NoTrace, e.tcRef = 0, NEW es, es = Append(queue, e)
    PROVE  WithSeed(es, e, n)
<1>1. queue \in Seq(Entry) /\ Len(queue) = n
  OBVIOUS
<1>2. /\ es \in [1 .. (n + 1) -> Entry] /\ es[n + 1] = e
      /\ \A p \in 1 .. n : es[p] = queue[p]
  <2>1. PICK old : old = queue
    OBVIOUS
  <2> HIDE DEF Entry
  <2>2. old \in Seq(Entry) /\ Len(old) = n /\ es = Append(old, e)
    BY <1>1, <2>1
  <2>3. es \in Seq(Entry) /\ Len(es) = n + 1
    BY <2>2
  <2>4. es[n + 1] = e /\ \A p \in 1 .. n : es[p] = old[p]
    BY <2>2
  <2>5. es \in [1 .. (n + 1) -> Entry]
    BY <2>3, LenProperties
  <2> QED BY <2>1, <2>4, <2>5
<1>3. ASSUME NEW q \in 1 .. (n + 1), NEW won, won = {b \in Bytes : topRated[b] = q}
      PROVE  es[q].tcRef = Cardinality(won) /\ (won # {} <=> es[q].mini # NoTrace)
  <2>1. CASE q \in 1 .. n
    <3>1. q \in DOMAIN queue /\ es[q] = queue[q]
      BY <1>2, <2>1
    <3> QED BY <1>3, <3>1 DEF KeepsTraces
  <2>2. CASE q = n + 1
    <3>1. \A b \in Bytes : topRated[b] \in {Nobody} \union 1 .. n
      OBVIOUS
    <3>2. won = {}
      BY <1>3, <2>2, <3>1 DEF Nobody
    <3> QED BY <1>2, <2>2, <3>2, FS_EmptySet
  <2> QED BY <2>1, <2>2
<1>4. KeepsTraces(es, topRated)
  BY <1>2, <1>3 DEF KeepsTraces
<1> QED BY <1>2, <1>4 DEF WithSeed

\* The queue of n entries becomes one of m, after the calibration c of the
\* entries, of which the first n are those of the queue.
Requeued(c, entries, n, m) ==
    /\ Sound(c, entries, m)
    /\ \A p \in 1 .. n : Lasting(entries[p]) = Lasting(queue[p])
    /\ queue' \in [1 .. m -> Entry]
    /\ \A p \in 1 .. m : Lasting(queue'[p]) = Lasting(c.entries[p])

LEMMA RequeuedSound ==
    ASSUME NEW n \in Nat, NEW m \in {n, n + 1}, NEW entries, NEW c, NEW seen \in SUBSET Results,
           QueueTyped, Len(queue) = n, FavoredCoverMap, Requeued(c, entries, n, m), Rates(c, seen)
    PROVE  /\ pendingNotFuzzed' \in Nat => QueueTyped'
           /\ Len(queue') = m /\ KeepsTraces(queue', topRated') /\ FavoredCoverMap'
           /\ \A p \in 1 .. n : queue'[p].wasFuzzed = queue[p].wasFuzzed
<1>1. /\ m \in Nat /\ 1 .. n \subseteq 1 .. m
      /\ DOMAIN queue = 1 .. n /\ DOMAIN queue' = 1 .. m /\ DOMAIN c.entries = 1 .. m
      /\ queue' \in Seq(Entry) /\ Len(queue') = m
  <2> HIDE DEF Entry
  <2> QED BY DEF Requeued, Sound, QueueTyped
<1>2. /\ topRated' = c.top /\ scoreChanged' = (scoreChanged \/ c.changed)
      /\ virgin' = [b \in Bytes |-> virgin[b] \ UNION {r.trace[b] : r \in seen}]
      /\ UNCHANGED <<queuedFavored, pendingFavored>>
  BY DEF Rates
<1>3. /\ topRated' \in [Bytes -> {Nobody} \union 1 .. m] /\ c.changed \in BOOLEAN
      /\ KeepsTraces(c.entries, c.top)
      /\ ~ c.changed => c.top = topRated
  BY <1>2 DEF Requeued, Sound
<1>4. \A p \in 1 .. m : /\ queue'[p].favored = c.entries[p].favored
                        /\ queue'[p].wasFuzzed = c.entries[p].wasFuzzed
                        /\ queue'[p].mini = c.entries[p].mini
                        /\ queue'[p].tcRef = c.entries[p].tcRef
  BY DEF Requeued, Lasting
<1>5. \A p \in 1 .. n : /\ entries[p].favored = queue[p].favored
                        /\ entries[p].wasFuzzed = queue[p].wasFuzzed
                        /\ entries[p].mini = queue[p].mini
  BY DEF Requeued, Lasting
<1>6. \A p \in 1 .. m : /\ c.entries[p].favored = entries[p].favored
                        /\ c.entries[p].wasFuzzed = entries[p].wasFuzzed
                        /\ ~ c.changed => c.entries[p].mini = entries[p].mini
  BY DEF Requeued, Sound
<1>7. ASSUME pendingNotFuzzed' \in Nat PROVE QueueTyped'
  <2>1. virgin' \in Maps
    BY <1>2 DEF QueueTyped, Maps
  <2>2. scoreChanged' \in BOOLEAN
    BY <1>2, <1>3 DEF QueueTyped
  <2> QED BY <1>1, <1>2, <1>3, <1>7, <2>1, <2>2 DEF QueueTyped
<1>8. KeepsTraces(queue', topRated')
  BY <1>1, <1>2, <1>3, <1>4, KeepsTracesOf
<1>9. FavoredCoverMap'
  <2>1. ASSUME ~ scoreChanged', NEW b \in Bytes, topRated'[b] # Nobody
        PROVE  \E q \in DOMAIN queue' : queue'[q].favored /\ (b \in queue'[q].mini \/ topRated'[b] = q)
    <3>1. ~ scoreChanged /\ ~ c.changed /\ topRated' = topRated
      BY <1>2, <1>3, <2>1
    <3>2. PICK q \in DOMAIN queue : queue[q].favored /\ (b \in queue[q].mini \/ topRated[b] = q)
      BY <2>1, <3>1 DEF FavoredCoverMap
    <3>3. q \in DOMAIN queue' /\ queue'[q].favored = queue[q].favored /\ queue'[q].mini = queue[q].mini
      BY <1>1, <1>4, <1>5, <1>6, <3>1, <3>2
    <3> QED BY <3>1, <3>2, <3>3
  <2> QED BY <2>1 DEF FavoredCoverMap
<1>10. \A p \in 1 .. n : queue'[p].wasFuzzed = queue[p].wasFuzzed
  BY <1>1, <1>4, <1>5, <1>6
<1> QED BY <1>1, <1>7, <1>8, <1>9, <1>10

----------------------------------------------------------------------------
(* The counter of the seeds that are not fuzzed *)

LEMMA BelowRange ==
    ASSUME NEW k \in Nat, k < CounterRange
    PROVE  k % CounterRange = k
  BY QueueAssumption

LEMMA InRange ==
    ASSUME NEW k \in Int
    PROVE  k % CounterRange \in Nat
  BY QueueAssumption

NotFuzzed == {q \in DOMAIN queue : ~ queue[q].wasFuzzed}

LEMMA NotFuzzedFinite ==
    ASSUME queue \in Seq(Entry)
    PROVE  /\ IsFiniteSet(NotFuzzed) /\ Cardinality(NotFuzzed) \in Nat
           /\ Cardinality(NotFuzzed) <= Len(queue)
<1>1. Len(queue) \in Nat /\ DOMAIN queue = 1 .. Len(queue)
  <2> HIDE DEF Entry
  <2> QED OBVIOUS
<1>2. IsFiniteSet(1 .. Len(queue)) /\ Cardinality(1 .. Len(queue)) = Len(queue)
  BY <1>1, FS_Interval
<1>3. NotFuzzed \in SUBSET (1 .. Len(queue))
  BY <1>1 DEF NotFuzzed
<1> QED BY <1>2, <1>3, FS_Subset, FS_CardinalityType

\* No seed has been added or fuzzed.
LEMMA CountedStill ==
    ASSUME CountedUntilWrap, queue \in Seq(Entry), queue' \in Seq(Entry), Len(queue') = Len(queue),
           \A q \in 1 .. Len(queue) : queue'[q].wasFuzzed = queue[q].wasFuzzed,
           UNCHANGED pendingNotFuzzed
    PROVE  CountedUntilWrap'
<1>1. DOMAIN queue = 1 .. Len(queue) /\ DOMAIN queue' = 1 .. Len(queue)
  <2> HIDE DEF Entry
  <2> QED OBVIOUS
<1>2. NotFuzzed' = NotFuzzed
  BY <1>1 DEF NotFuzzed
<1> QED BY <1>2 DEF CountedUntilWrap, NotFuzzedCounted, NotFuzzed

\* A seed has been added.
LEMMA CountedOneMore ==
    ASSUME CountedUntilWrap, queue \in Seq(Entry), queue' \in Seq(Entry),
           Len(queue') = Len(queue) + 1,
           \A q \in 1 .. Len(queue) : queue'[q].wasFuzzed = queue[q].wasFuzzed,
           ~ queue'[Len(queue) + 1].wasFuzzed,
           pendingNotFuzzed' = (pendingNotFuzzed + 1) % CounterRange
    PROVE  CountedUntilWrap'
<1>1. PICK n : n = Len(queue)
  OBVIOUS
<1>2. n \in Nat /\ DOMAIN queue = 1 .. n /\ DOMAIN queue' = 1 .. (n + 1)
  <2> HIDE DEF Entry
  <2> QED BY <1>1
<1>3. PICK k : k = Cardinality(NotFuzzed)
  OBVIOUS
<1>4. IsFiniteSet(NotFuzzed) /\ k \in Nat /\ k <= n
  BY <1>1, <1>3, NotFuzzedFinite
<1>5. NotFuzzed' = NotFuzzed \union {n + 1} /\ n + 1 \notin NotFuzzed
  BY <1>1, <1>2 DEF NotFuzzed
<1>6. Cardinality(NotFuzzed') = k + 1
  BY <1>3, <1>4, <1>5, FS_AddElement
<1>7. ASSUME Len(queue') < CounterRange PROVE NotFuzzedCounted'
  <2>1. n + 1 < CounterRange /\ n < CounterRange
    BY <1>1, <1>2, <1>7, QueueAssumption
  <2>2. pendingNotFuzzed = k
    BY <1>1, <1>3, <2>1 DEF CountedUntilWrap, NotFuzzedCounted, NotFuzzed
  <2>3. k + 1 \in Nat /\ k + 1 < CounterRange
    BY <1>2, <1>4, <2>1, QueueAssumption
  <2>4. pendingNotFuzzed' = k + 1
    BY <2>2, <2>3, BelowRange
  <2> QED BY <1>6, <2>4 DEF NotFuzzedCounted, NotFuzzed
<1> QED BY <1>7 DEF CountedUntilWrap

\* A seed has been fuzzed for the first time.
LEMMA CountedOneLess ==
    ASSUME CountedUntilWrap, queue \in Seq(Entry), NEW q \in 1 .. Len(queue), ~ queue[q].wasFuzzed,
           queue' = [queue EXCEPT ![q].wasFuzzed = TRUE],
           pendingNotFuzzed' = Decremented(pendingNotFuzzed)
    PROVE  CountedUntilWrap'
<1>1. PICK n : n = Len(queue)
  OBVIOUS
<1>2. n \in Nat /\ DOMAIN queue = 1 .. n /\ queue \in [1 .. n -> Entry]
  <2> HIDE DEF Entry
  <2> QED BY <1>1
<1>3. DOMAIN queue' = 1 .. n /\ Len(queue') = n
  BY <1>2
<1>4. PICK k : k = Cardinality(NotFuzzed)
  OBVIOUS
<1>5. IsFiniteSet(NotFuzzed) /\ k \in Nat /\ k <= n
  BY <1>1, <1>4, NotFuzzedFinite
<1>6. NotFuzzed' = NotFuzzed \ {q} /\ q \in NotFuzzed
  <2>1. queue[q] \in Entry
    BY <1>1, <1>2
  <2>2. queue'[q].wasFuzzed /\ \A p \in 1 .. n : p # q => queue'[p] = queue[p]
    BY <1>1, <1>2, <2>1 DEF Entry
  <2> QED BY <1>1, <1>2, <1>3, <2>2 DEF NotFuzzed
<1>7. Cardinality(NotFuzzed') = k - 1 /\ k # 0 /\ k - 1 \in Nat
  <2>1. Cardinality(NotFuzzed') = k - 1
    BY <1>4, <1>5, <1>6, FS_RemoveElement
  <2>2. k # 0
    BY <1>4, <1>5, <1>6, FS_EmptySet
  <2> QED BY <1>5, <2>1, <2>2
<1>8. ASSUME Len(queue') < CounterRange PROVE NotFuzzedCounted'
  <2>1. n < CounterRange
    BY <1>3, <1>8
  <2>2. pendingNotFuzzed = k
    BY <1>1, <1>4, <2>1 DEF CountedUntilWrap, NotFuzzedCounted, NotFuzzed
  <2>3. k - 1 < CounterRange
    BY <1>2, <1>5, <2>1, QueueAssumption
  <2>4. pendingNotFuzzed' = k - 1
    BY <1>7, <2>2, <2>3, BelowRange DEF Decremented
  <2> QED BY <1>7, <2>4 DEF NotFuzzedCounted, NotFuzzed
<1> QED BY <1>8 DEF CountedUntilWrap
----------------------------------------------------------------------------
(* The tables after a run *)

\* What learning from the run of a seed leaves true of the tables of m seeds,
\* where t0 are those it starts from.
Learnt(t0, m) ==
    /\ Tables' \in Table(m) /\ Aligned(Tables')
    /\ 0 \in nodes' /\ nodes' \subseteq States
    /\ ToSet(t0.ids) \subseteq ToSet(stateIds') /\ Len(t0.ids) <= Len(stateIds')
    /\ \A p \in 1 .. m : FuzzedFor(fuzzedMap', p) = FuzzedFor(t0.map, p)

LEMMA LearnSound ==
    ASSUME NEW m \in Nat, NEW q \in 1 .. m, NEW e \in Entry, NEW r \in Results, NEW map0,
           NEW t0 \in Table(m), t0 = [Tables EXCEPT !.map = map0], Aligned(t0),
           FuzzedFor(map0, q) = {}, 0 \in nodes, nodes \subseteq States, Learn(q, e, r, map0)
    PROVE  Learnt(t0, m)
<1>1. t0 = [seeds |-> seeds, next |-> nextSeed, ids |-> stateIds, map |-> map0]
  BY DEF Tables
<1>2. Grown(t0, Tables', m) /\ 0 \in nodes' /\ nodes' \subseteq States
  <2>1. CASE r.codes = <<>>
    <3>1. fuzzedMap' = map0 /\ UNCHANGED <<nodes, stateIds, seeds, nextSeed>>
      BY <2>1 DEF Learn, machine
    <3>2. Tables' = t0
      BY <1>1, <3>1 DEF Tables
    <3>3. Grown(t0, t0, m)
      BY GrownOut
    <3> QED BY <3>1, <3>2, <3>3
  <2>2. CASE r.codes # <<>>
    <3>1. r.codes \in Seq(States)
      BY FuzzerAssumption
    <3>2. PICK codes, annotations : codes = r.codes /\ annotations = Annotated(e, r).regions
      OBVIOUS
    <3>3. annotations \in Seq(Seq(States))
      BY <3>2, AnnotatedKeeps DEF Entry
    <3>4. update_state_aware_variables(q, codes, annotations, map0)
      BY <2>2, <3>2 DEF Learn
    <3> QED BY <3>1, <3>2, <3>3, <3>4, Learning
  <2> QED BY <2>1, <2>2
<1>3. Tables'.ids = stateIds' /\ Tables'.map = fuzzedMap'
  BY DEF Tables
<1>4. /\ Tables' \in Table(m) /\ Aligned(Tables')
      /\ ToSet(t0.ids) \subseteq ToSet(Tables'.ids) /\ Len(t0.ids) <= Len(Tables'.ids)
      /\ \A p \in 1 .. m : FuzzedFor(Tables'.map, p) = FuzzedFor(t0.map, p)
  BY <1>2 DEF Grown
<1> QED BY <1>2, <1>3, <1>4 DEF Learnt

\* The parts of the tables.
LEMMA TablesParts ==
    ASSUME NEW n \in Nat, Tables \in Table(n), Aligned(Tables)
    PROVE  /\ seeds \in [ToSet(stateIds) -> Seq(1 .. n)]
           /\ nextSeed \in [ToSet(stateIds) -> Nat]
           /\ stateIds \in Seq(States) /\ ToSet(stateIds) \subseteq States
           /\ fuzzedMap \in Seq([1 .. n -> Cells]) /\ fuzzedMap # <<>>
           /\ Len(fuzzedMap) = Len(stateIds) /\ Len(stateIds) \in Nat \ {0}
<1>1. PICK t : t = Tables
  OBVIOUS
<1>2. t.seeds = seeds /\ t.next = nextSeed /\ t.ids = stateIds /\ t.map = fuzzedMap
  BY <1>1 DEF Tables
<1> QED BY <1>1, <1>2, TableParts

\* The target remains one of the states, of which there may be more.
LEMMA ChoiceStill ==
    ASSUME NEW n \in Nat, Tables \in Table(n), Aligned(Tables), ChoiceTyped, UNCHANGED choice,
           NEW m \in Nat, NEW t0, t0.ids = stateIds, Learnt(t0, m)
    PROVE  ChoiceTyped'
<1>1. Len(stateIds) \in Nat /\ Len(stateIds') \in Nat
  <2>1. Len(stateIds) \in Nat
    BY TablesParts
  <2>2. PICK t : t = Tables'
    OBVIOUS
  <2>3. t.ids = stateIds'
    BY <2>2 DEF Tables
  <2>4. t \in Table(m) /\ Aligned(t)
    BY <2>2 DEF Learnt
  <2>5. Len(t.ids) \in Nat
    BY <2>4, TableParts
  <2> QED BY <2>1, <2>3, <2>5
<1>2. UNCHANGED <<selectedState, stateCycles, target>>
  BY DEF choice
<1>3. /\ ToSet(stateIds) \subseteq ToSet(stateIds') /\ Len(stateIds) <= Len(stateIds')
      /\ 0 \in nodes' /\ nodes' \subseteq States
  BY DEF Learnt
<1> QED BY <1>1, <1>2, <1>3 DEF ChoiceTyped

\* The marks are those of the same seeds.
LEMMA MarkedStill ==
    ASSUME NEW n \in Nat, Len(queue) = n, MarkedOnce,
           Len(queue') = n, \A p \in 1 .. n : queue'[p].wasFuzzed = queue[p].wasFuzzed,
           \A p \in 1 .. n : FuzzedFor(fuzzedMap', p) = FuzzedFor(fuzzedMap, p)
    PROVE  MarkedOnce'
<1>1. \A p \in 1 .. n : IF queue[p].wasFuzzed THEN Cardinality(FuzzedFor(fuzzedMap, p)) = 1
                        ELSE FuzzedFor(fuzzedMap, p) = {}
  BY DEF MarkedOnce
<1>2. \A p \in 1 .. n : IF queue'[p].wasFuzzed THEN Cardinality(FuzzedFor(fuzzedMap', p)) = 1
                        ELSE FuzzedFor(fuzzedMap', p) = {}
  BY <1>1
<1> QED BY <1>2 DEF MarkedOnce

----------------------------------------------------------------------------
(* The steps *)

LEMMA QueueParts ==
    ASSUME QueueTyped
    PROVE  /\ Len(queue) \in Nat /\ DOMAIN queue = 1 .. Len(queue)
           /\ queue \in [1 .. Len(queue) -> Entry]
<1> HIDE DEF Entry
<1> QED BY LenProperties DEF QueueTyped

LEMMA DryRunKeeps ==
    ASSUME FuzzerInv, DryRun
    PROVE  FuzzerInv'
<1>1. PICK n : n = Len(queue)
  OBVIOUS
<1>2. /\ QueueTyped /\ Tables \in Table(n) /\ ChoiceTyped /\ CampaignTyped
      /\ KeepsTraces(queue, topRated) /\ FavoredCoverMap /\ CountedUntilWrap
      /\ Aligned(Tables) /\ MarkedOnce /\ NothingFuzzedYet
  BY <1>1 DEF FuzzerInv, TypeOK, QueueSound, TablesSound
<1>3. n \in Nat /\ DOMAIN queue = 1 .. n /\ queue \in [1 .. n -> Entry]
  BY <1>1, <1>2, QueueParts
<1>4. /\ phase = "dry_run" /\ cur \in 1 .. n
      /\ UNCHANGED <<pendingNotFuzzed, choice, signals, limits, samples>>
  BY <1>3 DEF DryRun
<1>5. PICK seen, last, entries, c, skipped, e :
        /\ seen \in SUBSET Clean /\ last \in Results
        /\ entries = [queue EXCEPT ![cur].initial = TRUE]
        /\ c = Calibrated(entries, cur, last)
        /\ e = Annotated(c.entries[cur], last)
        /\ queue' = [c.entries EXCEPT ![cur] = [e EXCEPT !.calFailed = IF skipped THEN CalChances ELSE @]]
        /\ Rates(c, seen)
        /\ Learn(cur, queue[cur], last, fuzzedMap)
        /\ phase' = IF last.fault = "none" \/ skipped \/ stopSoon THEN phase ELSE "aborted"
        /\ cur' = IF stopSoon THEN Len(queue) + 1 ELSE cur + 1
  BY DEF DryRun
<1>6. /\ entries \in [1 .. n -> Entry]
      /\ \A p \in 1 .. n : Lasting(entries[p]) = Lasting(queue[p])
  <2>1. entries = [queue EXCEPT ![cur] = [queue[cur] EXCEPT !.initial = TRUE]]
    BY <1>5
  <2>2. PICK e0 : e0 = queue[cur]
    OBVIOUS
  <2>3. e0 \in Entry
    BY <1>3, <1>4, <2>2
  <2>4. PICK e1 : e1 = [e0 EXCEPT !.initial = TRUE]
    OBVIOUS
  <2>5. e1 \in Entry /\ Lasting(e1) = Lasting(e0)
    BY <2>3, <2>4 DEF Entry, Lasting
  <2> HIDE DEF Entry, Lasting
  <2> QED BY <1>3, <1>4, <2>1, <2>2, <2>4, <2>5
<1>7. KeepsTraces(entries, topRated)
  <2>1. \A p \in 1 .. n : entries[p].tcRef = queue[p].tcRef /\ entries[p].mini = queue[p].mini
    BY <1>6 DEF Lasting
  <2> QED BY <1>2, <1>3, <1>6, <2>1, KeepsTracesOf
<1>8. Sound(c, entries, n)
  <2>1. topRated \in [Bytes -> {Nobody} \union 1 .. n]
    BY <1>1, <1>2 DEF QueueTyped
  <2> QED BY <1>3, <1>4, <1>5, <1>6, <1>7, <2>1, CalibrationSound
<1>9. /\ queue' \in [1 .. n -> Entry]
      /\ \A p \in 1 .. n : Lasting(queue'[p]) = Lasting(c.entries[p])
  <2>1. c.entries \in [1 .. n -> Entry]
    BY <1>8 DEF Sound
  <2>2. PICK e0 : e0 = c.entries[cur]
    OBVIOUS
  <2>3. e0 \in Entry
    BY <1>4, <2>1, <2>2
  <2>4. e \in Entry /\ Lasting(e) = Lasting(e0)
    BY <1>5, <2>2, <2>3, AnnotatedKeeps
  <2>5. PICK e1 : e1 = [e EXCEPT !.calFailed = IF skipped THEN CalChances ELSE @]
    OBVIOUS
  <2>6. e1 \in Entry /\ Lasting(e1) = Lasting(e)
    BY <2>4, <2>5 DEF Entry, Lasting, CalChances
  <2>7. queue' = [c.entries EXCEPT ![cur] = e1]
    BY <1>5, <2>5
  <2> HIDE DEF Entry, Lasting
  <2> QED BY <1>4, <2>1, <2>2, <2>4, <2>6, <2>7
<1>10. /\ QueueTyped' /\ Len(queue') = n /\ KeepsTraces(queue', topRated') /\ FavoredCoverMap'
       /\ \A p \in 1 .. n : queue'[p].wasFuzzed = queue[p].wasFuzzed
  <2>1. Requeued(c, entries, n, n)
    BY <1>6, <1>8, <1>9 DEF Requeued
  <2>2. seen \in SUBSET Results
    BY <1>5 DEF Clean
  <2>3. pendingNotFuzzed' \in Nat
    BY <1>2, <1>4 DEF QueueTyped
  <2> QED BY <1>1, <1>2, <1>3, <1>5, <2>1, <2>2, <2>3, RequeuedSound
<1>11. CountedUntilWrap'
  <2>1. queue \in Seq(Entry) /\ queue' \in Seq(Entry)
    BY <1>2, <1>10 DEF QueueTyped
  <2> QED BY <1>1, <1>2, <1>4, <1>10, <2>1, CountedStill
<1>12. Learnt(Tables, n)
  <2>1. Tables = [Tables EXCEPT !.map = fuzzedMap] /\ Tables.map = fuzzedMap
    BY DEF Tables
  <2>2. ~ queue[cur].wasFuzzed
    BY <1>1, <1>2, <1>4 DEF NothingFuzzedYet
  <2>3. FuzzedFor(fuzzedMap, cur) = {}
    BY <1>1, <1>2, <1>4, <2>2 DEF MarkedOnce
  <2>4. queue[cur] \in Entry /\ 0 \in nodes /\ nodes \subseteq States
    BY <1>2, <1>3, <1>4 DEF ChoiceTyped
  <2>5. PICK t0, e0 : t0 = Tables /\ e0 = queue[cur]
    OBVIOUS
  <2>6. t0 \in Table(n) /\ t0 = [Tables EXCEPT !.map = fuzzedMap] /\ Aligned(t0)
    BY <1>2, <2>1, <2>5
  <2>7. Learn(cur, e0, last, fuzzedMap) /\ e0 \in Entry
    BY <1>5, <2>4, <2>5
  <2>8. last \in Results /\ 0 \in nodes /\ nodes \subseteq States /\ cur \in 1 .. n /\ n \in Nat
    BY <1>3, <1>4, <1>5, <2>4
  <2>9. Learnt(t0, n)
    BY <2>3, <2>6, <2>7, <2>8, LearnSound
  <2> QED BY <2>5, <2>9
<1>13. ChoiceTyped'
  <2>1. Tables.ids = stateIds /\ UNCHANGED choice
    BY <1>4 DEF Tables
  <2> QED BY <1>2, <1>3, <1>12, <2>1, ChoiceStill
<1>14. MarkedOnce'
  <2>1. \A p \in 1 .. n : FuzzedFor(fuzzedMap', p) = FuzzedFor(fuzzedMap, p)
    BY <1>12 DEF Learnt, Tables
  <2> QED BY <1>1, <1>2, <1>3, <1>10, <2>1, MarkedStill
<1>15. Tables' \in Table(Len(queue')) /\ Aligned(Tables')
  BY <1>10, <1>12 DEF Learnt
<1>16. CampaignTyped'
  <2>1. phase' \in {"dry_run", "aborted"} /\ cur' \in Nat
    BY <1>1, <1>3, <1>4, <1>5
  <2> QED BY <1>2, <1>4, <2>1 DEF CampaignTyped, Phases, signals, limits, samples
<1>17. NothingFuzzedYet'
  BY <1>1, <1>2, <1>4, <1>10 DEF NothingFuzzedYet
<1> QED BY <1>10, <1>11, <1>13, <1>14, <1>15, <1>16, <1>17 DEF FuzzerInv, TypeOK, QueueSound, TablesSound
\* cull_queue sets the marks of favored seeds alone, and covers the map.
LEMMA CullKeeps ==
    ASSUME QueueTyped, KeepsTraces(queue, topRated), FavoredCoverMap, CountedUntilWrap,
           NEW tgt, NEW row, cull_queue(tgt, row), UNCHANGED <<topRated, pendingNotFuzzed, virgin>>
    PROVE  /\ QueueTyped' /\ QueueSound' /\ Len(queue') = Len(queue)
           /\ \A p \in 1 .. Len(queue) : queue'[p].wasFuzzed = queue[p].wasFuzzed
<1>1. PICK n : n = Len(queue)
  OBVIOUS
<1>2. n \in Nat /\ DOMAIN queue = 1 .. n /\ queue \in [1 .. n -> Entry]
  BY <1>1, QueueParts
<1>3. CASE ~ scoreChanged
  <2>1. UNCHANGED <<queue, topRated, scoreChanged, queuedFavored, pendingFavored, pendingNotFuzzed, virgin>>
    BY <1>3 DEF cull_queue
  <2> QED BY <2>1 DEF QueueTyped, QueueSound, FavoredCoverMap, CountedUntilWrap, NotFuzzedCounted
<1>4. CASE scoreChanged
  <2> DEFINE picked == Picked(topRated)
             fav(q) == q \in {topRated[b] : b \in picked} \/ (queue[q].initial /\ queue[q].favored)
  <2>1. /\ scoreChanged' = FALSE
        /\ queuedFavored' = Cardinality(picked)
        /\ pendingFavored' = Cardinality({b \in picked : IsPendingFor(topRated[b], tgt, row)})
        /\ queue' = [q \in DOMAIN queue |->
                       [queue[q] EXCEPT !.favored = fav(q), !.redundant = ~ fav(q)]]
    BY <1>4 DEF cull_queue
  <2>2. /\ picked \subseteq {b \in Bytes : topRated[b] # Nobody}
        /\ \A b \in Bytes : topRated[b] # Nobody =>
              b \in picked \/ \E c \in picked : b \in queue[topRated[c]].mini
    BY PickedCovers
  <2>3. queuedFavored' \in Nat /\ pendingFavored' \in Nat
    <3>1. IsFiniteSet(Bytes)
      BY QueueAssumption, FS_Interval DEF Bytes
    <3>2. /\ picked \in SUBSET Bytes
          /\ {b \in picked : IsPendingFor(topRated[b], tgt, row)} \in SUBSET Bytes
      BY <2>2
    <3>3. IsFiniteSet(picked) /\ IsFiniteSet({b \in picked : IsPendingFor(topRated[b], tgt, row)})
      BY <3>1, <3>2, FS_Subset
    <3> QED BY <2>1, <3>3, FS_CardinalityType
  <2> HIDE DEF picked
  <2>4. ASSUME NEW q \in 1 .. n
        PROVE  /\ queue'[q] \in Entry /\ queue'[q].favored = fav(q)
               /\ queue'[q].wasFuzzed = queue[q].wasFuzzed
               /\ queue'[q].tcRef = queue[q].tcRef /\ queue'[q].mini = queue[q].mini
    <3>1. PICK e : e = queue[q]
      OBVIOUS
    <3>2. e \in Entry
      BY <1>2, <3>1
    <3>3. PICK v \in BOOLEAN : v = fav(q)
      <4>1. queue[q].initial \in BOOLEAN /\ queue[q].favored \in BOOLEAN
        BY <3>1, <3>2 DEF Entry
      <4> QED BY <4>1
    <3>4. queue'[q] = [e EXCEPT !.favored = v, !.redundant = ~ v]
      BY <1>2, <2>1, <3>1, <3>3
    <3> HIDE DEF fav
    <3> QED BY <3>1, <3>2, <3>3, <3>4 DEF Entry
  <2>5. DOMAIN queue' = 1 .. n
    BY <1>2, <2>1
  <2>6. queue' \in Seq(Entry) /\ Len(queue') = n
    <3>1. queue' = [q \in 1 .. n |-> queue'[q]]
      BY <1>2, <2>1
    <3>2. queue' \in [1 .. n -> Entry]
      BY <2>4, <3>1
    <3> HIDE DEF Entry
    <3> QED BY <1>2, <3>2
  <2>7. QueueTyped'
    BY <1>1, <2>1, <2>3, <2>6 DEF QueueTyped
  <2>8. KeepsTraces(queue', topRated')
    <3>1. KeepsTraces(queue', topRated)
      BY <1>2, <2>4, <2>5, KeepsTracesOf
    <3> QED BY <3>1
  <2>9. FavoredCoverMap'
    <3>1. ASSUME NEW b \in Bytes, topRated[b] # Nobody
          PROVE  \E q \in DOMAIN queue' : queue'[q].favored /\ (b \in queue'[q].mini \/ topRated[b] = q)
      <4>1. PICK c \in picked : b = c \/ b \in queue[topRated[c]].mini
        BY <2>2, <3>1
      <4>2. PICK q : q = topRated[c]
        OBVIOUS
      <4>3. c \in Bytes /\ q # Nobody
        BY <2>2, <4>2
      <4>4. q \in 1 .. n
        BY <1>1, <4>2, <4>3 DEF QueueTyped
      <4>5. fav(q)
        BY <4>2
      <4>6. queue'[q].favored /\ (b \in queue'[q].mini \/ topRated[b] = q)
        BY <2>4, <4>1, <4>2, <4>4, <4>5
      <4> QED BY <2>5, <4>4, <4>6
    <3> QED BY <3>1 DEF FavoredCoverMap
  <2>10. CountedUntilWrap'
    <3>1. queue \in Seq(Entry) /\ queue' \in Seq(Entry)
      BY <2>6 DEF QueueTyped
    <3> QED BY <1>1, <2>4, <2>6, <3>1, CountedStill
  <2> QED BY <1>1, <2>4, <2>6, <2>7, <2>8, <2>9, <2>10 DEF QueueSound
<1> QED BY <1>3, <1>4

LEMMA StartFuzzingKeeps ==
    ASSUME FuzzerInv, StartFuzzing
    PROVE  FuzzerInv'
<1>1. /\ QueueTyped /\ Tables \in Table(Len(queue)) /\ ChoiceTyped /\ CampaignTyped
      /\ KeepsTraces(queue, topRated) /\ FavoredCoverMap /\ CountedUntilWrap
      /\ Aligned(Tables) /\ MarkedOnce
  BY DEF FuzzerInv, TypeOK, QueueSound, TablesSound
<1>2. /\ cull_queue(target, Row(target))
      /\ phase' \in {"ended", "aborted", "select"} /\ cur' = 0
      /\ UNCHANGED <<topRated, pendingNotFuzzed, virgin>>
      /\ UNCHANGED <<targetVars, signals, limits, samples>>
  BY DEF StartFuzzing
<1>3. /\ QueueTyped' /\ QueueSound' /\ Len(queue') = Len(queue)
      /\ \A p \in 1 .. Len(queue) : queue'[p].wasFuzzed = queue[p].wasFuzzed
  <2>1. PICK tgt, row : tgt = target /\ row = Row(target)
    OBVIOUS
  <2>2. cull_queue(tgt, row)
    BY <1>2, <2>1
  <2> QED BY <1>1, <1>2, <2>2, CullKeeps
<1>4. UNCHANGED <<nodes, seeds, nextSeed, stateIds, fuzzedMap, selectedState, stateCycles, target>>
  BY <1>2 DEF targetVars, machine, choice
<1>5. Tables' = Tables
  BY <1>4 DEF Tables
<1>6. ChoiceTyped'
  BY <1>1, <1>4 DEF ChoiceTyped
<1>7. CampaignTyped'
  BY <1>1, <1>2 DEF CampaignTyped, Phases, signals, limits, samples
<1>8. MarkedOnce'
  BY <1>1, <1>3, <1>4 DEF MarkedOnce
<1>9. NothingFuzzedYet'
  BY <1>2 DEF NothingFuzzedYet
<1> QED BY <1>1, <1>3, <1>5, <1>6, <1>7, <1>8, <1>9 DEF FuzzerInv, TypeOK, TablesSound

LEMMA SelectSeedKeeps ==
    ASSUME FuzzerInv, SelectSeed
    PROVE  FuzzerInv'
<1>1. PICK n : n = Len(queue)
  OBVIOUS
<1>2. /\ QueueTyped /\ Tables \in Table(n) /\ ChoiceTyped /\ CampaignTyped
      /\ KeepsTraces(queue, topRated) /\ FavoredCoverMap /\ CountedUntilWrap
      /\ Aligned(Tables) /\ MarkedOnce
  BY <1>1 DEF FuzzerInv, TypeOK, QueueSound, TablesSound
<1>3. n \in Nat /\ DOMAIN queue = 1 .. n
  BY <1>1, <1>2, QueueParts
<1>4. /\ seeds \in [ToSet(stateIds) -> Seq(1 .. n)] /\ nextSeed \in [ToSet(stateIds) -> Nat]
      /\ stateIds \in Seq(States) /\ ToSet(stateIds) \subseteq States
      /\ fuzzedMap \in Seq([1 .. n -> Cells])
      /\ Len(stateIds) \in Nat \ {0}
  BY <1>2, <1>3, TablesParts
<1>5. /\ phase = "select" /\ choose_target_state(StateMode)
      /\ cull_queue(target', Row(target'))
      /\ UNCHANGED <<topRated, pendingNotFuzzed, virgin>>
      /\ UNCHANGED <<machine, seeds, fuzzedMap, signals, uninterestingTimes, chatTimes, samples>>
  BY DEF SelectSeed
<1>6. PICK q \in {Nobody} \union 1 .. n :
        /\ choose_seed(target', q)
        /\ IF q = Nobody \/ queue[q].regions = <<>>
           THEN UNCHANGED <<phase, cur, subseqTmouts>>
           ELSE /\ cur' = q /\ subseqTmouts' = 0
                /\ phase' = IF M2Regions(queue[q].regions, target') = {}
                            THEN (IF stopSoon THEN "ended" ELSE phase)
                            ELSE IF IsStalled THEN "stall" ELSE "fuzz"
  BY <1>3 DEF SelectSeed
<1>7. /\ QueueTyped' /\ QueueSound' /\ Len(queue') = n
      /\ \A p \in 1 .. n : queue'[p].wasFuzzed = queue[p].wasFuzzed
  <2>1. PICK tgt, row : tgt = target' /\ row = Row(target')
    OBVIOUS
  <2>2. cull_queue(tgt, row)
    BY <1>5, <2>1
  <2> QED BY <1>1, <1>2, <1>5, <2>2, CullKeeps
<1>8. /\ target' \in ToSet(stateIds)
      /\ selectedState' \in 0 .. (Len(stateIds) - 1) /\ stateCycles' \in Nat
  <2>1. PICK mode : mode = StateMode
    OBVIOUS
  <2>2. mode \in {"random", "round_robin", "favor"} /\ choose_target_state(mode)
    BY <1>5, <2>1, FuzzerAssumption
  <2>3. selectedState \in 0 .. (Len(stateIds) - 1) /\ stateCycles \in Nat /\ Len(stateIds) # 0
    BY <1>2, <1>4 DEF ChoiceTyped
  <2> QED BY <1>4, <2>2, <2>3, TargetChosen
<1>9. UNCHANGED <<nodes, stateIds, seeds, fuzzedMap>>
  BY <1>5 DEF machine
<1>10. ChoiceTyped'
  BY <1>2, <1>8, <1>9 DEF ChoiceTyped
<1>11. /\ nextSeed' \in [ToSet(stateIds) -> Nat]
       /\ \A s \in ToSet(stateIds) : nextSeed'[s] = nextSeed[s] \/ nextSeed'[s] < Len(seeds[s])
  <2>1. CASE nextSeed' = nextSeed
    BY <1>4, <2>1
  <2>2. CASE nextSeed' # nextSeed
    <3>1. PICK next \in 0 .. (Len(seeds[target']) - 1) : nextSeed' = [nextSeed EXCEPT ![target'] = next]
      BY <1>6, <2>2 DEF choose_seed
    <3>2. PICK tgt : tgt = target'
      OBVIOUS
    <3>3. seeds[tgt] \in Seq(1 .. n)
      BY <1>4, <1>8, <3>2
    <3>4. Len(seeds[tgt]) \in Nat
      BY <3>3
    <3>5. next \in Nat /\ next < Len(seeds[tgt])
      BY <3>1, <3>2, <3>4
    <3> QED BY <1>4, <3>1, <3>2, <3>5
  <2> QED BY <2>1, <2>2
<1>12. Tables' = [seeds |-> seeds, next |-> nextSeed', ids |-> stateIds, map |-> fuzzedMap]
  BY <1>9 DEF Tables
<1>13. Tables' \in Table(n)
  <2>1. PICK next : next = nextSeed'
    OBVIOUS
  <2> QED BY <1>4, <1>11, <1>12, <2>1, TableMade
<1>14. Aligned(Tables')
  <2>1. PICK t, u : t = Tables /\ u = Tables'
    OBVIOUS
  <2>2. /\ u.seeds = t.seeds /\ u.ids = t.ids /\ u.map = t.map /\ u.next = nextSeed' /\ t.next = nextSeed
        /\ t.ids = stateIds /\ t.seeds = seeds
    BY <1>12, <2>1 DEF Tables
  <2>3. Aligned(t)
    BY <1>2, <2>1
  <2>4. \A s \in ToSet(t.ids) : u.next[s] = t.next[s] \/ u.next[s] < Len(t.seeds[s])
    BY <1>11, <2>2
  <2>5. DOMAIN u.next = ToSet(t.ids)
    BY <1>11, <2>2
  <2>6. Aligned(u)
    BY <2>2, <2>3, <2>4, <2>5 DEF Aligned
  <2> QED BY <2>1, <2>6
<1>15. MarkedOnce'
  BY <1>1, <1>2, <1>7, <1>9 DEF MarkedOnce
<1>16. CampaignTyped'
  <2>1. /\ phase' \in Phases \ {"dry_run", "abandon"} /\ cur' \in Nat /\ subseqTmouts' \in Nat
        /\ phase' \in {"stall", "fuzz"} => cur' \in 1 .. n
    <3>1. CASE q = Nobody \/ queue[q].regions = <<>>
      BY <1>2, <1>5, <1>6, <3>1 DEF CampaignTyped, Phases
    <3>2. CASE ~ (q = Nobody \/ queue[q].regions = <<>>)
      BY <1>3, <1>5, <1>6, <3>2 DEF Phases, Nobody
    <3> QED BY <3>1, <3>2
  <2> QED BY <1>2, <1>5, <1>7, <2>1 DEF CampaignTyped, signals, samples
<1>17. NothingFuzzedYet'
  <2>1. phase' # "dry_run"
    BY <1>5, <1>6
  <2> QED BY <2>1 DEF NothingFuzzedYet
<1> QED BY <1>7, <1>10, <1>13, <1>14, <1>15, <1>16, <1>17 DEF FuzzerInv, TypeOK, TablesSound
----------------------------------------------------------------------------
(* What is kept of a run *)

\* FuzzerInv without the program's place and its signals.
CoreInv ==
    /\ QueueTyped /\ Tables \in Table(Len(queue)) /\ ChoiceTyped
    /\ QueueSound /\ Aligned(Tables) /\ MarkedOnce

SamplesTyped == virginTmout \in Maps /\ virginCrash \in Maps /\ hangs \in Nat /\ crashes \in Nat

LEMMA NotQueuedKeeps ==
    ASSUME CoreInv, NotQueued, UNCHANGED choice
    PROVE  CoreInv' /\ UNCHANGED queue
<1>1. UNCHANGED <<queue, topRated, scoreChanged, queuedFavored, pendingFavored, pendingNotFuzzed, virgin>>
  BY DEF NotQueued, queueVars, counters
<1>2. UNCHANGED <<nodes, stateIds, seeds, nextSeed, fuzzedMap, selectedState, stateCycles, target>>
  BY DEF NotQueued, machine, choice
<1>3. QueueTyped'
  BY <1>1 DEF CoreInv, QueueTyped
<1>4. QueueSound'
  BY <1>1 DEF CoreInv, QueueSound, FavoredCoverMap, CountedUntilWrap, NotFuzzedCounted
<1>5. Tables' = Tables
  BY <1>2 DEF Tables
<1>6. ChoiceTyped'
  BY <1>2 DEF CoreInv, ChoiceTyped
<1>7. MarkedOnce'
  BY <1>1, <1>2 DEF CoreInv, MarkedOnce
<1> QED BY <1>1, <1>3, <1>4, <1>5, <1>6, <1>7 DEF CoreInv

\* The new seed is the last of the queue, with a column of its own in the map
\* of fuzzed seeds, which its response alone fills.
LEMMA EnqueueKeeps ==
    ASSUME CoreInv, SamplesTyped, NEW r \in Results, NEW after, Enqueue(r, after), UNCHANGED choice
    PROVE  /\ CoreInv' /\ SamplesTyped' /\ Len(queue) <= Len(queue')
           /\ phase' \in {after, "aborted"}
<1>1. PICK n, q : n = Len(queue) /\ q = Len(queue) + 1
  OBVIOUS
<1>2. /\ QueueTyped /\ Tables \in Table(n) /\ ChoiceTyped
      /\ KeepsTraces(queue, topRated) /\ FavoredCoverMap /\ CountedUntilWrap
      /\ Aligned(Tables) /\ MarkedOnce
  BY <1>1 DEF CoreInv, QueueSound
<1>3. n \in Nat /\ DOMAIN queue = 1 .. n /\ queue \in [1 .. n -> Entry] /\ q = n + 1 /\ n + 1 \in Nat
  BY <1>1, <1>2, QueueParts
<1>4. PICK e0 : e0 = [NewEntry(target) EXCEPT !.regions = [i \in DOMAIN r.annotations |-> <<>>]]
  OBVIOUS
<1>5. /\ pendingNotFuzzed' = (pendingNotFuzzed + 1) % CounterRange
      /\ Learn(q, e0, r, NewColumn(fuzzedMap))
      /\ UNCHANGED samples
  BY <1>1, <1>4 DEF Enqueue
<1>6. PICK seen, last, e, c :
        /\ seen \in SUBSET Clean /\ last \in Results
        /\ e = Annotated(e0, r)
        /\ c = Calibrated(Append(queue, e), q, last)
        /\ queue' = c.entries
        /\ Rates(c, seen \union {r})
        /\ phase' = IF last.fault = "error" THEN "aborted" ELSE after
  BY <1>1, <1>4 DEF Enqueue
<1>7. e0 \in Entry /\ Lasting(e0) = <<FALSE, FALSE, NoTrace, 0>>
  <2>1. target \in States
    BY <1>2, <1>3, TablesParts DEF ChoiceTyped
  <2>2. PICK s, annotations : s = target /\ annotations = r.annotations
    OBVIOUS
  <2>3. annotations \in Seq(Seq(States))
    BY <2>2, FuzzerAssumption
  <2>4. PICK regions : regions = [i \in DOMAIN annotations |-> <<>>]
    OBVIOUS
  <2>5. regions \in Seq(Seq(States))
    <3>1. Len(annotations) \in Nat /\ DOMAIN annotations = 1 .. Len(annotations)
      BY <2>3
    <3>2. <<>> \in Seq(States)
      OBVIOUS
    <3> QED BY <2>4, <3>1, <3>2
  <2>6. e0 = [NewEntry(s) EXCEPT !.regions = regions]
    BY <1>4, <2>2, <2>4
  <2> QED BY <2>1, <2>2, <2>5, <2>6, FreshEntry
<1>8. e \in Entry /\ e.mini = NoTrace /\ e.tcRef = 0 /\ ~ e.wasFuzzed
  <2>1. e \in Entry /\ Lasting(e) = Lasting(e0)
    BY <1>6, <1>7, AnnotatedKeeps
  <2> QED BY <1>7, <2>1 DEF Lasting
<1>9. PICK es : es = Append(queue, e)
  OBVIOUS
<1>10. topRated \in [Bytes -> {Nobody} \union 1 .. n]
  BY <1>1, <1>2 DEF QueueTyped
<1>11. /\ es \in [1 .. (n + 1) -> Entry] /\ es[n + 1] = e
       /\ \A p \in 1 .. n : es[p] = queue[p]
       /\ KeepsTraces(es, topRated)
  <2>1. n \in Nat /\ queue \in [1 .. n -> Entry] /\ KeepsTraces(queue, topRated)
    BY <1>2, <1>3
  <2>2. e \in Entry /\ e.mini = NoTrace /\ e.tcRef = 0
    BY <1>8
  <2>3. WithSeed(es, e, n)
    BY <1>9, <1>10, <2>1, <2>2, AddedSound
  <2> QED BY <2>3 DEF WithSeed
<1>12. Sound(c, es, n + 1)
  <2>1. topRated \in [Bytes -> {Nobody} \union 1 .. (n + 1)]
    BY <1>3, <1>10
  <2>2. c = Calibrated(es, q, last) /\ q \in 1 .. (n + 1)
    BY <1>3, <1>6, <1>9
  <2>3. last \in Results /\ n + 1 \in Nat
    BY <1>3, <1>6
  <2> QED BY <1>11, <2>1, <2>2, <2>3, CalibrationSound
<1>13. c.entries \in [1 .. (n + 1) -> Entry] /\ ~ c.entries[n + 1].wasFuzzed
  BY <1>3, <1>8, <1>11, <1>12 DEF Sound
<1>14. /\ QueueTyped' /\ Len(queue') = n + 1
       /\ KeepsTraces(queue', topRated') /\ FavoredCoverMap'
       /\ \A p \in 1 .. n : queue'[p].wasFuzzed = queue[p].wasFuzzed
  <2>1. Requeued(c, es, n, n + 1)
    <3>1. \A p \in 1 .. n : Lasting(es[p]) = Lasting(queue[p])
      BY <1>11
    <3>2. queue' \in [1 .. (n + 1) -> Entry] /\ \A p \in 1 .. (n + 1) : Lasting(queue'[p]) = Lasting(c.entries[p])
      BY <1>6, <1>13
    <3> QED BY <1>12, <3>1, <3>2 DEF Requeued
  <2>2. PICK all : all = seen \union {r}
    OBVIOUS
  <2>3. all \in SUBSET Results /\ Rates(c, all)
    BY <1>6, <2>2 DEF Clean
  <2>4. pendingNotFuzzed' \in Nat
    BY <1>2, <1>5, InRange DEF QueueTyped
  <2>5. PICK m : m = n + 1
    OBVIOUS
  <2>6. Requeued(c, es, n, m)
    BY <2>1, <2>5
  <2> QED BY <1>1, <1>2, <1>3, <2>3, <2>4, <2>5, <2>6, RequeuedSound
<1>15. CountedUntilWrap'
  <2>1. queue \in Seq(Entry) /\ queue' \in Seq(Entry)
    BY <1>2, <1>14 DEF QueueTyped
  <2>2. ~ queue'[n + 1].wasFuzzed
    BY <1>6, <1>13
  <2> QED BY <1>1, <1>2, <1>5, <1>14, <2>1, <2>2, CountedOneMore
<1>16. PICK t0 : t0 = [Tables EXCEPT !.map = NewColumn(fuzzedMap)]
  OBVIOUS
<1>17. /\ t0 \in Table(n + 1) /\ Aligned(t0) /\ t0.ids = stateIds /\ t0.map = NewColumn(fuzzedMap)
       /\ FuzzedFor(t0.map, n + 1) = {}
       /\ \A p \in 1 .. n : FuzzedFor(t0.map, p) = FuzzedFor(fuzzedMap, p)
  <2>1. PICK t : t = Tables
    OBVIOUS
  <2>2. t.map = fuzzedMap /\ t.ids = stateIds /\ t0 = [t EXCEPT !.map = NewColumn(t.map)]
    BY <1>16, <2>1 DEF Tables
  <2>3. t \in Table(n) /\ Aligned(t)
    BY <1>2, <2>1
  <2>4. /\ t0 \in Table(n + 1) /\ Aligned(t0) /\ FuzzedFor(t0.map, n + 1) = {}
        /\ \A p \in 1 .. n : FuzzedFor(t0.map, p) = FuzzedFor(t.map, p)
        /\ t0.ids = t.ids
    <3>1. n \in Nat
      BY <1>3
    <3>2. t0 = [t EXCEPT !.map = NewColumn(t.map)]
      BY <2>2
    <3>3. Widened(t, t0, n)
      BY <2>3, <3>1, <3>2, ColumnAdded
    <3> QED BY <3>3 DEF Widened
  <2>5. t0.map = NewColumn(fuzzedMap)
    BY <1>16 DEF Tables
  <2> QED BY <2>2, <2>4, <2>5
<1>18. Learnt(t0, n + 1)
  <2>1. PICK map0 : map0 = NewColumn(fuzzedMap)
    OBVIOUS
  <2>2. PICK m : m = n + 1
    OBVIOUS
  <2>3. m \in Nat /\ q \in 1 .. m
    BY <1>3, <2>2
  <2>4. t0 \in Table(m) /\ t0 = [Tables EXCEPT !.map = map0] /\ Aligned(t0) /\ FuzzedFor(map0, q) = {}
    BY <1>3, <1>16, <1>17, <2>1, <2>2
  <2>5. Learn(q, e0, r, map0) /\ 0 \in nodes /\ nodes \subseteq States
    BY <1>2, <1>5, <2>1 DEF ChoiceTyped
  <2> QED BY <1>7, <2>2, <2>3, <2>4, <2>5, LearnSound
<1>19. ChoiceTyped'
  <2>1. PICK m : m = n + 1
    OBVIOUS
  <2>2. m \in Nat /\ Learnt(t0, m)
    BY <1>3, <1>18, <2>1
  <2> QED BY <1>2, <1>3, <1>17, <2>2, ChoiceStill
<1>20. MarkedOnce'
  <2>1. \A p \in 1 .. (n + 1) : FuzzedFor(fuzzedMap', p) = FuzzedFor(t0.map, p)
    BY <1>18 DEF Learnt
  <2>2. ASSUME NEW p \in 1 .. n
        PROVE  IF queue'[p].wasFuzzed THEN Cardinality(FuzzedFor(fuzzedMap', p)) = 1
               ELSE FuzzedFor(fuzzedMap', p) = {}
    <3>1. FuzzedFor(fuzzedMap', p) = FuzzedFor(fuzzedMap, p)
      BY <1>3, <1>17, <2>1
    <3> QED BY <1>1, <1>2, <1>14, <3>1 DEF MarkedOnce
  <2>3. FuzzedFor(fuzzedMap', n + 1) = {} /\ ~ queue'[n + 1].wasFuzzed
    BY <1>3, <1>6, <1>13, <1>17, <2>1
  <2>4. \A p \in 1 .. (n + 1) : p \in 1 .. n \/ p = n + 1
    BY <1>3
  <2> QED BY <1>14, <2>2, <2>3, <2>4 DEF MarkedOnce
<1>21. Tables' \in Table(Len(queue')) /\ Aligned(Tables')
  BY <1>14, <1>18 DEF Learnt
<1>22. SamplesTyped'
  BY <1>5 DEF SamplesTyped, samples
<1>23. Len(queue) <= Len(queue')
  BY <1>1, <1>3, <1>14
<1>24. phase' \in {after, "aborted"}
  BY <1>6
<1> QED BY <1>14, <1>15, <1>19, <1>20, <1>21, <1>22, <1>23, <1>24 DEF CoreInv, QueueSound

LEMMA SeenTyped ==
    ASSUME NEW trace, NEW map \in Maps
    PROVE  Seen(trace, map) \in Maps
  BY DEF Seen, Maps

LEMMA CrashKept ==
    ASSUME SamplesTyped, NEW trace, KeepCrash(trace)
    PROVE  virginCrash' \in Maps /\ crashes' \in Nat
<1>1. PICK t : t = simplify_trace(trace)
  OBVIOUS
<1>2. virginCrash' = Seen(t, virginCrash) \/ virginCrash' = virginCrash
  BY <1>1 DEF KeepCrash
<1>3. crashes' = crashes + 1 \/ crashes' = crashes
  BY DEF KeepCrash
<1> QED BY <1>2, <1>3, SeenTyped DEF SamplesTyped

LEMMA HangKept ==
    ASSUME SamplesTyped, NEW trace, KeepHang(trace)
    PROVE  SamplesTyped'
<1>1. PICK t : t = simplify_trace(trace)
  OBVIOUS
<1>2. CASE hangs >= KeepHangs \/ has_new_bits(t, virginTmout) = 0
  <2>1. /\ virginTmout' = Seen(t, virginTmout) \/ virginTmout' = virginTmout
        /\ UNCHANGED <<hangs, virginCrash, crashes>>
    BY <1>1, <1>2 DEF KeepHang
  <2> QED BY <2>1, SeenTyped DEF SamplesTyped
<1>3. CASE ~ (hangs >= KeepHangs \/ has_new_bits(t, virginTmout) = 0)
  <2>1. virginTmout' = Seen(t, virginTmout)
    BY <1>1, <1>3 DEF KeepHang
  <2>2. PICK again \in Results :
          IF again.fault = "crash" THEN KeepCrash(again.trace) /\ UNCHANGED hangs
          ELSE /\ hangs' = hangs + (IF again.fault = "tmout" THEN 1 ELSE 0)
               /\ UNCHANGED <<virginCrash, crashes>>
    BY <1>1, <1>3 DEF KeepHang
  <2>3. CASE again.fault = "crash"
    <3>1. virginCrash' \in Maps /\ crashes' \in Nat
      BY <2>2, <2>3, CrashKept
    <3> QED BY <2>1, <2>2, <2>3, <3>1, SeenTyped DEF SamplesTyped
  <2>4. CASE again.fault # "crash"
    BY <2>1, <2>2, <2>4, SeenTyped DEF SamplesTyped
  <2> QED BY <2>3, <2>4
<1> QED BY <1>2, <1>3

LEMMA SaveKeeps ==
    ASSUME CoreInv, SamplesTyped, NEW r \in Results, NEW after, save_if_interesting(r, after), UNCHANGED choice
    PROVE  /\ CoreInv' /\ SamplesTyped' /\ Len(queue) <= Len(queue')
           /\ phase' \in {after, "aborted"}
<1>1. CASE Enqueue(r, after)
  BY <1>1, EnqueueKeeps
<1>2. CASE /\ NotQueued
           /\ phase' = IF r.fault = "error" THEN "aborted" ELSE after
           /\ CASE r.fault = "tmout" -> KeepHang(r.trace)
                [] r.fault = "crash" -> KeepCrash(r.trace) /\ UNCHANGED <<virginTmout, hangs>>
                [] OTHER -> UNCHANGED samples
  <2>1. CoreInv' /\ UNCHANGED queue
    BY <1>2, NotQueuedKeeps
  <2>2. Len(queue) \in Nat
    BY QueueParts DEF CoreInv
  <2>3. SamplesTyped'
    <3>1. CASE r.fault = "tmout"
      <4>1. KeepHang(r.trace)
        BY <1>2, <3>1
      <4> QED BY <4>1, HangKept
    <3>2. CASE r.fault = "crash"
      <4>1. KeepCrash(r.trace) /\ UNCHANGED <<virginTmout, hangs>>
        BY <1>2, <3>2
      <4>2. virginCrash' \in Maps /\ crashes' \in Nat
        BY <4>1, CrashKept
      <4> QED BY <4>1, <4>2 DEF SamplesTyped
    <3>3. CASE r.fault # "tmout" /\ r.fault # "crash"
      <4>1. UNCHANGED samples
        BY <1>2, <3>3
      <4> QED BY <4>1 DEF SamplesTyped, samples
    <3> QED BY <3>1, <3>2, <3>3
  <2> QED BY <1>2, <2>1, <2>2, <2>3
<1> QED BY <1>1, <1>2 DEF save_if_interesting
----------------------------------------------------------------------------
(* The executions of the selected seed *)

LEMMA InvParts ==
    FuzzerInv <=> CoreInv /\ CampaignTyped /\ NothingFuzzedYet
  BY DEF FuzzerInv, TypeOK, QueueSound, TablesSound, CoreInv

LEMMA RunKeeps ==
    ASSUME CoreInv, SamplesTyped, subseqTmouts \in Nat, skipRequested \in BOOLEAN,
           NEW r \in Results, NEW times \in Nat, common_fuzz_stuff(r, times), UNCHANGED choice
    PROVE  /\ CoreInv' /\ SamplesTyped' /\ Len(queue) <= Len(queue')
           /\ phase' \in {"fuzz", "abandon", "aborted"}
           /\ subseqTmouts' \in Nat /\ skipRequested' \in BOOLEAN /\ uninterestingTimes' \in Nat
<1>1. PICK late : late = (r.fault = "tmout" /\ subseqTmouts > TmoutLimit)
  OBVIOUS
<1>2. /\ subseqTmouts' = IF stopSoon \/ late THEN subseqTmouts
                         ELSE IF r.fault = "tmout" THEN subseqTmouts + 1 ELSE 0
      /\ skipRequested' = (skipRequested /\ (stopSoon \/ late))
      /\ IF stopSoon \/ late \/ skipRequested
         THEN /\ phase' = "abandon" /\ uninterestingTimes' = times
              /\ NotQueued /\ UNCHANGED samples
         ELSE /\ save_if_interesting(r, "fuzz")
              /\ uninterestingTimes' = Uninteresting(r, times)
  BY <1>1 DEF common_fuzz_stuff
<1>3. subseqTmouts' \in Nat
  BY <1>2
<1>4. skipRequested' \in BOOLEAN
  BY <1>2
<1>5. Uninteresting(r, times) \in Nat
  BY DEF Uninteresting
<1>6. CASE stopSoon \/ late \/ skipRequested
  <2>1. CoreInv' /\ UNCHANGED queue
    BY <1>2, <1>6, NotQueuedKeeps
  <2>2. SamplesTyped'
    BY <1>2, <1>6 DEF SamplesTyped, samples
  <2>3. Len(queue) \in Nat
    BY QueueParts DEF CoreInv
  <2> QED BY <1>2, <1>3, <1>4, <1>6, <2>1, <2>2, <2>3
<1>7. CASE ~ (stopSoon \/ late \/ skipRequested)
  <2>1. PICK after : after = "fuzz"
    OBVIOUS
  <2>2. save_if_interesting(r, after) /\ uninterestingTimes' = Uninteresting(r, times)
    BY <1>2, <1>7, <2>1
  <2>3. /\ CoreInv' /\ SamplesTyped' /\ Len(queue) <= Len(queue')
        /\ phase' \in {after, "aborted"}
    BY <2>2, SaveKeeps
  <2> QED BY <1>3, <1>4, <1>5, <2>1, <2>2, <2>3
<1> QED BY <1>6, <1>7

\* The seed stays in a queue that grows.
LEMMA CurStays ==
    ASSUME CoreInv, CoreInv', Len(queue) <= Len(queue'), cur \in 1 .. Len(queue), UNCHANGED cur
    PROVE  cur' \in 1 .. Len(queue')
<1>1. Len(queue) \in Nat
  BY QueueParts DEF CoreInv
<1>2. QueueTyped'
  BY DEF CoreInv
<1>3. Len(queue') \in Nat
  <2> HIDE DEF Entry
  <2> QED BY <1>2 DEF QueueTyped
<1> QED BY <1>1, <1>3

LEMMA ExecuteKeeps ==
    ASSUME FuzzerInv, Execute
    PROVE  FuzzerInv'
<1>1. CoreInv /\ CampaignTyped
  BY InvParts
<1>2. PICK r \in Results : common_fuzz_stuff(r, uninterestingTimes)
  BY DEF Execute
<1>3. phase = "fuzz" /\ UNCHANGED <<cur, choice, stopSoon, chatTimes>>
  BY DEF Execute
<1>4. SamplesTyped /\ uninterestingTimes \in Nat /\ subseqTmouts \in Nat /\ skipRequested \in BOOLEAN
  BY <1>1 DEF CampaignTyped, SamplesTyped
<1>5. PICK times \in Nat : times = uninterestingTimes
  BY <1>4
<1>6. /\ CoreInv' /\ SamplesTyped' /\ Len(queue) <= Len(queue')
      /\ phase' \in {"fuzz", "abandon", "aborted"}
      /\ subseqTmouts' \in Nat /\ skipRequested' \in BOOLEAN /\ uninterestingTimes' \in Nat
  <2>1. common_fuzz_stuff(r, times)
    BY <1>2, <1>5
  <2> QED BY <1>1, <1>3, <1>4, <2>1, RunKeeps
<1>7. cur' \in 1 .. Len(queue')
  BY <1>1, <1>3, <1>6, CurStays DEF CampaignTyped
<1>8. CampaignTyped'
  BY <1>1, <1>3, <1>6, <1>7 DEF CampaignTyped, SamplesTyped, Phases
<1>9. NothingFuzzedYet'
  BY <1>6 DEF NothingFuzzedYet
<1> QED BY <1>6, <1>8, <1>9 DEF FuzzerInv, TypeOK, QueueSound, TablesSound, CoreInv

LEMMA AskModelKeeps ==
    ASSUME FuzzerInv, AskModel
    PROVE  FuzzerInv'
<1>1. CoreInv /\ CampaignTyped
  BY InvParts
<1>2. phase = "stall" /\ UNCHANGED <<cur, choice, stopSoon>>
  BY DEF AskModel
<1>3. SamplesTyped /\ subseqTmouts \in Nat /\ skipRequested \in BOOLEAN /\ chatTimes \in Nat
  BY <1>1 DEF CampaignTyped, SamplesTyped
<1>4. /\ CoreInv' /\ SamplesTyped' /\ Len(queue) <= Len(queue')
      /\ phase' \in {"fuzz", "abandon", "aborted"}
      /\ subseqTmouts' \in Nat /\ skipRequested' \in BOOLEAN
      /\ uninterestingTimes' \in Nat /\ chatTimes' \in Nat
  <2>1. CASE /\ phase' = "fuzz" /\ uninterestingTimes' = 0
             /\ chatTimes' \in {chatTimes, chatTimes + 1}
             /\ NotQueued /\ UNCHANGED <<samples, subseqTmouts, skipRequested>>
    <3>1. CoreInv' /\ UNCHANGED queue
      BY <1>1, <1>2, <2>1, NotQueuedKeeps
    <3>2. SamplesTyped'
      BY <1>3, <2>1 DEF SamplesTyped, samples
    <3>3. Len(queue) \in Nat
      BY <1>1, QueueParts DEF CoreInv
    <3> QED BY <1>3, <2>1, <3>1, <3>2, <3>3
  <2>2. CASE chatTimes' = chatTimes + 1 /\ \E r \in Results : common_fuzz_stuff(r, 0)
    <3>1. PICK r \in Results, times \in Nat : common_fuzz_stuff(r, times)
      BY <2>2
    <3>2. /\ CoreInv' /\ SamplesTyped' /\ Len(queue) <= Len(queue')
          /\ phase' \in {"fuzz", "abandon", "aborted"}
          /\ subseqTmouts' \in Nat /\ skipRequested' \in BOOLEAN /\ uninterestingTimes' \in Nat
      BY <1>1, <1>2, <1>3, <3>1, RunKeeps
    <3> QED BY <1>3, <2>2, <3>2
  <2> QED BY <2>1, <2>2 DEF AskModel
<1>5. cur' \in 1 .. Len(queue')
  BY <1>1, <1>2, <1>4, CurStays DEF CampaignTyped
<1>6. CampaignTyped'
  BY <1>1, <1>2, <1>4, <1>5 DEF CampaignTyped, SamplesTyped, Phases
<1>7. NothingFuzzedYet'
  BY <1>4 DEF NothingFuzzedYet
<1> QED BY <1>4, <1>6, <1>7 DEF FuzzerInv, TypeOK, QueueSound, TablesSound, CoreInv

\* The first mark of a seed, in the row of a known state.
LEMMA Marked ==
    ASSUME NEW n \in Nat, Tables \in Table(n), Aligned(Tables), NEW s \in ToSet(stateIds),
           NEW q \in 1 .. n, FuzzedFor(fuzzedMap, q) = {}, UNCHANGED <<seeds, nextSeed, stateIds>>,
           fuzzedMap' = [fuzzedMap EXCEPT ![get_state_index(stateIds, s) + 1][q] = 1]
    PROVE  /\ Tables' \in Table(n) /\ Aligned(Tables')
           /\ Cardinality(FuzzedFor(fuzzedMap', q)) = 1
           /\ \A p \in 1 .. n : p # q => FuzzedFor(fuzzedMap', p) = FuzzedFor(fuzzedMap, p)
<1>1. PICK i, map, more : i = get_state_index(stateIds, s) + 1 /\ map = fuzzedMap /\ more = fuzzedMap'
  OBVIOUS
<1>2. /\ seeds \in [ToSet(stateIds) -> Seq(1 .. n)] /\ nextSeed \in [ToSet(stateIds) -> Nat]
      /\ stateIds \in Seq(States) /\ ToSet(stateIds) \subseteq States
      /\ map \in Seq([1 .. n -> Cells]) /\ Len(map) = Len(stateIds) /\ Len(stateIds) \in Nat \ {0}
  BY <1>1, TablesParts
<1>3. i \in 1 .. Len(map) /\ DOMAIN map = 1 .. Len(map)
  BY <1>1, <1>2, IndexOfState, LenProperties
<1>4. map[i] \in [1 .. n -> Cells]
  BY <1>2, <1>3, ElementOfSeq
<1>5. PICK row : row = [map[i] EXCEPT ![q] = 1]
  OBVIOUS
<1>6. row \in [1 .. n -> Cells] /\ row[q] = 1 /\ \A p \in 1 .. n : p # q => row[p] = map[i][p]
  BY <1>4, <1>5 DEF Cells
<1>7. more = [map EXCEPT ![i] = row]
  BY <1>1, <1>5
<1>8. /\ more \in Seq([1 .. n -> Cells]) /\ Len(more) = Len(map) /\ DOMAIN more = 1 .. Len(map)
      /\ more[i] = row /\ \A j \in 1 .. Len(map) : j # i => more[j] = map[j]
  BY <1>2, <1>3, <1>6, <1>7
<1>9. Tables' = [seeds |-> seeds, next |-> nextSeed, ids |-> stateIds, map |-> more]
  BY <1>1 DEF Tables
<1>10. Tables' \in Table(n)
  BY <1>2, <1>8, <1>9, TableMade
<1>11. Aligned(Tables')
  <2>1. PICK t, u : t = Tables /\ u = Tables'
    OBVIOUS
  <2>2. /\ t = [seeds |-> seeds, next |-> nextSeed, ids |-> stateIds, map |-> map]
        /\ u = [seeds |-> seeds, next |-> nextSeed, ids |-> stateIds, map |-> more]
    BY <1>1, <1>9, <2>1 DEF Tables
  <2>3. Aligned(t)
    BY <2>1
  <2>4. ASSUME NEW x \in ToSet(stateIds), NEW k \in 1 .. Len(seeds[x])
        PROVE  more[get_state_index(stateIds, x) + 1][seeds[x][k]] # Unreachable
    <3>1. PICK j, p : j = get_state_index(stateIds, x) + 1 /\ p = seeds[x][k]
      OBVIOUS
    <3>2. map[j][p] # Unreachable
      BY <2>2, <2>3, <2>4, <3>1 DEF Aligned
    <3>3. j \in 1 .. Len(map)
      BY <1>2, <2>4, <3>1, IndexOfState
    <3>4. p \in 1 .. n
      <4>1. seeds[x] \in Seq(1 .. n)
        BY <1>2, <2>4
      <4> QED BY <2>4, <3>1, <4>1, ElementOfSeq
    <3>5. more[j][p] # Unreachable
      BY <1>6, <1>8, <3>2, <3>3, <3>4 DEF Unreachable
    <3> QED BY <3>1, <3>5
  <2>5. Aligned(u)
    BY <1>8, <2>2, <2>3, <2>4 DEF Aligned
  <2> QED BY <2>1, <2>5
<1>12. Cardinality(FuzzedFor(more, q)) = 1
  <2>1. FuzzedFor(more, q) = {i}
    BY <1>1, <1>3, <1>6, <1>8 DEF FuzzedFor
  <2> QED BY <2>1, FS_Singleton
<1>13. \A p \in 1 .. n : p # q => FuzzedFor(more, p) = FuzzedFor(map, p)
  BY <1>3, <1>6, <1>8 DEF FuzzedFor
<1> QED BY <1>1, <1>10, <1>11, <1>12, <1>13

LEMMA LeaveSeedKeeps ==
    ASSUME FuzzerInv, LeaveSeed
    PROVE  FuzzerInv'
<1>1. PICK n : n = Len(queue)
  OBVIOUS
<1>2. /\ QueueTyped /\ Tables \in Table(n) /\ ChoiceTyped /\ CampaignTyped
      /\ KeepsTraces(queue, topRated) /\ FavoredCoverMap /\ CountedUntilWrap
      /\ Aligned(Tables) /\ MarkedOnce
  BY <1>1 DEF FuzzerInv, TypeOK, QueueSound, TablesSound
<1>3. n \in Nat /\ DOMAIN queue = 1 .. n /\ queue \in [1 .. n -> Entry]
  BY <1>1, <1>2, QueueParts
<1>4. /\ phase \in {"fuzz", "abandon"} /\ phase' \in AfterSeed
      /\ UNCHANGED <<topRated, scoreChanged, queuedFavored, virgin, machine, seeds, nextSeed>>
      /\ UNCHANGED <<choice, cur, signals, limits, samples>>
  BY DEF LeaveSeed
<1>5. UNCHANGED <<nodes, stateIds, selectedState, stateCycles, target>>
  BY <1>4 DEF machine, choice
<1>6. ChoiceTyped'
  BY <1>2, <1>5 DEF ChoiceTyped
<1>7. cur \in 1 .. n
  BY <1>1, <1>2, <1>4 DEF CampaignTyped
<1>8. ASSUME FirstVisit(cur) PROVE CoreInv'
  <2>1. /\ queue' = [queue EXCEPT ![cur].wasFuzzed = TRUE]
        /\ fuzzedMap' = [fuzzedMap EXCEPT ![get_state_index(stateIds, target) + 1][cur] = 1]
        /\ pendingNotFuzzed' = Decremented(pendingNotFuzzed)
        /\ pendingFavored' = IF queue[cur].favored THEN Decremented(pendingFavored) ELSE pendingFavored
        /\ ~ queue[cur].wasFuzzed
    BY <1>8 DEF LeaveSeed, FirstVisit
  <2>2. PICK e : e = [queue[cur] EXCEPT !.wasFuzzed = TRUE]
    OBVIOUS
  <2>3. /\ e \in Entry /\ e.wasFuzzed /\ e.favored = queue[cur].favored
        /\ e.mini = queue[cur].mini /\ e.tcRef = queue[cur].tcRef
    <3>1. PICK e0 : e0 = queue[cur]
      OBVIOUS
    <3>2. e0 \in Entry /\ e = [e0 EXCEPT !.wasFuzzed = TRUE]
      BY <1>3, <1>7, <2>2, <3>1
    <3> QED BY <3>1, <3>2 DEF Entry
  <2>4. queue' = [queue EXCEPT ![cur] = e]
    BY <2>1, <2>2
  <2>5. /\ queue' \in [1 .. n -> Entry] /\ DOMAIN queue' = 1 .. n
        /\ queue'[cur] = e /\ \A p \in 1 .. n : p # cur => queue'[p] = queue[p]
    BY <1>3, <1>7, <2>3, <2>4
  <2>6. queue' \in Seq(Entry) /\ Len(queue') = n
    <3> HIDE DEF Entry
    <3> QED BY <1>3, <2>5
  <2>7. \A p \in 1 .. n : /\ queue'[p].favored = queue[p].favored
                          /\ queue'[p].mini = queue[p].mini /\ queue'[p].tcRef = queue[p].tcRef
    BY <2>3, <2>5
  <2>8. QueueTyped'
    <3>1. pendingNotFuzzed' \in Nat /\ pendingFavored' \in Nat
      BY <1>2, <2>1, InRange DEF Decremented, QueueTyped
    <3> QED BY <1>1, <1>2, <1>4, <2>6, <3>1 DEF QueueTyped
  <2>9. KeepsTraces(queue', topRated')
    <3>1. KeepsTraces(queue', topRated)
      BY <1>2, <1>3, <2>5, <2>7, KeepsTracesOf
    <3> QED BY <1>4, <3>1
  <2>10. FavoredCoverMap'
    BY <1>2, <1>3, <1>4, <2>5, <2>7 DEF FavoredCoverMap
  <2>11. CountedUntilWrap'
    <3>1. PICK q \in 1 .. Len(queue) : q = cur
      BY <1>1, <1>7
    <3>2. queue' = [queue EXCEPT ![q].wasFuzzed = TRUE] /\ ~ queue[q].wasFuzzed
      BY <2>1, <3>1
    <3>3. queue \in Seq(Entry)
      BY <1>2 DEF QueueTyped
    <3> QED BY <1>2, <2>1, <3>2, <3>3, CountedOneLess
  <2>12. /\ Tables' \in Table(n) /\ Aligned(Tables')
         /\ Cardinality(FuzzedFor(fuzzedMap', cur)) = 1
         /\ \A p \in 1 .. n : p # cur => FuzzedFor(fuzzedMap', p) = FuzzedFor(fuzzedMap, p)
    <3>1. target \in ToSet(stateIds)
      BY <1>2 DEF ChoiceTyped
    <3>2. FuzzedFor(fuzzedMap, cur) = {}
      BY <1>1, <1>2, <1>7, <2>1 DEF MarkedOnce
    <3>3. PICK s, q : s = target /\ q = cur
      OBVIOUS
    <3>4. /\ s \in ToSet(stateIds) /\ q \in 1 .. n /\ FuzzedFor(fuzzedMap, q) = {}
          /\ fuzzedMap' = [fuzzedMap EXCEPT ![get_state_index(stateIds, s) + 1][q] = 1]
          /\ UNCHANGED <<seeds, nextSeed, stateIds>>
      BY <1>4, <1>5, <1>7, <2>1, <3>1, <3>2, <3>3
    <3>5. /\ Tables' \in Table(n) /\ Aligned(Tables')
          /\ Cardinality(FuzzedFor(fuzzedMap', q)) = 1
          /\ \A p \in 1 .. n : p # q => FuzzedFor(fuzzedMap', p) = FuzzedFor(fuzzedMap, p)
      BY <1>2, <1>3, <3>4, Marked
    <3> QED BY <3>3, <3>5
  <2>13. MarkedOnce'
    BY <1>1, <1>2, <2>3, <2>5, <2>6, <2>12 DEF MarkedOnce
  <2> QED BY <1>6, <2>6, <2>8, <2>9, <2>10, <2>11, <2>12, <2>13 DEF CoreInv, QueueSound
<1>9. ASSUME ~ FirstVisit(cur) PROVE CoreInv'
  <2>1. UNCHANGED <<queue, fuzzedMap, pendingNotFuzzed, pendingFavored>>
    BY <1>9 DEF LeaveSeed
  <2>2. NotQueued
    BY <1>4, <2>1 DEF NotQueued, queueVars, counters
  <2>3. CoreInv
    BY InvParts
  <2> QED BY <1>1, <1>4, <2>1, <2>2, <2>3, NotQueuedKeeps
<1>10. CoreInv'
  BY <1>8, <1>9
<1>11. phase' \in {"ended", "sync", "select"}
  BY <1>4 DEF AfterSeed
<1>12. CampaignTyped'
  BY <1>2, <1>4, <1>11 DEF CampaignTyped, Phases, signals, limits, samples
<1>13. NothingFuzzedYet'
  BY <1>11 DEF NothingFuzzedYet
<1> QED BY <1>10, <1>12, <1>13 DEF FuzzerInv, TypeOK, QueueSound, TablesSound, CoreInv
LEMMA ImportFileKeeps ==
    ASSUME FuzzerInv, ImportFile
    PROVE  FuzzerInv'
<1>1. CoreInv /\ CampaignTyped
  BY InvParts
<1>2. phase = "sync" /\ UNCHANGED <<cur, choice, signals, limits>>
  BY DEF ImportFile
<1>3. SamplesTyped
  BY <1>1 DEF CampaignTyped, SamplesTyped
<1>4. CoreInv' /\ SamplesTyped' /\ phase' \in {"sync", "ended", "aborted"}
  <2>1. CASE stopSoon
    <3>1. phase' = "ended" /\ NotQueued /\ UNCHANGED samples
      BY <2>1 DEF ImportFile
    <3>2. CoreInv'
      BY <1>1, <1>2, <3>1, NotQueuedKeeps
    <3> QED BY <1>3, <3>1, <3>2 DEF SamplesTyped, samples
  <2>2. CASE ~ stopSoon
    <3>1. PICK r, after : r \in Results /\ after = phase /\ save_if_interesting(r, after)
      BY <2>2 DEF ImportFile
    <3>2. CoreInv' /\ SamplesTyped' /\ phase' \in {after, "aborted"}
      BY <1>1, <1>2, <1>3, <3>1, SaveKeeps
    <3> QED BY <1>2, <3>1, <3>2
  <2> QED BY <2>1, <2>2
<1>5. CampaignTyped'
  BY <1>1, <1>2, <1>4 DEF CampaignTyped, SamplesTyped, Phases, signals, limits
<1>6. NothingFuzzedYet'
  BY <1>4 DEF NothingFuzzedYet
<1> QED BY <1>4, <1>5, <1>6 DEF FuzzerInv, TypeOK, QueueSound, TablesSound, CoreInv

LEMMA EndSyncKeeps ==
    ASSUME FuzzerInv, EndSync
    PROVE  FuzzerInv'
<1>1. CoreInv /\ CampaignTyped
  BY InvParts
<1>2. /\ phase' \in {"select", "ended"} /\ NotQueued
      /\ UNCHANGED <<cur, choice, signals, limits, samples>>
  BY DEF EndSync
<1>3. CoreInv'
  BY <1>1, <1>2, NotQueuedKeeps
<1>4. CampaignTyped'
  BY <1>1, <1>2 DEF CampaignTyped, Phases, signals, limits, samples
<1>5. NothingFuzzedYet'
  BY <1>2 DEF NothingFuzzedYet
<1> QED BY <1>3, <1>4, <1>5 DEF FuzzerInv, TypeOK, QueueSound, TablesSound, CoreInv

\* A signal sets a flag, and a step may change nothing.
LEMMA SignalKeeps ==
    ASSUME FuzzerInv, UNCHANGED <<queueVars, targetVars, phase, cur, limits, samples>>,
           stopSoon' \in BOOLEAN, skipRequested' \in BOOLEAN
    PROVE  FuzzerInv'
<1>1. CoreInv /\ CampaignTyped /\ NothingFuzzedYet
  BY InvParts
<1>2. NotQueued /\ UNCHANGED choice
  BY DEF NotQueued, targetVars
<1>3. CoreInv' /\ UNCHANGED queue
  BY <1>1, <1>2, NotQueuedKeeps
<1>4. CampaignTyped'
  BY <1>1, <1>3 DEF CampaignTyped, limits, samples
<1>5. NothingFuzzedYet'
  BY <1>1, <1>3 DEF NothingFuzzedYet
<1> QED BY <1>3, <1>4, <1>5 DEF FuzzerInv, TypeOK, QueueSound, TablesSound, CoreInv

----------------------------------------------------------------------------
(* The invariant *)

LEMMA InitInv ==
    ASSUME Init
    PROVE  FuzzerInv
<1>1. PICK n, initial : n = Len(InitialSeeds) /\ initial = [i \in DOMAIN InitialSeeds |-> SeedRead(InitialSeeds[i])]
  OBVIOUS
<1>2. /\ n \in Nat /\ DOMAIN InitialSeeds = 1 .. n
      /\ \A i \in 1 .. n : InitialSeeds[i] \in Nat
  BY <1>1, FuzzerAssumption
<1>3. /\ queue = initial /\ pendingNotFuzzed = Len(initial)
      /\ topRated = [b \in Bytes |-> Nobody]
      /\ scoreChanged = FALSE /\ queuedFavored = 0 /\ pendingFavored = 0
      /\ virgin = Pristine
  BY <1>1 DEF Init, QueueInit
<1>4. /\ nodes = {0} /\ seeds = [s \in {0} |-> <<>>] /\ nextSeed = [s \in {0} |-> 0]
      /\ stateIds = <<0>> /\ selectedState = 0 /\ stateCycles = 0 /\ target = 0
      /\ fuzzedMap = <<[i \in 1 .. n |-> Unreachable]>>
  BY <1>2 DEF Init, TargetsInit
<1>5. ASSUME NEW i \in 1 .. n
      PROVE  initial[i] \in Entry /\ Lasting(initial[i]) = <<FALSE, FALSE, NoTrace, 0>>
  <2>1. PICK k \in Nat : k = InitialSeeds[i]
    BY <1>2
  <2>2. PICK regions : regions = [j \in 1 .. k |-> <<>>]
    OBVIOUS
  <2>3. regions \in Seq(Seq(States))
    <3>1. <<>> \in Seq(States)
      OBVIOUS
    <3> QED BY <2>2, <3>1
  <2>4. PICK s \in States : s = 0
    BY TargetsAssumption
  <2>5. initial[i] = [NewEntry(s) EXCEPT !.regions = regions]
    BY <1>1, <1>2, <2>1, <2>2, <2>4 DEF SeedRead
  <2> QED BY <2>3, <2>5, FreshEntry
<1>6. DOMAIN initial = 1 .. n /\ initial \in Seq(Entry) /\ Len(initial) = n
  <2>1. DOMAIN initial = 1 .. n /\ initial \in [1 .. n -> Entry]
    BY <1>1, <1>2, <1>5
  <2> HIDE DEF Entry
  <2> QED BY <1>2, <2>1
<1>7. QueueTyped
  <2>1. Pristine \in Maps
    BY DEF Pristine, Maps
  <2> QED BY <1>2, <1>3, <1>6, <2>1 DEF QueueTyped
<1>8. KeepsTraces(queue, topRated)
  <2>1. ASSUME NEW q \in 1 .. n
        PROVE  queue[q].tcRef = 0 /\ queue[q].mini = NoTrace /\ {b \in Bytes : topRated[b] = q} = {}
    <3>1. queue[q].tcRef = 0 /\ queue[q].mini = NoTrace
      BY <1>3, <1>5 DEF Lasting
    <3>2. {b \in Bytes : topRated[b] = q} = {}
      BY <1>3 DEF Nobody
    <3> QED BY <3>1, <3>2
  <2> QED BY <1>3, <1>6, <2>1, FS_EmptySet DEF KeepsTraces
<1>9. FavoredCoverMap
  BY <1>3 DEF FavoredCoverMap
<1>10. CountedUntilWrap
  <2>1. {q \in DOMAIN queue : ~ queue[q].wasFuzzed} = 1 .. n
    BY <1>3, <1>5, <1>6 DEF Lasting
  <2>2. Cardinality(1 .. n) = n
    BY <1>2, FS_Interval
  <2> QED BY <1>3, <1>6, <2>1, <2>2 DEF CountedUntilWrap, NotFuzzedCounted
<1>11. ToSet(stateIds) = {0} /\ Len(stateIds) = 1
  BY <1>4 DEF ToSet
<1>12. Tables = [seeds |-> seeds, next |-> nextSeed, ids |-> stateIds, map |-> fuzzedMap]
  BY DEF Tables
<1>13. fuzzedMap \in Seq([1 .. n -> Cells]) /\ Len(fuzzedMap) = 1
  <2>1. PICK row : row = [i \in 1 .. n |-> Unreachable]
    OBVIOUS
  <2>2. row \in [1 .. n -> Cells] /\ fuzzedMap = <<row>>
    BY <1>4, <2>1 DEF Cells
  <2> QED BY <2>2
<1>14. Tables \in Table(n)
  <2>1. stateIds \in Seq(States) /\ ToSet(stateIds) \subseteq States
    BY <1>4, <1>11, TargetsAssumption
  <2>2. seeds \in [ToSet(stateIds) -> Seq(1 .. n)] /\ nextSeed \in [ToSet(stateIds) -> Nat]
    BY <1>4, <1>11
  <2> QED BY <1>12, <1>13, <2>1, <2>2, TableMade
<1>15. Aligned(Tables)
  <2>1. \A s \in {0} : Len(seeds[s]) = 0 /\ nextSeed[s] = 0
    BY <1>4
  <2>2. DOMAIN seeds = {0} /\ DOMAIN nextSeed = {0}
    BY <1>4
  <2>3. PICK t : t = Tables
    OBVIOUS
  <2>4. t.seeds = seeds /\ t.next = nextSeed /\ t.ids = stateIds /\ t.map = fuzzedMap
    BY <1>12, <2>3
  <2>5. ToSet(t.ids) = {0} /\ Len(t.map) = Len(t.ids)
    BY <1>11, <1>13, <2>4
  <2>6. \A s \in {0} : 1 .. Len(t.seeds[s]) = {} /\ t.next[s] = 0
    BY <2>1, <2>4
  <2>7. Aligned(t)
    BY <2>2, <2>4, <2>5, <2>6 DEF Aligned
  <2> QED BY <2>3, <2>7
<1>16. ChoiceTyped
  BY <1>4, <1>11, TargetsAssumption DEF ChoiceTyped
<1>17. CampaignTyped
  <2>1. Pristine \in Maps
    BY DEF Pristine, Maps
  <2> QED BY <2>1 DEF Init, CampaignTyped, Phases
<1>18. MarkedOnce /\ NothingFuzzedYet
  <2>1. \A q \in 1 .. n : ~ queue[q].wasFuzzed
    BY <1>3, <1>5 DEF Lasting
  <2>2. ASSUME NEW q \in 1 .. n PROVE FuzzedFor(fuzzedMap, q) = {}
    <3>1. DOMAIN fuzzedMap = {1} /\ fuzzedMap[1][q] = Unreachable
      BY <1>4
    <3> QED BY <3>1 DEF FuzzedFor, Unreachable
  <2> QED BY <1>3, <1>6, <2>1, <2>2 DEF MarkedOnce, NothingFuzzedYet
<1> QED BY <1>3, <1>6, <1>7, <1>8, <1>9, <1>10, <1>14, <1>15, <1>16, <1>18, <1>17
        DEF FuzzerInv, TypeOK, QueueSound, TablesSound

\* FuzzerInv is inductive: it holds of the initial states, and every step of the
\* campaign, which any signal may come before, keeps it.
THEOREM FuzzerInvariant == Spec => []FuzzerInv
<1>1. Init => FuzzerInv
  BY InitInv
<1>2. FuzzerInv /\ [Next]_vars => FuzzerInv'
  <2> SUFFICES ASSUME FuzzerInv, [Next]_vars PROVE FuzzerInv'
    OBVIOUS
  <2>1. CASE DryRun
    BY <2>1, DryRunKeeps
  <2>2. CASE StartFuzzing
    BY <2>2, StartFuzzingKeeps
  <2>3. CASE SelectSeed
    BY <2>3, SelectSeedKeeps
  <2>4. CASE AskModel
    BY <2>4, AskModelKeeps
  <2>5. CASE Execute
    BY <2>5, ExecuteKeeps
  <2>6. CASE LeaveSeed
    BY <2>6, LeaveSeedKeeps
  <2>7. CASE ImportFile
    BY <2>7, ImportFileKeeps
  <2>8. CASE EndSync
    BY <2>8, EndSyncKeeps
  <2>9. stopSoon \in BOOLEAN /\ skipRequested \in BOOLEAN
    BY DEF FuzzerInv, TypeOK, CampaignTyped
  <2>10. CASE StopSignal
    BY <2>9, <2>10, SignalKeeps DEF StopSignal
  <2>11. CASE SkipSignal
    BY <2>9, <2>11, SignalKeeps DEF SkipSignal
  <2>12. CASE UNCHANGED vars
    BY <2>9, <2>12, SignalKeeps DEF vars, signals
  <2> QED BY <2>1, <2>2, <2>3, <2>4, <2>5, <2>6, <2>7, <2>8, <2>10, <2>11, <2>12 DEF Next
<1> QED BY <1>1, <1>2, PTL DEF Spec

\* The variables of the campaign keep their types; a seed is in the queue while
\* it is being fuzzed, and the target is a state that has an index.
THEOREM TypeCorrect == Spec => []TypeOK
<1>1. FuzzerInv => TypeOK
  BY DEF FuzzerInv
<1> QED BY <1>1, FuzzerInvariant, PTL

\* The winner of a byte of the map keeps a trace for as long as it wins one, and
\* its reference count is the number of the bytes it wins (update_bitmap_score):
\* cull_queue never reads a freed trace, whatever runs and is calibrated before.
THEOREM TracesKept == Spec => []WinnersKeepTraces
<1>1. FuzzerInv => WinnersKeepTraces
  BY DEF FuzzerInv, QueueSound, KeepsTraces, WinnersKeepTraces
<1> QED BY <1>1, FuzzerInvariant, PTL

\* pending_not_fuzzed is the number of the entries never fuzzed, as long as the
\* queue is smaller than where the unsigned counter wraps.
THEOREM PendingCounted == Spec => [](Len(queue) < CounterRange => NotFuzzedCounted)
<1>1. FuzzerInv => (Len(queue) < CounterRange => NotFuzzedCounted)
  BY DEF FuzzerInv, QueueSound, CountedUntilWrap
<1> QED BY <1>1, FuzzerInvariant, PTL

\* While no score has changed since the last culling, the favored seeds cover
\* every byte that any seed covers (cull_queue).
THEOREM MapCovered == Spec => []FavoredCoverMap
<1>1. FuzzerInv => FavoredCoverMap
  BY DEF FuzzerInv, QueueSound
<1> QED BY <1>1, FuzzerInvariant, PTL

\* was_fuzzed_map has a column for each seed and a row for each state, and a
\* seed listed for a state is marked there as reaching it: choose_seed reads no
\* cell outside of the map, however states and seeds are added.
THEOREM MapStaysAligned == Spec => []MapAligned
<1>1. ASSUME FuzzerInv PROVE MapAligned
  <2>1. PICK n : n = Len(queue)
    OBVIOUS
  <2>2. QueueTyped /\ Tables \in Table(n) /\ Aligned(Tables)
    BY <1>1, <2>1 DEF FuzzerInv, TypeOK, TablesSound
  <2>3. n \in Nat
    BY <2>1, <2>2, QueueParts
  <2>4. /\ seeds \in [ToSet(stateIds) -> Seq(1 .. n)]
        /\ stateIds \in Seq(States) /\ fuzzedMap \in Seq([1 .. n -> Cells]) /\ fuzzedMap # <<>>
        /\ Len(fuzzedMap) = Len(stateIds) /\ Len(stateIds) \in Nat \ {0}
    BY <2>2, <2>3, TablesParts
  <2>5. Columns(fuzzedMap) = Len(queue)
    <3>1. fuzzedMap[1] \in [1 .. n -> Cells]
      BY <2>4, ElementOfSeq
    <3> HIDE DEF Cells
    <3>2. Len(fuzzedMap[1]) = n
      BY <2>3, <3>1
    <3> QED BY <2>1, <2>4, <3>2 DEF Columns
  <2>6. ASSUME NEW s \in DOMAIN seeds
        PROVE  /\ get_state_index(stateIds, s) < Len(fuzzedMap)
               /\ \A q \in ToSet(seeds[s]) : Row(s)[q] # Unreachable
    <3>1. s \in ToSet(stateIds) /\ seeds[s] \in Seq(1 .. n)
      BY <2>4
    <3>2. get_state_index(stateIds, s) < Len(fuzzedMap)
      BY <2>4, <3>1, IndexOfState
    <3>3. \A k \in 1 .. Len(seeds[s]) : Row(s)[seeds[s][k]] # Unreachable
      <4>1. PICK t : t = Tables
        OBVIOUS
      <4>2. t.seeds = seeds /\ t.ids = stateIds /\ t.map = fuzzedMap
        BY <4>1 DEF Tables
      <4>3. Aligned(t)
        BY <2>2, <4>1
      <4> QED BY <3>1, <4>2, <4>3 DEF Aligned, Row
    <3>4. ToSet(seeds[s]) = {seeds[s][k] : k \in 1 .. Len(seeds[s])}
      BY <3>1 DEF ToSet
    <3> QED BY <3>2, <3>3, <3>4
  <2>7. ToSet(stateIds) = DOMAIN seeds
    BY <2>4
  <2> QED BY <2>5, <2>6, <2>7 DEF MapAligned
<1> QED BY <1>1, FuzzerInvariant, PTL

\* Whatever states a seed is fuzzed for and whatever the responses of later runs
\* teach, the map marks it for one state when its entry says that it was fuzzed, and
\* for none before.
THEOREM MarkedForOneState == Spec => []MarkedOnlyOnce
<1>1. ASSUME FuzzerInv PROVE MarkedOnlyOnce
  <2>1. MarkedOnce /\ DOMAIN queue = 1 .. Len(queue)
    BY <1>1, QueueParts DEF FuzzerInv, TypeOK, TablesSound
  <2>2. \A q \in DOMAIN queue : Cardinality(FuzzedFor(fuzzedMap, q)) = IF queue[q].wasFuzzed THEN 1 ELSE 0
    BY <2>1, FS_EmptySet DEF MarkedOnce
  <2> QED BY <2>2 DEF MarkedOnlyOnce, FuzzedFor
<1> QED BY <1>1, FuzzerInvariant, PTL
=============================================================================
