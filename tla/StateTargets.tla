---------------------------- MODULE StateTargets ----------------------------
(***************************************************************************)
(* The state machine that AFLNet and ChatAFL learn of the server under     *)
(* test (afl-fuzz.c): which states have been seen, which seeds reach each, *)
(* and how the next target state and the next seed are chosen.             *)
(*                                                                         *)
(* A seed is its index in the queue, counted from 1.  The counters that    *)
(* only feed the score of a state (fuzzs, paths, paths_discovered,         *)
(* selected_times) are abstracted: a score is any member of Scores.        *)
(***************************************************************************)
EXTENDS Integers, SequencesExt

CONSTANTS
    States,          \* response codes; 0 is the synthetic initial state
    Scores,          \* what the formula of the scores may yield
    RoundRobinCycles \* state_cycles before scores are used (5 in the code)

ASSUME TargetsAssumption ==
    /\ States \subseteq Nat /\ 0 \in States
    /\ Scores \subseteq Nat \ {0} /\ Scores # {}
    /\ RoundRobinCycles \in Nat

VARIABLES
    nodes,           \* the nodes of the graph ipsm
    edges,           \* its edges
    pathsSeen,       \* khs_ipsm_paths: the trimmed sequences (hashes) seen
    seeds,           \* khms_states: state |-> the seeds that reach it
    nextSeed,        \* khms_states: state |-> selected_seed_index
    stateIds,        \* state_ids
    fuzzedMap,       \* was_fuzzed_map: a row per state, a column per seed
    selectedState,   \* selected_state_index
    stateCycles,     \* state_cycles
    target           \* target_state_id

machine == <<nodes, edges, pathsSeen, stateIds>>
choice == <<selectedState, stateCycles, target>>
targetVars == <<machine, seeds, nextSeed, fuzzedMap, choice>>

Unreachable == -1   \* a cell of the map; 0 is reachable, 1 is fuzzed

\* After setup_ipsm.
TargetsInit ==
    /\ nodes = {0} /\ edges = {} /\ pathsSeen = {}
    /\ seeds = [s \in {0} |-> <<>>] /\ nextSeed = [s \in {0} |-> 0]
    /\ stateIds = <<0>>
    /\ selectedState = 0 /\ stateCycles = 0 /\ target = 0

\* The row of a state is its first position in state_ids, counted from 0, and
\* the number of states when it is missing.
get_state_index(ids, s) ==
    IF \E i \in DOMAIN ids : ids[i] = s
    THEN (CHOOSE i \in DOMAIN ids : ids[i] = s /\ \A j \in 1..(i - 1) : ids[j] # s) - 1
    ELSE Len(ids)

Columns(map) == IF map = <<>> THEN 0 ELSE Len(map[1])

\* Old cells are kept, new ones are unreachable.
expand_was_fuzzed_map(map, newStates, newSeeds) ==
    [i \in 1..(Len(map) + newStates) |->
        [j \in 1..(Columns(map) + newSeeds) |->
            IF i <= Len(map) /\ j <= Columns(map) THEN map[i][j] ELSE Unreachable]]

\* The column add_to_queue adds, with the row of state 0 at the first call.
NewColumn(map) == expand_was_fuzzed_map(map, IF map = <<>> THEN 1 ELSE 0, 1)

get_unique_state_count(codes) == Cardinality(ToSet(codes))

\* A code is dropped when it repeats the two before it.
TrimLoops(codes) ==
    LET kept == {i \in DOMAIN codes :
                    ~ (i > 2 /\ codes[i] = codes[i - 1] /\ codes[i] = codes[i - 2])}
    IN [n \in 1..Cardinality(kept) |->
           codes[CHOOSE i \in kept : Cardinality({j \in kept : j <= i}) = n]]

is_state_sequence_interesting(codes) == TrimLoops(codes) \notin pathsSeen

----------------------------------------------------------------------------
(* update_state_aware_variables *)

\* What the call changes, as one record that its parts pass on.
Tables == [seeds |-> seeds, next |-> nextSeed, ids |-> stateIds, map |-> fuzzedMap]

\* A state without a node: a fresh entry of the table replaces any that is
\* there, and the state gets an index and a row.  0 has its row already.
AddState(t, s) ==
    [seeds |-> [x \in DOMAIN t.seeds \union {s} |-> IF x = s THEN <<>> ELSE t.seeds[x]],
     next  |-> [x \in DOMAIN t.next \union {s} |-> IF x = s THEN 0 ELSE t.next[x]],
     ids   |-> Append(t.ids, s),
     map   |-> IF s = 0 THEN t.map ELSE expand_was_fuzzed_map(t.map, 1, 0)]

\* The states of an interesting sequence of two codes or more become nodes.
NodesOf(codes) == IF Len(codes) > 1 THEN ToSet(codes) ELSE {}
EdgesOf(codes) == {<<codes[i - 1], codes[i]>> : i \in 2..Len(codes)}

\* A sequence of one code is not looked through.
Positions(codes) == [i \in 1..(IF Len(codes) > 1 THEN Len(codes) ELSE 0) |-> i]

LearnStates(t, codes) ==
    FoldLeft(LAMBDA u, i : IF codes[i] \in nodes \union ToSet(SubSeq(codes, 1, i - 1))
                           THEN u ELSE AddState(u, codes[i]),
             t, Positions(codes))

\* Mutant: the row of the state is not added with the state.
ReachesWithoutRow(t, s, q) ==
    LET u == IF s \in DOMAIN t.seeds THEN t ELSE [AddState(t, s) EXCEPT !.map = t.map]
    IN [u EXCEPT !.seeds[s] = Append(@, q),
                 !.map = [i \in DOMAIN @ |-> IF i = get_state_index(u.ids, s) + 1
                                             THEN [@[i] EXCEPT ![q] = 0] ELSE @[i]]]

\* The seed q reaches s: listed there, reachable and not fuzzed.  An
\* annotation may show a state that the whole sequence has not shown.
Reaches(t, s, q) ==
    LET u == IF s \in DOMAIN t.seeds THEN t ELSE AddState(t, s)
    IN [u EXCEPT !.seeds[s] = Append(@, q),
                 !.map = [@ EXCEPT ![get_state_index(u.ids, s) + 1][q] = 0]]

\* Every seed reaches 0, and the last state of each region that has codes.
ReachedBy(t, annotations, q) ==
    FoldLeft(LAMBDA u, a : IF a = <<>> THEN u ELSE Reaches(u, Last(a), q),
             Reaches(t, 0, q), annotations)

\* The call for the seed q, the codes of the whole response and those of the
\* response up to each message; map0 is the map with the column of q.
update_state_aware_variables(q, codes, annotations, map0) ==
    LET new == is_state_sequence_interesting(codes)
        t0  == [Tables EXCEPT !.map = map0]
        t   == ReachedBy(IF new THEN LearnStates(t0, codes) ELSE t0, annotations, q)
    IN  /\ pathsSeen' = pathsSeen \union {TrimLoops(codes)}
        /\ nodes' = IF new THEN nodes \union NodesOf(codes) ELSE nodes
        /\ edges' = IF new THEN edges \union EdgesOf(codes) ELSE edges
        /\ seeds' = t.seeds /\ nextSeed' = t.next
        /\ stateIds' = t.ids /\ fuzzedMap' = t.map

----------------------------------------------------------------------------
(* choose_target_state and choose_seed *)

NextIndex(i, n) == IF i + 1 = n THEN 0 ELSE i + 1

RoundRobin(n) ==
    /\ target' = stateIds[selectedState + 1]
    /\ selectedState' = NextIndex(selectedState, n)

\* RANDOM_SELECTION
ChooseRandomState ==
    /\ \E i \in 0..(Len(stateIds) - 1) :
          selectedState' = i /\ target' = stateIds[i + 1]
    /\ UNCHANGED stateCycles

\* ROUND_ROBIN
ChooseNextState == RoundRobin(Len(stateIds)) /\ UNCHANGED stateCycles

\* The first position whose accumulated score is not below val.
index_search(sums, val) ==
    LET found == {i \in DOMAIN sums : val <= sums[i]}
    IN  IF found = {} THEN Len(sums)
        ELSE (CHOOSE i \in found : \A j \in found : i <= j) - 1

Total(scores) == FoldLeft(LAMBDA a, b : a + b, 0, scores)

update_scores_and_select_next_state ==
    \E score \in [DOMAIN stateIds -> Scores] :
        LET sums == [i \in DOMAIN stateIds |-> Total(SubSeq(score, 1, i))]
        IN \E val \in 0..(Last(sums) - 1) :
               target' = stateIds[index_search(sums, val) + 1]

\* FAVOR: some rounds in order, then by score.
ChooseFavoredState ==
    \/ /\ stateCycles < RoundRobinCycles
       /\ RoundRobin(Len(stateIds))
       /\ stateCycles' = stateCycles + (IF selectedState' = 0 THEN 1 ELSE 0)
    \/ /\ stateCycles >= RoundRobinCycles
       /\ update_scores_and_select_next_state
       /\ UNCHANGED <<selectedState, stateCycles>>

choose_target_state(mode) ==
    CASE mode = "random" -> ChooseRandomState
      [] mode = "round_robin" -> ChooseNextState
      [] mode = "favor" -> ChooseFavoredState
=============================================================================
