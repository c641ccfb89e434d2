------------------------------- MODULE Havoc -------------------------------
(***************************************************************************)
(* The random stages of fuzz_one: havoc, which stacks random changes of a  *)
(* buffer within the ranges that a grammar of the protocol leaves open,    *)
(* and splicing, which goes back to havoc with the tail of another seed.   *)
(*                                                                         *)
(* Of the buffer only its size is kept, of a change where it writes.  The  *)
(* ranges of a buffer may overlap: a template is compiled as it stands     *)
(* (Grammar), and every group in it is a range.  Havoc adjusts the ranges  *)
(* as if they never did; what it then writes may lie outside the buffer.   *)
(***************************************************************************)
EXTENDS Integers, Sequences, FiniteSets

CONSTANTS
    MaxFile,        \* MAX_FILE
    Blocks,         \* [min, max] of the block lengths, HAVOC_BLK_SMALL to _XL
    BlockXL,        \* HAVOC_BLK_XL
    TokenSizes,     \* of the extras, user supplied or automatic
    RegionSizes,    \* of the regions of other seeds, and of the seeds
    RegionLevel,    \* region_level_mutation
    MaxRanges,      \* bound: ranges of a decomposition
    MaxStack,       \* 1 << HAVOC_STACK_POW2
    StartScores,    \* what calculate_score returns
    ScoreLimit,     \* HAVOC_MAX_MULT * 100
    StageRuns,      \* stage_max of a stage before it is doubled
    SpliceCycles    \* SPLICE_CYCLES

ASSUME HavocAssumption ==
    /\ {MaxFile, BlockXL, MaxRanges, MaxStack, ScoreLimit, StageRuns} \subseteq Nat \ {0}
    /\ SpliceCycles \in Nat
    /\ Blocks \subseteq [min : 1..BlockXL, max : 1..BlockXL] /\ \A b \in Blocks : b.min <= b.max
    /\ TokenSizes \subseteq Nat \ {0} /\ RegionSizes \subseteq 1..MaxFile
    /\ RegionLevel \in BOOLEAN /\ StartScores \subseteq Nat \ {0}

VARIABLES
    stage,          \* "idle", "enter", "tweak", "run" or "done"
    len,            \* of in_buf
    tempLen,        \* temp_len: of out_buf
    original,       \* original_ranges
    ranges,         \* ranges[0..rc-1]
    stacking,       \* changes still to stack
    score,          \* perf_score
    stageCur, stageMax,
    spliceCycle,
    touched,        \* [from, size]: the bytes written by the last change
    apart           \* history: the ranges were in order and apart when the buffer
                    \* was decomposed, before the changes made since

havocVars == <<stage, len, tempLen, original, ranges, stacking, score, stageCur, stageMax,
              spliceCycle, touched, apart>>

OpenRange == [start : Nat, len : Nat]
AnyRange == [start : Int, len : Nat]        \* moved by more than it starts at
Whole(n) == <<[start |-> 0, len |-> n]>>
NoWrite == [from |-> 0, size |-> 0]
MinOf(a, b) == IF a <= b THEN a ELSE b

\* Ranges in the order of the buffer, without overlaps, inside it.
InOrder(r, n) ==
    /\ \A i \in DOMAIN r : r[i].start + r[i].len <= n
    /\ \A i, j \in DOMAIN r : i < j => r[i].start + r[i].len <= r[j].start

\* What parse_buffer (Grammar) makes of a buffer of n bytes: ranges in it, which
\* it neither sorts nor checks for overlaps.
RangesOf(n) == {r \in [start : 0..n, len : 0..n] : r.start + r.len <= n}
Decompositions(n) == UNION {[1..k -> RangesOf(n)] : k \in 1..MaxRanges}

\* A block of at least min bytes, or of any size when the limit is below it.
choose_block_len(limit) ==
    UNION {(IF b.min >= limit THEN 1 ELSE b.min)..MinOf(b.max, limit) : b \in Blocks}

----------------------------------------------------------------------------

HavocInit ==
    /\ stage = "idle" /\ len = 1 /\ tempLen = 1
    /\ original = Whole(1) /\ ranges = Whole(1)
    /\ stacking = 0 /\ score = 1 /\ stageCur = 0 /\ stageMax = 0
    /\ spliceCycle = 0 /\ touched = NoWrite /\ apart = TRUE

\* fuzz_one with a new M2, the deterministic stages over.
OpenM2 ==
    /\ stage \in {"idle", "done"}
    /\ \E n \in RegionSizes, s \in StartScores : len' = n /\ tempLen' = n /\ score' = s
    /\ stage' = "enter" /\ spliceCycle' = 0
    /\ original' = Whole(len') /\ ranges' = Whole(len') /\ touched' = NoWrite /\ apart' = TRUE
    /\ UNCHANGED <<stacking, stageCur, stageMax>>

\* havoc_stage: the whole buffer is open (explore), or what a grammar says.
HavocStage ==
    /\ stage = "enter"
    /\ stage' = "tweak" /\ stageCur' = 0 /\ stageMax' = StageRuns
    /\ tempLen' = len
    /\ \E r \in {Whole(len)} \union Decompositions(len) : original' = r /\ ranges' = r
    /\ apart' = InOrder(ranges', len)
    /\ stacking' \in 1..MaxStack
    /\ touched' = NoWrite
    /\ UNCHANGED <<len, score, spliceCycle>>

\* The last change was made inside the buffer, and left something of it. The model
\* goes no further after one that was not: memcpy and memmove with a negative size,
\* or UR(0), which divides by zero.
WroteInside ==
    /\ touched.from >= 0 /\ touched.size >= 0 /\ touched.from + touched.size <= tempLen
    /\ tempLen # 0

\* One change is made.
Tweaked ==
    /\ stage = "tweak" /\ WroteInside
    /\ stacking' = stacking - 1
    /\ stage' = IF stacking = 1 THEN "run" ELSE "tweak"
    /\ UNCHANGED <<len, original, score, stageCur, stageMax, spliceCycle>>
Reshaped == Tweaked /\ UNCHANGED apart      \* by every change but ReplaceRegion

Wrote(from, size) == touched' = [from |-> from, size |-> size]
KeepsShape == UNCHANGED <<tempLen, ranges>>

\* Mutant: the ranges behind a deleted block stay where they are.
ResizedAlone(c, d) ==
    [i \in DOMAIN ranges |->
        [start |-> ranges[i].start,
         len |-> IF i = c THEN ranges[i].len + d ELSE ranges[i].len]]

\* Range c grows by d bytes (shrinks, if d is negative), those behind it move.
Resized(c, d) ==
    [i \in DOMAIN ranges |->
        [start |-> IF i > c THEN ranges[i].start + d ELSE ranges[i].start,
         len |-> IF i = c THEN ranges[i].len + d ELSE ranges[i].len]]

\* Cases 0 to 10: flip, set, add to, subtract from a byte, word or dword.
TweakNumber ==
    /\ Reshaped /\ KeepsShape
    /\ \E c \in DOMAIN ranges, size \in {1, 2, 4} :
          IF ranges[c].len < size THEN touched' = NoWrite
          ELSE \E at \in 0..(ranges[c].len - size) : Wrote(ranges[c].start + at, size)

\* Cases 11 and 12.
DeleteBytes ==
    /\ Reshaped
    /\ \E c \in DOMAIN ranges :
          IF ranges[c].len < 2 THEN KeepsShape /\ touched' = NoWrite
          ELSE \E n \in choose_block_len(ranges[c].len - 1) :
               \E at \in 0..(ranges[c].len - n) :
                  /\ Wrote(ranges[c].start + at, tempLen - (ranges[c].start + at) - n)
                  /\ tempLen' = tempLen - n
                  /\ ranges' = Resized(c, -n)

\* Case 13: a block of the buffer, or of one value, is inserted.
CloneBytes ==
    /\ Reshaped
    /\ IF tempLen + BlockXL >= MaxFile THEN KeepsShape /\ touched' = NoWrite
       ELSE \E c \in DOMAIN ranges, n \in choose_block_len(tempLen) \union choose_block_len(BlockXL) :
            \E at \in 0..(IF ranges[c].len = 0 THEN 0 ELSE ranges[c].len - 1) :
               /\ Wrote(ranges[c].start + at, n)
               /\ tempLen' = tempLen + n
               /\ ranges' = Resized(c, n)

\* Case 14.
OverwriteBytes ==
    /\ Reshaped /\ KeepsShape
    /\ \E c \in DOMAIN ranges :
          IF ranges[c].len < 2 THEN touched' = NoWrite
          ELSE \E n \in choose_block_len(ranges[c].len - 1) :
               \E at \in 0..(ranges[c].len - n) : Wrote(ranges[c].start + at, n)

\* Case 15: nothing happens without extras, or with one that is too long.
OverwriteExtra ==
    /\ Reshaped /\ KeepsShape
    /\ \E c \in DOMAIN ranges :
          \/ \E n \in {k \in TokenSizes : k <= ranges[c].len} :
             \E at \in 0..(ranges[c].len - n) : Wrote(ranges[c].start + at, n)
          \/ /\ TokenSizes = {} \/ \E k \in TokenSizes : k > ranges[c].len
             /\ touched' = NoWrite

\* Case 16.
InsertExtra ==
    /\ Reshaped
    /\ \E c \in DOMAIN ranges :
          \/ \E n \in {k \in TokenSizes : tempLen + k < MaxFile} : \E at \in 0..ranges[c].len :
                /\ Wrote(ranges[c].start + at, n)
                /\ tempLen' = tempLen + n
                /\ ranges' = Resized(c, n)
          \/ /\ TokenSizes = {} \/ \E k \in TokenSizes : tempLen + k >= MaxFile
             /\ KeepsShape /\ touched' = NoWrite

\* Cases 17 and 18: the buffer is replaced by a region, parsed anew.
ReplaceRegion ==
    /\ RegionLevel /\ Tweaked
    /\ \/ \E n \in RegionSizes :
             /\ tempLen' = n /\ ranges' \in Decompositions(n) /\ Wrote(0, n)
             /\ apart' = InOrder(ranges', n)
       \/ KeepsShape /\ touched' = NoWrite /\ UNCHANGED apart      \* a seed without regions

\* Cases 19 and 20: a region comes before the first byte, every range moves.
PrependRegion ==
    /\ RegionLevel /\ Reshaped
    /\ \/ \E n \in {k \in RegionSizes : tempLen + k < MaxFile} :
             /\ Wrote(0, n)
             /\ tempLen' = tempLen + n
             /\ ranges' = [i \in DOMAIN ranges |->
                              [start |-> ranges[i].start + n, len |-> ranges[i].len]]
       \/ KeepsShape /\ touched' = NoWrite

\* Cases 21 and 22: no range covers a region at the end.
AppendRegion ==
    /\ RegionLevel /\ Reshaped
    /\ \/ \E n \in {k \in RegionSizes : tempLen + k < MaxFile} :
             Wrote(tempLen, n) /\ tempLen' = tempLen + n /\ UNCHANGED ranges
       \/ KeepsShape /\ touched' = NoWrite

\* Cases 23 and 24.
DuplicateRange ==
    /\ RegionLevel /\ Reshaped
    /\ \E c \in DOMAIN ranges :
          IF tempLen + ranges[c].len >= MaxFile THEN KeepsShape /\ touched' = NoWrite
          ELSE /\ Wrote(ranges[c].start, 2 * ranges[c].len)      \* both copies
               /\ tempLen' = tempLen + ranges[c].len
               /\ ranges' = Resized(c, ranges[c].len)

\* The buffer is sent, restored, and the stage prolonged when it found a path.
RunHavoc ==
    /\ stage = "run" /\ WroteInside
    /\ tempLen' = len /\ ranges' = original /\ touched' = NoWrite
    /\ apart' = InOrder(original, len)
    /\ \E found \in BOOLEAN :
          LET longer == found /\ score <= ScoreLimit
          IN /\ score' = IF longer THEN 2 * score ELSE score
             /\ stageMax' = IF longer THEN 2 * stageMax ELSE stageMax
    /\ stageCur' = stageCur + 1
    /\ IF stageCur' >= stageMax' THEN stage' = "done" /\ stacking' = 0
       ELSE stage' = "tweak" /\ stacking' \in 1..MaxStack
    /\ UNCHANGED <<len, original, spliceCycle>>

\* abandon_entry: common_fuzz_stuff says so.
AbandonHavoc ==
    /\ stage = "run" /\ WroteInside /\ stage' = "idle"
    /\ UNCHANGED <<len, tempLen, original, ranges, stacking, score, stageCur, stageMax,
                   spliceCycle, touched, apart>>

\* retry_splicing, until a seed differs in two places: the head of the buffer
\* up to between the two, and the tail of that seed.
Splice ==
    /\ stage = "done" /\ spliceCycle < SpliceCycles
    /\ \E k \in (spliceCycle + 1)..SpliceCycles : spliceCycle' = k
    /\ \E n \in {k \in RegionSizes : k >= 2} : len' = n
    /\ stage' = "enter"
    /\ \E s \in StartScores : score' = s          \* orig_perf
    /\ UNCHANGED <<tempLen, original, ranges, stacking, stageCur, stageMax, touched, apart>>

\* The first and the last place where two buffers differ, -1 without one.
locate_diffs(one, two) ==
    LET places == {i \in 1..MinOf(Len(one), Len(two)) : one[i] # two[i]}
    IN IF places = {} THEN [first |-> -1, last |-> -1]
       ELSE [first |-> (CHOOSE i \in places : \A j \in places : i <= j) - 1,
             last |-> (CHOOSE i \in places : \A j \in places : j <= i) - 1]

\* What Splice can make of two buffers: nothing, if they differ too little.
SplicesOf(one, two) ==
    LET d == locate_diffs(one, two)
    IN IF d.first < 0 \/ d.last < 2 \/ d.first = d.last THEN {}
       ELSE {SubSeq(one, 1, at) \o SubSeq(two, at + 1, Len(two)) : at \in d.first..(d.last - 1)}

HavocNext ==
    \/ OpenM2 \/ HavocStage \/ RunHavoc \/ AbandonHavoc \/ Splice
    \/ TweakNumber \/ DeleteBytes \/ CloneBytes \/ OverwriteBytes \/ OverwriteExtra
    \/ InsertExtra \/ ReplaceRegion \/ PrependRegion \/ AppendRegion \/ DuplicateRange

HavocSpec == HavocInit /\ [][HavocNext]_havocVars

----------------------------------------------------------------------------

HavocTypeOK ==
    /\ stage \in {"idle", "enter", "tweak", "run", "done"}
    /\ len \in 1..MaxFile /\ tempLen \in Int
    /\ original \in Seq(OpenRange) /\ original # <<>>
    /\ ranges \in Seq(AnyRange) /\ ranges # <<>>
    /\ stacking \in Nat /\ stageCur \in Nat /\ stageMax \in Nat
    /\ score \in Nat /\ score # 0 /\ spliceCycle \in 0..SpliceCycles
    /\ touched \in [from : Int, size : Int] /\ apart \in BOOLEAN

\* Whatever is deleted, inserted, replaced and duplicated on top of each other,
\* the ranges of a buffer that was decomposed into ranges in order and apart stay
\* so and inside the buffer, which has between 1 and MAX_FILE bytes, and every
\* change writes inside the buffer. Nothing of it holds when the ranges overlap.
RangesInside ==
    apart =>
        /\ tempLen \in 1..MaxFile /\ ranges \in Seq(OpenRange) /\ InOrder(ranges, tempLen)
        /\ WroteInside

\* A splice is never the buffer that is being fuzzed, and every byte of it is
\* one of that buffer, up to some place, or of the other one, after it.
SplicesMix(one, two) ==
    \A s \in SplicesOf(one, two) :
        /\ s # one /\ Len(s) = Len(two)
        /\ \E at \in 0..Len(one) : \A i \in DOMAIN s : s[i] = IF i <= at THEN one[i] ELSE two[i]
=============================================================================
