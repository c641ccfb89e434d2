---------------------------- MODULE PartsProofs ----------------------------
(***************************************************************************)
(* The parts of afl-fuzz besides its loop, for every value of their        *)
(* constants.                                                              *)
(*                                                                         *)
(* Havoc: the open ranges of a buffer that was decomposed in order and     *)
(* without overlaps stay inside it.  RangesInside is inductive together    *)
(* with the types; all the arithmetic is in the lemmas about the four ways *)
(* the ranges change: one grows or shrinks and those behind it move, all   *)
(* move, none moves in a buffer that grew, or they are replaced.           *)
(*                                                                         *)
(* OutDir: SeedsAt says in which directory the seeds are at each point of  *)
(* a session, so that a kill finds them somewhere.                         *)
(*                                                                         *)
(* Execution: Together says what the fork server, the pipes and the        *)
(* process are at when afl-fuzz is at a given place.                       *)
(*                                                                         *)
(* QueueCycle: CameUpOften ties the counter of quiet cycles to how often   *)
(* each entry came up.                                                     *)
(*                                                                         *)
(* Setup: ScanKnows says what a fuzzer that still looks for a core has     *)
(* learnt of the others.                                                   *)
(*                                                                         *)
(* TrackedHeap: Files says that TRK has a slot for each block in use, in   *)
(* the bucket of its address.                                              *)
(*                                                                         *)
(* Dictionary: the extras stay in the order of their length, so that the   *)
(* scan that looks a new token up in them misses none.                     *)
(***************************************************************************)
EXTENDS Havoc, OutDir, Execution, QueueCycle, Setup, TrackedHeap, Dictionary,
        SequenceTheorems, WellFoundedInduction, TLAPS

----------------------------------------------------------------------------
(* Havoc *)

\* With a change still to be made while changes are stacked.
HavocInv == HavocTypeOK /\ RangesInside /\ (stage = "tweak" => stacking # 0)

----------------------------------------------------------------------------
(* Ranges *)

\* A nonempty sequence of ranges in the order of a buffer of n bytes.
Fits(r, n) == r \in Seq(OpenRange) /\ r # <<>> /\ InOrder(r, n)

LEMMA WholeFits == ASSUME NEW n \in Nat PROVE Fits(Whole(n), n)
<1> DEFINE r == Whole(n)
<1>1. r \in Seq(OpenRange) /\ Len(r) = 1 /\ r[1].start = 0 /\ r[1].len = n /\ DOMAIN r = {1}
  BY DEF Whole, OpenRange
<1> HIDE DEF r
<1>2. r # <<>>
  <2>1. 1 \in DOMAIN r
    BY <1>1
  <2> QED BY <2>1
<1>3. InOrder(r, n)
  <2>1. \A i \in DOMAIN r : i = 1
    BY <1>1
  <2>2. r[1].start + r[1].len <= n
    BY <1>1
  <2> QED BY <2>1, <2>2 DEF InOrder
<1>4. Fits(r, n)
  BY <1>1, <1>2, <1>3 DEF Fits
<1> QED BY <1>4 DEF r

\* Every range of a decomposition lies in the buffer.
LEMMA DecompositionIs ==
    ASSUME NEW n \in Nat, NEW r \in Decompositions(n)
    PROVE  r \in Seq(OpenRange) /\ r # <<>>
<1>1. PICK k \in 1 .. MaxRanges : r \in [1 .. k -> RangesOf(n)]
  BY DEF Decompositions
<1>2. k \in Nat /\ k >= 1
  BY <1>1, HavocAssumption
<1>3. r \in Seq(OpenRange)
  <2>1. \A i \in 1 .. k : r[i] \in OpenRange
    BY <1>1 DEF OpenRange, RangesOf
  <2>2. r \in [1 .. k -> OpenRange]
    BY <1>1, <2>1
  <2> QED BY <1>2, <2>2
<1>4. r # <<>>
  <2>1. 1 \in DOMAIN r
    BY <1>1, <1>2
  <2> QED BY <2>1
<1> QED BY <1>3, <1>4

LEMMA InOrderIsBoolean == \A r, n : InOrder(r, n) \in BOOLEAN
  BY DEF InOrder

LEMMA OpenIsAny == ASSUME NEW r \in Seq(OpenRange) PROVE r \in Seq(AnyRange)
<1>1. OpenRange \subseteq AnyRange
  BY DEF OpenRange, AnyRange
<1> QED BY <1>1

\* What a range may be, one by one.
LEMMA RangeParts ==
    ASSUME NEW r, NEW n \in Nat, Fits(r, n)
    PROVE  /\ Len(r) \in Nat \ {0} /\ DOMAIN r = 1 .. Len(r)
           /\ \A i \in DOMAIN r : /\ r[i].start \in Nat /\ r[i].len \in Nat
                                  /\ r[i] = [start |-> r[i].start, len |-> r[i].len]
                                  /\ r[i].start + r[i].len <= n
           /\ \A i, j \in DOMAIN r : i < j => r[i].start + r[i].len <= r[j].start
<1>1. Len(r) \in Nat /\ DOMAIN r = 1 .. Len(r) /\ r # <<>> /\ \A i \in DOMAIN r : r[i] \in OpenRange
  BY DEF Fits
<1>2. Len(r) # 0
  BY <1>1 DEF Fits
<1> QED BY <1>1, <1>2 DEF Fits, InOrder, OpenRange

\* The same, from the parts to the whole.
LEMMA FitsFrom ==
    ASSUME NEW r, NEW m \in Nat \ {0}, NEW n \in Nat, DOMAIN r = 1 .. m,
           r = [i \in 1 .. m |-> [start |-> r[i].start, len |-> r[i].len]],
           \A i \in 1 .. m : r[i].start \in Nat /\ r[i].len \in Nat /\ r[i].start + r[i].len <= n,
           \A i, j \in 1 .. m : i < j => r[i].start + r[i].len <= r[j].start
    PROVE  Fits(r, n)
<1>1. \A i \in 1 .. m : [start |-> r[i].start, len |-> r[i].len] \in OpenRange
  BY DEF OpenRange
<1>2. r \in [1 .. m -> OpenRange]
  BY <1>1
<1>3. r \in Seq(OpenRange)
  BY <1>2
<1>4. r # <<>>
  <2>1. 1 \in DOMAIN r
    OBVIOUS
  <2> QED BY <2>1
<1> QED BY <1>3, <1>4 DEF Fits, InOrder

\* A range grows or shrinks within itself: those behind it move along.
LEMMA ResizedFits ==
    ASSUME Fits(ranges, tempLen), tempLen \in Nat, NEW c \in DOMAIN ranges, NEW d \in Int,
           ranges[c].len + d >= 0
    PROVE  tempLen + d \in Nat /\ Fits(Resized(c, d), tempLen + d)
<1> DEFINE r == Resized(c, d)
           m == Len(ranges)
<1>1. /\ m \in Nat \ {0} /\ DOMAIN ranges = 1 .. m
      /\ \A i \in 1 .. m : ranges[i].start \in Nat /\ ranges[i].len \in Nat /\ ranges[i].start + ranges[i].len <= tempLen
      /\ \A i, j \in 1 .. m : i < j => ranges[i].start + ranges[i].len <= ranges[j].start
  BY RangeParts
<1>2. /\ DOMAIN r = 1 .. m
      /\ \A i \in 1 .. m : /\ r[i] = [start |-> r[i].start, len |-> r[i].len]
                           /\ r[i].start = IF i > c THEN ranges[i].start + d ELSE ranges[i].start
                           /\ r[i].len = IF i = c THEN ranges[i].len + d ELSE ranges[i].len
  BY <1>1 DEF Resized
<1>3. r = [i \in 1 .. m |-> [start |-> r[i].start, len |-> r[i].len]]
  BY <1>1 DEF Resized
<1> HIDE DEF r, m
<1>4. \A i \in 1 .. m : i > c => ranges[c].start + ranges[c].len <= ranges[i].start
  BY <1>1
<1>5. tempLen + d \in Nat
  <2>1. ranges[c].start + ranges[c].len <= tempLen /\ ranges[c].start \in Nat /\ ranges[c].len \in Nat
    BY <1>1
  <2> QED BY <2>1
<1>6. ASSUME NEW i \in 1 .. m
      PROVE  r[i].start \in Nat /\ r[i].len \in Nat /\ r[i].start + r[i].len <= tempLen + d
  <2>1. c \in 1 .. m /\ c \in Int /\ i \in Int
    BY <1>1
  <2>2. /\ ranges[c].start \in Nat /\ ranges[c].len \in Nat /\ ranges[c].start + ranges[c].len <= tempLen
        /\ ranges[i].start \in Nat /\ ranges[i].len \in Nat /\ ranges[i].start + ranges[i].len <= tempLen
    BY <1>1
  <2>3. CASE i > c
    <3>1. ranges[c].start + ranges[c].len <= ranges[i].start
      BY <1>4, <2>3
    <3>2. r[i].start = ranges[i].start + d /\ r[i].len = ranges[i].len
      BY <1>2, <2>1, <2>3
    <3>3. ranges[i].start + d >= 0
      BY <2>2, <3>1
    <3> QED BY <2>2, <3>2, <3>3
  <2>4. CASE i = c
    BY <1>2, <2>1, <2>2, <2>4
  <2>5. CASE i < c
    <3>1. ranges[i].start + ranges[i].len <= ranges[c].start
      BY <1>1, <2>1, <2>5
    <3>2. r[i].start = ranges[i].start /\ r[i].len = ranges[i].len
      BY <1>2, <2>1, <2>5
    <3> QED BY <2>2, <3>1, <3>2
  <2> QED BY <2>1, <2>3, <2>4, <2>5
<1>7. ASSUME NEW i \in 1 .. m, NEW j \in 1 .. m, i < j
      PROVE  r[i].start + r[i].len <= r[j].start
  <2>1. c \in 1 .. m /\ c \in Int /\ i \in Int /\ j \in Int
    BY <1>1
  <2>2. /\ ranges[i].start \in Nat /\ ranges[i].len \in Nat /\ ranges[j].start \in Nat
        /\ ranges[i].start + ranges[i].len <= ranges[j].start
    BY <1>1, <1>7
  <2>3. /\ r[i].start = IF i > c THEN ranges[i].start + d ELSE ranges[i].start
        /\ r[i].len = IF i = c THEN ranges[i].len + d ELSE ranges[i].len
        /\ r[j].start = IF j > c THEN ranges[j].start + d ELSE ranges[j].start
    BY <1>2
  <2>4. CASE j > c
    <3>1. r[j].start = ranges[j].start + d
      BY <2>3, <2>4
    <3>2. CASE i > c
      <4>1. r[i].start = ranges[i].start + d /\ r[i].len = ranges[i].len
        BY <2>1, <2>3, <3>2
      <4> QED BY <2>2, <3>1, <4>1
    <3>3. CASE i = c
      <4>1. r[i].start = ranges[i].start /\ r[i].len = ranges[i].len + d
        BY <2>1, <2>3, <3>3
      <4> QED BY <2>2, <3>1, <4>1
    <3>4. CASE i < c
      <4>1. r[i].start = ranges[i].start /\ r[i].len = ranges[i].len
        BY <2>1, <2>3, <3>4
      <4>2. ranges[i].start + ranges[i].len <= ranges[c].start
        BY <1>1, <2>1, <3>4
      <4>3. ranges[c].start + ranges[c].len <= ranges[j].start
        BY <1>4, <2>4
      <4>4. ranges[c].start \in Nat /\ ranges[c].len \in Nat
        BY <1>1
      <4> QED BY <2>2, <3>1, <4>1, <4>2, <4>3, <4>4
    <3> QED BY <2>1, <3>2, <3>3, <3>4
  <2>5. CASE ~ j > c
    <3>1. r[j].start = ranges[j].start /\ r[i].start = ranges[i].start /\ r[i].len = ranges[i].len
      BY <1>7, <2>1, <2>3, <2>5
    <3> QED BY <2>2, <3>1
  <2> QED BY <2>4, <2>5
<1> QED BY <1>1, <1>2, <1>3, <1>5, <1>6, <1>7, FitsFrom DEF r

\* Every range moves by n bytes.
LEMMA MovedFits ==
    ASSUME NEW r, NEW k \in Nat, Fits(r, k), NEW n \in Nat
    PROVE  Fits([i \in DOMAIN r |-> [start |-> r[i].start + n, len |-> r[i].len]], k + n)
<1> DEFINE s == [i \in DOMAIN r |-> [start |-> r[i].start + n, len |-> r[i].len]]
           m == Len(r)
<1>1. /\ m \in Nat \ {0} /\ DOMAIN r = 1 .. m
      /\ \A i \in 1 .. m : r[i].start \in Nat /\ r[i].len \in Nat /\ r[i].start + r[i].len <= k
      /\ \A i, j \in 1 .. m : i < j => r[i].start + r[i].len <= r[j].start
  BY RangeParts
<1>2. /\ DOMAIN s = 1 .. m
      /\ \A i \in 1 .. m : s[i].start = r[i].start + n /\ s[i].len = r[i].len
  BY <1>1
<1>3. s = [i \in 1 .. m |-> [start |-> s[i].start, len |-> s[i].len]]
  BY <1>1
<1> HIDE DEF s, m
<1>4. \A i \in 1 .. m : s[i].start \in Nat /\ s[i].len \in Nat /\ s[i].start + s[i].len <= k + n
  <2> SUFFICES ASSUME NEW i \in 1 .. m
               PROVE  s[i].start \in Nat /\ s[i].len \in Nat /\ s[i].start + s[i].len <= k + n
    OBVIOUS
  <2>1. r[i].start \in Nat /\ r[i].len \in Nat /\ r[i].start + r[i].len <= k
    BY <1>1
  <2>2. s[i].start = r[i].start + n /\ s[i].len = r[i].len
    BY <1>2
  <2> QED BY <2>1, <2>2
<1>5. ASSUME NEW i \in 1 .. m, NEW j \in 1 .. m, i < j
      PROVE  s[i].start + s[i].len <= s[j].start
  <2>1. /\ r[i].start \in Nat /\ r[i].len \in Nat /\ r[j].start \in Nat
        /\ r[i].start + r[i].len <= r[j].start
    BY <1>1, <1>5
  <2>2. s[i].start = r[i].start + n /\ s[i].len = r[i].len /\ s[j].start = r[j].start + n
    BY <1>2
  <2> QED BY <2>1, <2>2
<1>6. k + n \in Nat
  OBVIOUS
<1>7. Fits(s, k + n)
  BY <1>1, <1>2, <1>3, <1>4, <1>5, <1>6, FitsFrom
<1> QED BY <1>7 DEF s

\* A buffer that grows at its end.
LEMMA LongerFits ==
    ASSUME NEW r, NEW k \in Nat, Fits(r, k), NEW n \in Nat
    PROVE  Fits(r, k + n)
<1>1. \A i \in DOMAIN r : r[i].start \in Nat /\ r[i].len \in Nat /\ r[i].start + r[i].len <= k
  BY RangeParts
<1>2. \A i \in DOMAIN r : r[i].start + r[i].len <= k + n
  BY <1>1
<1> QED BY <1>2 DEF Fits, InOrder

\* A block is not empty and not longer than the limit.
LEMMA BlockLengthIs ==
    ASSUME NEW limit \in Nat \ {0}, NEW n \in choose_block_len(limit)
    PROVE  n \in 1 .. limit
<1>1. PICK b \in Blocks : n \in (IF b.min >= limit THEN 1 ELSE b.min) .. MinOf(b.max, limit)
  BY DEF choose_block_len
<1>2. b.min \in Nat /\ b.max \in Nat /\ b.min >= 1
  BY <1>1, HavocAssumption
<1> QED BY <1>1, <1>2 DEF MinOf

LEMMA BlocksAreNumbers == ASSUME NEW limit \in Int, NEW n \in choose_block_len(limit) PROVE n \in Nat
<1>1. PICK b \in Blocks : n \in (IF b.min >= limit THEN 1 ELSE b.min) .. MinOf(b.max, limit)
  BY DEF choose_block_len
<1>2. b.min \in Nat /\ b.max \in Nat
  BY <1>1, HavocAssumption
<1> QED BY <1>1, <1>2 DEF MinOf

----------------------------------------------------------------------------
(* The steps *)

\* What the invariant says while the ranges are apart.
LEMMA HavocParts ==
    ASSUME HavocInv, apart
    PROVE  /\ tempLen \in 1 .. MaxFile /\ Fits(ranges, tempLen)
           /\ touched \in [from : Nat, size : Nat] /\ touched.from + touched.size <= tempLen
<1>1. touched \in [from : Int, size : Int] /\ touched.from >= 0 /\ touched.size >= 0
  BY DEF HavocInv, HavocTypeOK, RangesInside, WroteInside
<1> QED BY <1>1 DEF HavocInv, HavocTypeOK, RangesInside, WroteInside, Fits

LEMMA HavocInitInv == HavocInit => HavocInv
<1> SUFFICES ASSUME HavocInit PROVE HavocInv
  OBVIOUS
<1>1. Fits(ranges, tempLen) /\ Fits(original, len)
  BY WholeFits DEF HavocInit
<1>2. 1 \in 1 .. MaxFile /\ 0 \in 0 .. SpliceCycles
  BY HavocAssumption
<1>3. touched \in [from : Int, size : Int] /\ WroteInside
  BY DEF HavocInit, NoWrite, WroteInside
<1>4. ranges \in Seq(AnyRange)
  BY <1>1, OpenIsAny DEF Fits
<1>5. HavocTypeOK
  BY <1>1, <1>2, <1>3, <1>4 DEF HavocInit, HavocTypeOK, Fits
<1>6. RangesInside
  BY <1>1, <1>2, <1>3 DEF HavocInit, RangesInside, Fits
<1> QED BY <1>5, <1>6 DEF HavocInv, HavocInit

\* What every change knows of the buffer and its ranges.
LEMMA BufferFacts ==
    ASSUME HavocInv, apart
    PROVE  /\ tempLen \in 1 .. MaxFile /\ tempLen \in Nat \ {0} /\ MaxFile \in Nat /\ Fits(ranges, tempLen)
           /\ \A c \in DOMAIN ranges : /\ ranges[c].start \in Nat /\ ranges[c].len \in Nat
                                       /\ ranges[c].start + ranges[c].len <= tempLen
<1>1. tempLen \in 1 .. MaxFile /\ tempLen \in Nat \ {0} /\ MaxFile \in Nat /\ Fits(ranges, tempLen)
  BY HavocParts, HavocAssumption
<1> QED BY <1>1, RangeParts

\* The buffer after a change: its ranges fit, and the change was made inside it.
Changed == /\ tempLen' \in 1 .. MaxFile /\ Fits(ranges', tempLen')
           /\ touched' \in [from : Nat, size : Nat] /\ touched'.from + touched'.size <= tempLen'

\* A change that is none.
LEMMA NothingChanged ==
    ASSUME HavocInv, apart, KeepsShape, touched' = NoWrite
    PROVE  Changed
  BY HavocParts DEF KeepsShape, NoWrite, Changed

\* A change within a range leaves the ranges alone.
LEMMA ChangedWithin ==
    ASSUME HavocInv, apart, KeepsShape, NEW c \in DOMAIN ranges, NEW pos \in Nat, NEW n \in Nat,
           pos + n <= ranges[c].len, Wrote(ranges[c].start + pos, n)
    PROVE  Changed
<1>1. /\ tempLen \in 1 .. MaxFile /\ tempLen \in Nat /\ Fits(ranges, tempLen)
      /\ ranges[c].start \in Nat /\ ranges[c].len \in Nat /\ ranges[c].start + ranges[c].len <= tempLen
  BY BufferFacts
<1> QED BY <1>1 DEF KeepsShape, Wrote, Changed

\* n bytes are inserted into a range, or at its end.
LEMMA ChangedByInsertion ==
    ASSUME HavocInv, apart, NEW c \in DOMAIN ranges, NEW pos \in Nat, NEW n \in Nat,
           pos <= ranges[c].len, tempLen + n < MaxFile,
           Wrote(ranges[c].start + pos, n), tempLen' = tempLen + n, ranges' = Resized(c, n)
    PROVE  Changed
<1>1. /\ tempLen \in 1 .. MaxFile /\ tempLen \in Nat /\ MaxFile \in Nat /\ Fits(ranges, tempLen)
      /\ ranges[c].start \in Nat /\ ranges[c].len \in Nat /\ ranges[c].start + ranges[c].len <= tempLen
  BY BufferFacts
<1>2. ranges[c].len + n >= 0 /\ n \in Int
  BY <1>1
<1>3. Fits(ranges', tempLen')
  BY <1>1, <1>2, ResizedFits
<1> QED BY <1>1, <1>2, <1>3 DEF Wrote, Changed

\* The buffer after any change, of ranges that overlap too.
Typed == /\ tempLen' \in Int /\ ranges' \in Seq(AnyRange) /\ ranges' # <<>>
         /\ touched' \in [from : Int, size : Int] /\ apart' \in BOOLEAN

\* Whatever is stacked, the buffer stays as the invariant wants it.
LEMMA TweakKeeps ==
    ASSUME HavocInv, Tweaked, Typed, apart' => Changed
    PROVE  HavocInv'
<1>1. /\ stage = "tweak" /\ stacking' = stacking - 1
      /\ stage' = IF stacking = 1 THEN "run" ELSE "tweak"
      /\ UNCHANGED <<len, original, score, stageCur, stageMax, spliceCycle>>
  BY DEF Tweaked
<1>2. stacking \in Nat /\ stacking # 0
  BY <1>1 DEF HavocInv, HavocTypeOK
<1>3. stacking' \in Nat /\ (stage' = "tweak" => stacking' # 0)
  BY <1>1, <1>2
<1>4. HavocTypeOK'
  BY <1>1, <1>3 DEF HavocInv, HavocTypeOK, Typed
<1>5. ASSUME apart' PROVE WroteInside' /\ tempLen' \in 1 .. MaxFile /\ Fits(ranges', tempLen')
  BY <1>5 DEF Changed, WroteInside
<1>6. RangesInside'
  BY <1>1, <1>5 DEF RangesInside, Fits
<1> QED BY <1>3, <1>4, <1>6 DEF HavocInv

LEMMA OpenKeeps == ASSUME HavocInv, OpenM2 PROVE HavocInv'
<1>1. PICK n \in RegionSizes, s \in StartScores : len' = n /\ tempLen' = n /\ score' = s
  BY DEF OpenM2
<1>2. n \in 1 .. MaxFile /\ n \in Nat /\ s \in Nat /\ s # 0 /\ 0 \in 0 .. SpliceCycles
  BY HavocAssumption
<1>3. Fits(Whole(n), n) /\ Whole(n) \in Seq(AnyRange)
  BY <1>2, WholeFits, OpenIsAny DEF Fits
<1>4. /\ stage' = "enter" /\ spliceCycle' = 0 /\ touched' = NoWrite /\ apart' = TRUE
      /\ original' = Whole(n) /\ ranges' = Whole(n)
      /\ UNCHANGED <<stacking, stageCur, stageMax>>
  BY <1>1 DEF OpenM2
<1>5. HavocTypeOK'
  BY <1>1, <1>2, <1>3, <1>4 DEF HavocInv, HavocTypeOK, Fits, NoWrite
<1>6. RangesInside'
  BY <1>1, <1>2, <1>3, <1>4 DEF RangesInside, Fits, NoWrite, WroteInside
<1> QED BY <1>4, <1>5, <1>6 DEF HavocInv

LEMMA StageKeeps == ASSUME HavocInv, HavocStage PROVE HavocInv'
<1>1. len \in 1 .. MaxFile /\ len \in Nat
  BY HavocAssumption DEF HavocInv, HavocTypeOK
<1>2. PICK r \in {Whole(len)} \union Decompositions(len) : original' = r /\ ranges' = r
  BY DEF HavocStage
<1>3. r \in Seq(OpenRange) /\ r # <<>> /\ r \in Seq(AnyRange)
  BY <1>1, <1>2, WholeFits, DecompositionIs, OpenIsAny DEF Fits
<1>4. /\ stage' = "tweak" /\ stageCur' = 0 /\ stageMax' = StageRuns /\ tempLen' = len
      /\ stacking' \in Nat /\ stacking' # 0 /\ StageRuns \in Nat
      /\ touched' = NoWrite /\ apart' = InOrder(r, len) /\ UNCHANGED <<len, score, spliceCycle>>
  BY <1>2, HavocAssumption DEF HavocStage
<1>5. HavocTypeOK'
  <2>1. apart' \in BOOLEAN /\ touched' \in [from : Int, size : Int]
    BY InOrderIsBoolean, <1>4 DEF NoWrite
  <2> QED BY <1>1, <1>2, <1>3, <1>4, <2>1 DEF HavocInv, HavocTypeOK
<1>6. RangesInside'
  BY <1>1, <1>2, <1>3, <1>4 DEF RangesInside, NoWrite, WroteInside
<1> QED BY <1>4, <1>5, <1>6 DEF HavocInv

LEMMA RunKeeps == ASSUME HavocInv, RunHavoc PROVE HavocInv'
<1>1. /\ stage = "run" /\ tempLen' = len /\ ranges' = original /\ touched' = NoWrite
      /\ apart' = InOrder(original, len) /\ UNCHANGED <<len, original, spliceCycle>>
  BY DEF RunHavoc
<1>2. /\ len \in 1 .. MaxFile /\ len \in Nat
      /\ original \in Seq(OpenRange) /\ original \in Seq(AnyRange) /\ original # <<>>
  BY HavocAssumption, OpenIsAny DEF HavocInv, HavocTypeOK
<1>3. score' \in Nat /\ score' # 0 /\ stageMax' \in Nat /\ stageCur' \in Nat
  BY DEF RunHavoc, HavocInv, HavocTypeOK
<1>4. stage' \in {"tweak", "done"} /\ stacking' \in Nat /\ (stage' = "tweak" => stacking' # 0)
  <2>1. CASE stageCur' >= stageMax'
    BY <2>1 DEF RunHavoc
  <2>2. CASE ~ stageCur' >= stageMax'
    BY <2>2, HavocAssumption DEF RunHavoc
  <2> QED BY <2>1, <2>2
<1>5. HavocTypeOK'
  <2>1. apart' \in BOOLEAN /\ touched' \in [from : Int, size : Int]
    BY InOrderIsBoolean, <1>1 DEF NoWrite
  <2> QED BY <1>1, <1>2, <1>3, <1>4, <2>1 DEF HavocInv, HavocTypeOK
<1>6. RangesInside'
  BY <1>1, <1>2, <1>4 DEF RangesInside, NoWrite, WroteInside
<1> QED BY <1>4, <1>5, <1>6 DEF HavocInv

LEMMA AbandonKeeps == ASSUME HavocInv, AbandonHavoc PROVE HavocInv'
  BY DEF AbandonHavoc, HavocInv, HavocTypeOK, RangesInside, InOrder, WroteInside

LEMMA SpliceKeeps == ASSUME HavocInv, Splice PROVE HavocInv'
<1>1. spliceCycle \in 0 .. SpliceCycles /\ SpliceCycles \in Nat
  BY HavocAssumption DEF HavocInv, HavocTypeOK
<1>2. spliceCycle' \in 0 .. SpliceCycles
  BY <1>1 DEF Splice
<1>3. len' \in 1 .. MaxFile /\ score' \in Nat /\ score' # 0
  BY HavocAssumption DEF Splice
<1>4. stage' = "enter" /\ UNCHANGED <<tempLen, original, ranges, stacking, stageCur, stageMax, touched, apart>>
  BY DEF Splice
<1>5. HavocTypeOK'
  BY <1>2, <1>3, <1>4 DEF HavocInv, HavocTypeOK
<1>6. RangesInside'
  BY <1>4 DEF HavocInv, RangesInside, InOrder, WroteInside
<1> QED BY <1>4, <1>5, <1>6 DEF HavocInv

----------------------------------------------------------------------------
(* The changes *)

LEMMA NumberChanged == ASSUME HavocInv, apart, TweakNumber PROVE Changed
<1>1. PICK c \in DOMAIN ranges, size \in {1, 2, 4} :
        IF ranges[c].len < size THEN touched' = NoWrite
        ELSE \E pos \in 0 .. (ranges[c].len - size) : Wrote(ranges[c].start + pos, size)
  BY DEF TweakNumber
<1>2. KeepsShape
  BY DEF TweakNumber
<1>3. CASE ranges[c].len < size
  BY <1>1, <1>2, <1>3, NothingChanged
<1>4. CASE ~ ranges[c].len < size
  <2>1. PICK pos \in 0 .. (ranges[c].len - size) : Wrote(ranges[c].start + pos, size)
    BY <1>1, <1>4
  <2>2. pos \in Nat /\ size \in Nat /\ pos + size <= ranges[c].len
    BY <2>1, BufferFacts
  <2> QED BY <1>2, <2>1, <2>2, ChangedWithin
<1> QED BY <1>3, <1>4

LEMMA DeletionChanged == ASSUME HavocInv, apart, DeleteBytes PROVE Changed
<1>1. PICK c \in DOMAIN ranges :
        IF ranges[c].len < 2 THEN KeepsShape /\ touched' = NoWrite
        ELSE \E n \in choose_block_len(ranges[c].len - 1) :
             \E pos \in 0 .. (ranges[c].len - n) :
                /\ Wrote(ranges[c].start + pos, tempLen - (ranges[c].start + pos) - n)
                /\ tempLen' = tempLen - n
                /\ ranges' = Resized(c, -n)
  BY DEF DeleteBytes
<1>2. CASE ranges[c].len < 2
  BY <1>1, <1>2, NothingChanged
<1>3. CASE ~ ranges[c].len < 2
  <2>1. PICK n \in choose_block_len(ranges[c].len - 1) :
             \E pos \in 0 .. (ranges[c].len - n) :
                /\ Wrote(ranges[c].start + pos, tempLen - (ranges[c].start + pos) - n)
                /\ tempLen' = tempLen - n
                /\ ranges' = Resized(c, -n)
    BY <1>1, <1>3
  <2>2. PICK pos \in 0 .. (ranges[c].len - n) :
                Wrote(ranges[c].start + pos, tempLen - (ranges[c].start + pos) - n)
    BY <2>1
  <2>3. /\ ranges[c].start \in Nat /\ ranges[c].len \in Nat /\ ranges[c].start + ranges[c].len <= tempLen
        /\ tempLen \in 1 .. MaxFile /\ tempLen \in Nat /\ MaxFile \in Nat /\ Fits(ranges, tempLen)
    BY BufferFacts
  <2>4. ranges[c].len - 1 \in Nat \ {0}
    BY <1>3, <2>3
  <2>5. n \in 1 .. (ranges[c].len - 1) /\ pos \in Nat /\ pos + n <= ranges[c].len
    BY <2>1, <2>2, <2>3, <2>4, BlockLengthIs
  <2>6. -n \in Int /\ ranges[c].len + (-n) >= 0 /\ tempLen + (-n) = tempLen - n
    BY <2>3, <2>5
  <2>7. Fits(ranges', tempLen')
    BY <2>1, <2>3, <2>6, ResizedFits
  <2>8. tempLen' \in 1 .. MaxFile
    BY <2>1, <2>3, <2>5
  <2>9. /\ touched' \in [from : Nat, size : Nat] /\ touched'.from + touched'.size <= tempLen'
    BY <2>1, <2>2, <2>3, <2>5 DEF Wrote
  <2> QED BY <2>7, <2>8, <2>9 DEF Changed
<1> QED BY <1>2, <1>3

LEMMA CloneChanged == ASSUME HavocInv, apart, CloneBytes PROVE Changed
<1>1. CASE tempLen + BlockXL >= MaxFile
  BY <1>1, NothingChanged DEF CloneBytes
<1>2. CASE ~ tempLen + BlockXL >= MaxFile
  <2>1. PICK c \in DOMAIN ranges, n \in choose_block_len(tempLen) \union choose_block_len(BlockXL) :
             \E pos \in 0 .. (IF ranges[c].len = 0 THEN 0 ELSE ranges[c].len - 1) :
               /\ Wrote(ranges[c].start + pos, n)
               /\ tempLen' = tempLen + n
               /\ ranges' = Resized(c, n)
    BY <1>2 DEF CloneBytes
  <2>2. PICK pos \in 0 .. (IF ranges[c].len = 0 THEN 0 ELSE ranges[c].len - 1) :
               Wrote(ranges[c].start + pos, n)
    BY <2>1
  <2>3. BlockXL \in Nat \ {0} /\ tempLen \in Nat \ {0} /\ MaxFile \in Nat /\ ranges[c].len \in Nat
    BY BufferFacts, HavocAssumption
  <2>4. n \in Nat /\ n <= BlockXL
    <3>1. PICK limit \in {tempLen, BlockXL}, b \in Blocks :
             n \in (IF b.min >= limit THEN 1 ELSE b.min) .. MinOf(b.max, limit)
      BY <2>1 DEF choose_block_len
    <3>2. b.min \in Nat /\ b.max \in 1 .. BlockXL /\ b.min >= 1
      BY <3>1, HavocAssumption
    <3> QED BY <2>3, <3>1, <3>2 DEF MinOf
  <2>5. pos \in Nat /\ pos <= ranges[c].len
    BY <2>2, <2>3
  <2>6. tempLen + n < MaxFile
    BY <1>2, <2>3, <2>4
  <2> QED BY <2>1, <2>2, <2>4, <2>5, <2>6, ChangedByInsertion
<1> QED BY <1>1, <1>2

LEMMA OverwriteChanged == ASSUME HavocInv, apart, OverwriteBytes PROVE Changed
<1>1. PICK c \in DOMAIN ranges :
          IF ranges[c].len < 2 THEN touched' = NoWrite
          ELSE \E n \in choose_block_len(ranges[c].len - 1) :
               \E pos \in 0 .. (ranges[c].len - n) : Wrote(ranges[c].start + pos, n)
  BY DEF OverwriteBytes
<1>2. KeepsShape
  BY DEF OverwriteBytes
<1>3. CASE ranges[c].len < 2
  BY <1>1, <1>2, <1>3, NothingChanged
<1>4. CASE ~ ranges[c].len < 2
  <2>1. PICK n \in choose_block_len(ranges[c].len - 1) :
             \E pos \in 0 .. (ranges[c].len - n) : Wrote(ranges[c].start + pos, n)
    BY <1>1, <1>4
  <2>2. PICK pos \in 0 .. (ranges[c].len - n) : Wrote(ranges[c].start + pos, n)
    BY <2>1
  <2>3. ranges[c].len - 1 \in Nat \ {0} /\ ranges[c].len \in Nat
    BY <1>4, BufferFacts
  <2>4. n \in 1 .. (ranges[c].len - 1)
    BY <2>1, <2>3, BlockLengthIs
  <2>5. n \in Nat /\ pos \in Nat /\ pos + n <= ranges[c].len
    BY <2>2, <2>3, <2>4
  <2> QED BY <1>2, <2>2, <2>5, ChangedWithin
<1> QED BY <1>3, <1>4

LEMMA ExtraChanged == ASSUME HavocInv, apart, OverwriteExtra PROVE Changed
<1>1. KeepsShape
  BY DEF OverwriteExtra
<1>2. PICK c \in DOMAIN ranges :
          \/ \E n \in {k \in TokenSizes : k <= ranges[c].len} :
             \E pos \in 0 .. (ranges[c].len - n) : Wrote(ranges[c].start + pos, n)
          \/ touched' = NoWrite
  BY DEF OverwriteExtra
<1>3. CASE touched' = NoWrite
  BY <1>1, <1>3, NothingChanged
<1>4. ASSUME NEW n \in TokenSizes, NEW pos \in 0 .. (ranges[c].len - n), n <= ranges[c].len,
             Wrote(ranges[c].start + pos, n)
      PROVE  Changed
  <2>1. n \in Nat /\ pos \in Nat /\ pos + n <= ranges[c].len
    BY <1>4, BufferFacts, HavocAssumption
  <2> QED BY <1>1, <1>4, <2>1, ChangedWithin
<1> QED BY <1>2, <1>3, <1>4

LEMMA InsertionChanged == ASSUME HavocInv, apart, InsertExtra PROVE Changed
<1>1. PICK c \in DOMAIN ranges :
          \/ \E n \in {k \in TokenSizes : tempLen + k < MaxFile} : \E pos \in 0 .. ranges[c].len :
                Wrote(ranges[c].start + pos, n) /\ tempLen' = tempLen + n /\ ranges' = Resized(c, n)
          \/ KeepsShape /\ touched' = NoWrite
  BY DEF InsertExtra
<1>2. CASE KeepsShape /\ touched' = NoWrite
  BY <1>2, NothingChanged
<1>3. ASSUME NEW n \in TokenSizes, NEW pos \in 0 .. ranges[c].len, tempLen + n < MaxFile,
             Wrote(ranges[c].start + pos, n), tempLen' = tempLen + n, ranges' = Resized(c, n)
      PROVE  Changed
  <2>1. n \in Nat /\ pos \in Nat /\ pos <= ranges[c].len
    BY <1>3, BufferFacts, HavocAssumption
  <2> QED BY <1>3, <2>1, ChangedByInsertion
<1> QED BY <1>1, <1>2, <1>3

LEMMA ReplacementChanged == ASSUME HavocInv, ReplaceRegion, apart' PROVE Changed
<1>1. CASE KeepsShape /\ touched' = NoWrite /\ UNCHANGED apart
  <2>1. apart
    BY <1>1
  <2> QED BY <1>1, <2>1, NothingChanged
<1>2. ASSUME NEW n \in RegionSizes, tempLen' = n, ranges' \in Decompositions(n), Wrote(0, n),
             apart' = InOrder(ranges', n)
      PROVE  Changed
  <2>1. n \in 1 .. MaxFile /\ n \in Nat
    BY HavocAssumption
  <2>2. Fits(ranges', n)
    BY <1>2, <2>1, DecompositionIs DEF Fits
  <2> QED BY <1>2, <2>1, <2>2 DEF Wrote, Changed
<1> QED BY <1>1, <1>2 DEF ReplaceRegion

LEMMA PrependingChanged == ASSUME HavocInv, apart, PrependRegion PROVE Changed
<1>1. CASE KeepsShape /\ touched' = NoWrite
  BY <1>1, NothingChanged
<1>2. ASSUME NEW n \in RegionSizes, tempLen + n < MaxFile, Wrote(0, n), tempLen' = tempLen + n,
             ranges' = [i \in DOMAIN ranges |-> [start |-> ranges[i].start + n, len |-> ranges[i].len]]
      PROVE  Changed
  <2>1. n \in Nat /\ tempLen \in Nat \ {0} /\ MaxFile \in Nat /\ Fits(ranges, tempLen)
    BY BufferFacts, HavocAssumption
  <2>2. Fits(ranges', tempLen')
    BY <1>2, <2>1, MovedFits
  <2> QED BY <1>2, <2>1, <2>2 DEF Wrote, Changed
<1> QED BY <1>1, <1>2 DEF PrependRegion

LEMMA AppendingChanged == ASSUME HavocInv, apart, AppendRegion PROVE Changed
<1>1. CASE KeepsShape /\ touched' = NoWrite
  BY <1>1, NothingChanged
<1>2. ASSUME NEW n \in RegionSizes, tempLen + n < MaxFile, Wrote(tempLen, n), tempLen' = tempLen + n,
             ranges' = ranges
      PROVE  Changed
  <2>1. n \in Nat /\ tempLen \in Nat \ {0} /\ MaxFile \in Nat /\ Fits(ranges, tempLen)
    BY BufferFacts, HavocAssumption
  <2>2. Fits(ranges', tempLen')
    BY <1>2, <2>1, LongerFits
  <2> QED BY <1>2, <2>1, <2>2 DEF Wrote, Changed
<1> QED BY <1>1, <1>2 DEF AppendRegion

LEMMA DuplicationChanged == ASSUME HavocInv, apart, DuplicateRange PROVE Changed
<1>1. PICK c \in DOMAIN ranges :
          IF tempLen + ranges[c].len >= MaxFile THEN KeepsShape /\ touched' = NoWrite
          ELSE /\ Wrote(ranges[c].start, 2 * ranges[c].len)
               /\ tempLen' = tempLen + ranges[c].len
               /\ ranges' = Resized(c, ranges[c].len)
  BY DEF DuplicateRange
<1>2. CASE tempLen + ranges[c].len >= MaxFile
  BY <1>1, <1>2, NothingChanged
<1>3. CASE ~ tempLen + ranges[c].len >= MaxFile
  <2>1. /\ ranges[c].start \in Nat /\ ranges[c].len \in Nat /\ ranges[c].start + ranges[c].len <= tempLen
        /\ tempLen \in 1 .. MaxFile /\ tempLen \in Nat /\ MaxFile \in Nat /\ Fits(ranges, tempLen)
    BY BufferFacts
  <2>2. PICK n \in Nat : n = ranges[c].len
    BY <2>1
  <2>3. n \in Int /\ ranges[c].len + n >= 0
    BY <2>2
  <2>4. Fits(ranges', tempLen')
    BY <1>1, <1>3, <2>1, <2>2, <2>3, ResizedFits
  <2>5. tempLen' \in 1 .. MaxFile
    BY <1>1, <1>3, <2>1
  <2>6. touched' \in [from : Nat, size : Nat] /\ touched'.from + touched'.size <= tempLen'
    BY <1>1, <1>3, <2>1 DEF Wrote
  <2> QED BY <2>4, <2>5, <2>6 DEF Changed
<1> QED BY <1>2, <1>3

(* The types of what the changes leave, of ranges that overlap too *)

LEMMA RangeTypes ==
    ASSUME HavocInv
    PROVE  /\ tempLen \in Int /\ DOMAIN ranges = 1 .. Len(ranges) /\ Len(ranges) \in Nat \ {0}
           /\ \A c \in DOMAIN ranges : ranges[c].start \in Int /\ ranges[c].len \in Nat
<1>1. tempLen \in Int /\ ranges \in Seq(AnyRange) /\ ranges # <<>>
  BY DEF HavocInv, HavocTypeOK
<1>2. DOMAIN ranges = 1 .. Len(ranges) /\ Len(ranges) \in Nat \ {0}
  BY <1>1
<1>3. \A c \in DOMAIN ranges : ranges[c] \in AnyRange
  BY <1>1
<1> QED BY <1>1, <1>2, <1>3 DEF AnyRange

LEMMA ShapeTyped ==
    ASSUME HavocInv, KeepsShape, touched' \in [from : Int, size : Int], UNCHANGED apart
    PROVE  Typed
  BY DEF HavocInv, HavocTypeOK, KeepsShape, Typed

LEMMA NothingTyped == ASSUME HavocInv, KeepsShape, touched' = NoWrite, UNCHANGED apart PROVE Typed
<1>1. touched' \in [from : Int, size : Int]
  BY DEF NoWrite
<1> QED BY <1>1, ShapeTyped

\* A range that grows or shrinks, not by more than it has.
LEMMA ResizedTyped ==
    ASSUME HavocInv, NEW c \in DOMAIN ranges, NEW d \in Int, ranges[c].len + d >= 0,
           tempLen' = tempLen + d, ranges' = Resized(c, d),
           touched' \in [from : Int, size : Int], UNCHANGED apart
    PROVE  Typed
<1>1. \A i \in DOMAIN ranges : ranges[i].start \in Int /\ ranges[i].len \in Nat /\ i \in Int
  BY RangeTypes
<1>2. tempLen' \in Int
  BY RangeTypes
<1>3. \A i \in DOMAIN ranges :
         /\ (IF i > c THEN ranges[i].start + d ELSE ranges[i].start) \in Int
         /\ (IF i = c THEN ranges[i].len + d ELSE ranges[i].len) \in Nat
  BY <1>1
<1>4. /\ DOMAIN ranges = 1 .. Len(ranges) /\ Len(ranges) \in Nat \ {0}
  BY RangeTypes
<1>5. ranges' \in [1 .. Len(ranges) -> AnyRange]
  BY <1>3, <1>4 DEF Resized, AnyRange
<1>6. ranges' \in Seq(AnyRange) /\ ranges' # <<>>
  BY <1>4, <1>5
<1>7. apart' \in BOOLEAN
  BY DEF HavocInv, HavocTypeOK
<1> QED BY <1>2, <1>6, <1>7 DEF Typed

LEMMA OverwritingTyped == ASSUME HavocInv, TweakNumber \/ OverwriteBytes \/ OverwriteExtra PROVE Typed
<1>1. KeepsShape /\ UNCHANGED apart
  BY DEF TweakNumber, OverwriteBytes, OverwriteExtra, Reshaped
<1>2. touched' = NoWrite \/ \E c \in DOMAIN ranges, pos \in Int, n \in Int : Wrote(ranges[c].start + pos, n)
  <2>1. CASE TweakNumber
    BY <2>1 DEF TweakNumber
  <2>2. CASE OverwriteBytes
    <3>1. PICK c \in DOMAIN ranges :
              IF ranges[c].len < 2 THEN touched' = NoWrite
              ELSE \E n \in choose_block_len(ranges[c].len - 1) :
                   \E pos \in 0 .. (ranges[c].len - n) : Wrote(ranges[c].start + pos, n)
      BY <2>2 DEF OverwriteBytes
    <3>2. CASE ~ ranges[c].len < 2
      <4>1. \A n \in choose_block_len(ranges[c].len - 1) : n \in Int
        BY RangeTypes, BlocksAreNumbers
      <4>2. PICK n \in choose_block_len(ranges[c].len - 1) :
                \E pos \in 0 .. (ranges[c].len - n) : Wrote(ranges[c].start + pos, n)
        BY <3>1, <3>2
      <4>3. PICK pos \in 0 .. (ranges[c].len - n) : Wrote(ranges[c].start + pos, n)
        BY <4>2
      <4>4. n \in Int /\ pos \in Int
        BY <4>1
      <4> QED BY <4>3, <4>4
    <3> QED BY <3>1, <3>2
  <2>3. CASE OverwriteExtra
    <3>1. PICK c \in DOMAIN ranges :
              \/ \E n \in {k \in TokenSizes : k <= ranges[c].len} :
                 \E pos \in 0 .. (ranges[c].len - n) : Wrote(ranges[c].start + pos, n)
              \/ touched' = NoWrite
      BY <2>3 DEF OverwriteExtra
    <3>2. CASE touched' = NoWrite
      BY <3>2
    <3>3. ASSUME NEW n \in TokenSizes, NEW pos \in 0 .. (ranges[c].len - n), Wrote(ranges[c].start + pos, n)
          PROVE  \E d \in DOMAIN ranges, off \in Int, m \in Int : Wrote(ranges[d].start + off, m)
      <4>1. n \in Int
        BY HavocAssumption
      <4>2. pos \in Int
        OBVIOUS
      <4> QED BY <3>3, <4>1, <4>2
    <3> QED BY <3>1, <3>2, <3>3
  <2> QED BY <2>1, <2>2, <2>3
<1>3. touched' \in [from : Int, size : Int]
  BY <1>2, RangeTypes DEF NoWrite, Wrote
<1> QED BY <1>1, <1>3, ShapeTyped

LEMMA DeletionTyped == ASSUME HavocInv, DeleteBytes PROVE Typed
<1>1. PICK c \in DOMAIN ranges :
        IF ranges[c].len < 2 THEN KeepsShape /\ touched' = NoWrite
        ELSE \E n \in choose_block_len(ranges[c].len - 1) :
             \E pos \in 0 .. (ranges[c].len - n) :
                /\ Wrote(ranges[c].start + pos, tempLen - (ranges[c].start + pos) - n)
                /\ tempLen' = tempLen - n
                /\ ranges' = Resized(c, -n)
  BY DEF DeleteBytes
<1>2. UNCHANGED apart
  BY DEF DeleteBytes, Reshaped
<1>3. CASE ranges[c].len < 2
  BY <1>1, <1>2, <1>3, NothingTyped
<1>4. CASE ~ ranges[c].len < 2
  <2>1. PICK n \in choose_block_len(ranges[c].len - 1), pos \in Int :
                /\ Wrote(ranges[c].start + pos, tempLen - (ranges[c].start + pos) - n)
                /\ tempLen' = tempLen - n
                /\ ranges' = Resized(c, -n)
    BY <1>1, <1>4
  <2>2. ranges[c].start \in Int /\ ranges[c].len \in Nat /\ tempLen \in Int
    BY RangeTypes
  <2>3. ranges[c].len - 1 \in Nat \ {0}
    BY <1>4, <2>2
  <2>4. n \in 1 .. (ranges[c].len - 1)
    BY <2>1, <2>3, BlockLengthIs
  <2>5. -n \in Int /\ ranges[c].len + (-n) >= 0 /\ tempLen + (-n) = tempLen - n
    BY <2>2, <2>4
  <2>6. touched' \in [from : Int, size : Int]
    BY <2>1, <2>2, <2>4 DEF Wrote
  <2> QED BY <1>2, <2>1, <2>5, <2>6, ResizedTyped
<1> QED BY <1>3, <1>4

\* Bytes are inserted into a range, or it is doubled.
LEMMA InsertionTyped == ASSUME HavocInv, CloneBytes \/ InsertExtra \/ DuplicateRange PROVE Typed
<1>1. UNCHANGED apart
  BY DEF CloneBytes, InsertExtra, DuplicateRange, Reshaped
<1>2. \/ KeepsShape /\ touched' = NoWrite
      \/ \E c \in DOMAIN ranges, n \in Nat, from \in Int, size \in Int :
            Wrote(from, size) /\ tempLen' = tempLen + n /\ ranges' = Resized(c, n)
  <2>1. CASE CloneBytes
    <3>1. CASE ~ tempLen + BlockXL >= MaxFile
      <4>1. PICK c \in DOMAIN ranges, n \in choose_block_len(tempLen) \union choose_block_len(BlockXL) :
             \E pos \in 0 .. (IF ranges[c].len = 0 THEN 0 ELSE ranges[c].len - 1) :
               Wrote(ranges[c].start + pos, n) /\ tempLen' = tempLen + n /\ ranges' = Resized(c, n)
        BY <2>1, <3>1 DEF CloneBytes
      <4>2. n \in Nat
        BY BlocksAreNumbers, RangeTypes, HavocAssumption
      <4>3. \A pos \in Int : ranges[c].start + pos \in Int
        BY RangeTypes
      <4> QED BY <4>1, <4>2, <4>3
    <3> QED BY <2>1, <3>1 DEF CloneBytes
  <2>2. CASE InsertExtra
    <3>1. PICK c \in DOMAIN ranges :
          \/ \E n \in {k \in TokenSizes : tempLen + k < MaxFile} : \E pos \in 0 .. ranges[c].len :
                Wrote(ranges[c].start + pos, n) /\ tempLen' = tempLen + n /\ ranges' = Resized(c, n)
          \/ KeepsShape /\ touched' = NoWrite
      BY <2>2 DEF InsertExtra
    <3>2. \A pos \in Int : ranges[c].start + pos \in Int
      BY RangeTypes
    <3>3. TokenSizes \subseteq Nat
      BY HavocAssumption
    <3> QED BY <3>1, <3>2, <3>3
  <2>3. CASE DuplicateRange
    <3>1. \A c \in DOMAIN ranges : ranges[c].start \in Int /\ ranges[c].len \in Nat /\ 2 * ranges[c].len \in Int
      BY RangeTypes
    <3> QED BY <2>3, <3>1 DEF DuplicateRange
  <2> QED BY <2>1, <2>2, <2>3
<1>3. CASE KeepsShape /\ touched' = NoWrite
  BY <1>1, <1>3, NothingTyped
<1>4. ASSUME NEW c \in DOMAIN ranges, NEW n \in Nat, NEW from \in Int, NEW size \in Int,
             Wrote(from, size), tempLen' = tempLen + n, ranges' = Resized(c, n)
      PROVE  Typed
  <2>1. n \in Int /\ ranges[c].len + n >= 0
    BY RangeTypes
  <2>2. touched' \in [from : Int, size : Int]
    BY <1>4 DEF Wrote
  <2> QED BY <1>1, <1>4, <2>1, <2>2, ResizedTyped
<1> QED BY <1>2, <1>3, <1>4

LEMMA RegionTyped == ASSUME HavocInv, ReplaceRegion \/ PrependRegion \/ AppendRegion PROVE Typed
<1>1. CASE KeepsShape /\ touched' = NoWrite /\ UNCHANGED apart
  BY <1>1, NothingTyped
<1>2. CASE ReplaceRegion /\ ~ (KeepsShape /\ touched' = NoWrite /\ UNCHANGED apart)
  <2>1. PICK n \in RegionSizes :
           tempLen' = n /\ ranges' \in Decompositions(n) /\ Wrote(0, n) /\ apart' = InOrder(ranges', n)
    BY <1>2 DEF ReplaceRegion
  <2>2. n \in Nat
    BY HavocAssumption
  <2>3. ranges' \in Seq(AnyRange) /\ ranges' # <<>>
    BY <2>1, <2>2, DecompositionIs, OpenIsAny
  <2>4. touched' \in [from : Int, size : Int] /\ apart' \in BOOLEAN
    BY <2>1, <2>2 DEF Wrote, InOrder
  <2> QED BY <2>1, <2>2, <2>3, <2>4 DEF Typed
<1>3. CASE PrependRegion /\ ~ (KeepsShape /\ touched' = NoWrite)
  <2>1. PICK n \in RegionSizes :
           /\ Wrote(0, n) /\ tempLen' = tempLen + n
           /\ ranges' = [i \in DOMAIN ranges |-> [start |-> ranges[i].start + n, len |-> ranges[i].len]]
    BY <1>3 DEF PrependRegion
  <2>2. n \in Nat /\ UNCHANGED apart
    BY <1>3, HavocAssumption DEF PrependRegion, Reshaped
  <2>3. /\ DOMAIN ranges = 1 .. Len(ranges) /\ Len(ranges) \in Nat \ {0} /\ tempLen \in Int
        /\ \A i \in DOMAIN ranges : ranges[i].start + n \in Int /\ ranges[i].len \in Nat
    BY <2>2, RangeTypes
  <2>4. ranges' \in [1 .. Len(ranges) -> AnyRange]
    BY <2>1, <2>3 DEF AnyRange
  <2>5. ranges' \in Seq(AnyRange) /\ ranges' # <<>>
    BY <2>3, <2>4
  <2>6. touched' \in [from : Int, size : Int] /\ apart' \in BOOLEAN /\ tempLen' \in Int
    BY <2>1, <2>2, <2>3 DEF Wrote, HavocInv, HavocTypeOK
  <2> QED BY <2>5, <2>6 DEF Typed
<1>4. CASE AppendRegion /\ ~ (KeepsShape /\ touched' = NoWrite)
  <2>1. PICK n \in RegionSizes : Wrote(tempLen, n) /\ tempLen' = tempLen + n /\ ranges' = ranges
    BY <1>4 DEF AppendRegion
  <2>2. n \in Nat /\ UNCHANGED apart /\ tempLen \in Int
    BY <1>4, HavocAssumption, RangeTypes DEF AppendRegion, Reshaped
  <2> QED BY <2>1, <2>2 DEF Wrote, Typed, HavocInv, HavocTypeOK
<1> QED BY <1>1, <1>2, <1>3, <1>4 DEF PrependRegion, AppendRegion, Reshaped

LEMMA StepInv == HavocInv /\ [HavocNext]_havocVars => HavocInv'
<1> SUFFICES ASSUME HavocInv, [HavocNext]_havocVars PROVE HavocInv'
  OBVIOUS
<1>1. CASE OpenM2
  BY <1>1, OpenKeeps
<1>2. CASE HavocStage
  BY <1>2, StageKeeps
<1>3. CASE RunHavoc
  BY <1>3, RunKeeps
<1>4. CASE AbandonHavoc
  BY <1>4, AbandonKeeps
<1>5. CASE Splice
  BY <1>5, SpliceKeeps
<1>6. CASE TweakNumber
  BY <1>6, NumberChanged, OverwritingTyped, TweakKeeps DEF TweakNumber, Reshaped
<1>7. CASE DeleteBytes
  BY <1>7, DeletionChanged, DeletionTyped, TweakKeeps DEF DeleteBytes, Reshaped
<1>8. CASE CloneBytes
  BY <1>8, CloneChanged, InsertionTyped, TweakKeeps DEF CloneBytes, Reshaped
<1>9. CASE OverwriteBytes
  BY <1>9, OverwriteChanged, OverwritingTyped, TweakKeeps DEF OverwriteBytes, Reshaped
<1>10. CASE OverwriteExtra
  BY <1>10, ExtraChanged, OverwritingTyped, TweakKeeps DEF OverwriteExtra, Reshaped
<1>11. CASE InsertExtra
  BY <1>11, InsertionChanged, InsertionTyped, TweakKeeps DEF InsertExtra, Reshaped
<1>12. CASE ReplaceRegion
  BY <1>12, ReplacementChanged, RegionTyped, TweakKeeps DEF ReplaceRegion
<1>13. CASE PrependRegion
  BY <1>13, PrependingChanged, RegionTyped, TweakKeeps DEF PrependRegion, Reshaped
<1>14. CASE AppendRegion
  BY <1>14, AppendingChanged, RegionTyped, TweakKeeps DEF AppendRegion, Reshaped
<1>15. CASE DuplicateRange
  BY <1>15, DuplicationChanged, InsertionTyped, TweakKeeps DEF DuplicateRange, Reshaped
<1>16. CASE UNCHANGED havocVars
  BY <1>16 DEF havocVars, HavocInv, HavocTypeOK, RangesInside, InOrder, WroteInside
<1> QED BY <1>1, <1>2, <1>3, <1>4, <1>5, <1>6, <1>7, <1>8, <1>9, <1>10, <1>11, <1>12, <1>13,
          <1>14, <1>15, <1>16 DEF HavocNext

----------------------------------------------------------------------------

\* Types and ranges together, which is what every change of the buffer relies on.
THEOREM HavocInvariant == HavocSpec => []HavocInv
  BY HavocInitInv, StepInv, PTL DEF HavocSpec

\* fuzz_one's havoc_stage and splicing: however many changes are stacked, in
\* whatever order, the ranges of a buffer that was decomposed into ranges in order
\* and apart stay in order, apart and inside the buffer, which has between 1 and
\* MAX_FILE bytes, and no change writes outside of it.
THEOREM RangesStayInside == HavocSpec => [](HavocTypeOK /\ RangesInside)
<1>1. HavocInv => HavocTypeOK /\ RangesInside
  BY DEF HavocInv
<1> QED BY <1>1, HavocInvariant, PTL

----------------------------------------------------------------------------
(* The output directory *)

Importing == {"clean", "clear", "mkdir", "enrich", "read"}
Fuzzing == {"start", "stats", "run"}
Seeds == UserSeeds \cup Items

OutDirTypeOK ==
    /\ doing \in Importing \cup Fuzzing \cup {"off", "pivot", "nuke"} /\ mode \in {"new", "resume"}
    /\ exist \subseteq {"out", "queue", "_resume"}
    /\ seedDir \subseteq Seeds /\ queue \subseteq Seeds /\ resume \subseteq Seeds /\ extra \subseteq Seeds
    /\ entries \subseteq Seeds /\ session \subseteq Seeds
    /\ stats \in {"none", "torn", "young", "old"}

\* Files are in directories, and an imported seed needs queue/.
FilesInDirs ==
    /\ queue # {} => "queue" \in exist
    /\ resume \cup extra # {} => "_resume" \in exist
    /\ doing \in {"enrich", "read", "pivot", "nuke"} \cup Fuzzing => "queue" \in exist

\* Where the seeds of the session are: between two runs in _resume/ or, if that is
\* empty, in queue/; during an import in _resume/, until all are in queue/ again.
SeedsAt ==
    /\ doing = "off" => session \subseteq resume \cup extra \/ (session \subseteq queue /\ resume \cup extra = {})
    /\ doing \in Importing \cup {"pivot"} =>
           /\ mode = "new" => session = {} /\ "_resume" \notin exist
           /\ mode = "resume" => session \subseteq resume \cup extra
    /\ doing \in {"pivot", "nuke", "start"} => session \subseteq entries
    /\ doing \in {"nuke", "start"} => entries \subseteq queue
    /\ doing = "nuke" => mode = "resume"
    /\ doing = "start" => resume \cup extra = {}
    /\ doing \in {"stats", "run"} => session \subseteq queue /\ resume \cup extra = {}

OutDirInv == OutDirTypeOK /\ FilesInDirs /\ (~ lossy => SeedsAt)

LEMMA OutDirInitInv == OutDirInit => OutDirInv
BY DEF OutDirInit, OutDirInv, OutDirTypeOK, FilesInDirs, SeedsAt, Seeds, Importing, Fuzzing

LEMMA StartNewKeeps == ASSUME OutDirInv, StartNew PROVE OutDirInv'
<1>1. OutDirTypeOK'
  BY DEF StartNew, OutDirInv, OutDirTypeOK, Importing, Fuzzing, Fresh, Sources, Seeds
<1>2. FilesInDirs'
  BY DEF StartNew, OutDirInv, OutDirTypeOK, FilesInDirs, Importing, Fuzzing, Renames
<1>3. ~ lossy' => SeedsAt'
  BY DEF StartNew, OutDirInv, OutDirTypeOK, FilesInDirs, SeedsAt, Importing, Fuzzing, Renames, Sources
<1> QED BY <1>1, <1>2, <1>3 DEF OutDirInv

LEMMA StartResumeKeeps == ASSUME OutDirInv, StartResume PROVE OutDirInv'
<1>1. OutDirTypeOK'
  BY DEF StartResume, OutDirInv, OutDirTypeOK, Importing, Fuzzing, Fresh, Sources, Seeds
<1>2. FilesInDirs'
  BY DEF StartResume, OutDirInv, OutDirTypeOK, FilesInDirs, Importing, Fuzzing, Renames
<1>3. ~ lossy' => SeedsAt'
  BY DEF StartResume, OutDirInv, OutDirTypeOK, FilesInDirs, SeedsAt, Importing, Fuzzing, Renames, Sources
<1> QED BY <1>1, <1>2, <1>3 DEF OutDirInv

LEMMA DeleteQueuedKeeps == ASSUME OutDirInv, DeleteQueued PROVE OutDirInv'
<1>1. OutDirTypeOK'
  BY DEF DeleteQueued, OutDirInv, OutDirTypeOK, Importing, Fuzzing, Fresh, Sources, Seeds
<1>2. FilesInDirs'
  BY DEF DeleteQueued, OutDirInv, OutDirTypeOK, FilesInDirs, Importing, Fuzzing, Renames
<1>3. ~ lossy' => SeedsAt'
  BY DEF DeleteQueued, OutDirInv, OutDirTypeOK, FilesInDirs, SeedsAt, Importing, Fuzzing, Renames, Sources
<1> QED BY <1>1, <1>2, <1>3 DEF OutDirInv

LEMMA DeleteRestKeeps == ASSUME OutDirInv, DeleteRest PROVE OutDirInv'
<1>1. OutDirTypeOK'
  BY DEF DeleteRest, OutDirInv, OutDirTypeOK, Importing, Fuzzing, Fresh, Sources, Seeds
<1>2. FilesInDirs'
  BY DEF DeleteRest, OutDirInv, OutDirTypeOK, FilesInDirs, Importing, Fuzzing, Renames
<1>3. ~ lossy' => SeedsAt'
  BY DEF DeleteRest, OutDirInv, OutDirTypeOK, FilesInDirs, SeedsAt, Importing, Fuzzing, Renames, Sources
<1> QED BY <1>1, <1>2, <1>3 DEF OutDirInv

LEMMA MakeDirsKeeps == ASSUME OutDirInv, MakeDirs PROVE OutDirInv'
<1>1. OutDirTypeOK'
  BY DEF MakeDirs, OutDirInv, OutDirTypeOK, Importing, Fuzzing, Fresh, Sources, Seeds
<1>2. FilesInDirs'
  BY DEF MakeDirs, OutDirInv, OutDirTypeOK, FilesInDirs, Importing, Fuzzing, Renames
<1>3. ~ lossy' => SeedsAt'
  BY DEF MakeDirs, OutDirInv, OutDirTypeOK, FilesInDirs, SeedsAt, Importing, Fuzzing, Renames, Sources
<1> QED BY <1>1, <1>2, <1>3 DEF OutDirInv

LEMMA EnrichTestcasesKeeps == ASSUME OutDirInv, EnrichTestcases PROVE OutDirInv'
<1>1. OutDirTypeOK'
  BY DEF EnrichTestcases, OutDirInv, OutDirTypeOK, Importing, Fuzzing, Fresh, Sources, Seeds
<1>2. FilesInDirs'
  BY DEF EnrichTestcases, OutDirInv, OutDirTypeOK, FilesInDirs, Importing, Fuzzing, Renames
<1>3. ~ lossy' => SeedsAt'
  BY DEF EnrichTestcases, OutDirInv, OutDirTypeOK, FilesInDirs, SeedsAt, Importing, Fuzzing, Renames, Sources
<1> QED BY <1>1, <1>2, <1>3 DEF OutDirInv

LEMMA ReadTestcasesKeeps == ASSUME OutDirInv, ReadTestcases PROVE OutDirInv'
<1>1. OutDirTypeOK'
  BY DEF ReadTestcases, OutDirInv, OutDirTypeOK, Importing, Fuzzing, Fresh, Sources, Seeds
<1>2. FilesInDirs'
  BY DEF ReadTestcases, OutDirInv, OutDirTypeOK, FilesInDirs, Importing, Fuzzing, Renames
<1>3. ~ lossy' => SeedsAt'
  BY DEF ReadTestcases, OutDirInv, OutDirTypeOK, FilesInDirs, SeedsAt, Importing, Fuzzing, Renames, Sources
<1> QED BY <1>1, <1>2, <1>3 DEF OutDirInv

LEMMA PivotInputsKeeps == ASSUME OutDirInv, PivotInputs PROVE OutDirInv'
<1>1. OutDirTypeOK'
  BY DEF PivotInputs, OutDirInv, OutDirTypeOK, Importing, Fuzzing, Fresh, Sources, Seeds
<1>2. FilesInDirs'
  BY DEF PivotInputs, OutDirInv, OutDirTypeOK, FilesInDirs, Importing, Fuzzing, Renames
<1>3. ~ lossy' => SeedsAt'
  BY DEF PivotInputs, OutDirInv, OutDirTypeOK, FilesInDirs, SeedsAt, Importing, Fuzzing, Renames, Sources
<1> QED BY <1>1, <1>2, <1>3 DEF OutDirInv

LEMMA NukeResumeDirKeeps == ASSUME OutDirInv, NukeResumeDir PROVE OutDirInv'
<1>1. OutDirTypeOK'
  BY DEF NukeResumeDir, OutDirInv, OutDirTypeOK, Importing, Fuzzing, Fresh, Sources, Seeds
<1>2. FilesInDirs'
  BY DEF NukeResumeDir, OutDirInv, OutDirTypeOK, FilesInDirs, Importing, Fuzzing, Renames
<1>3. ~ lossy' => SeedsAt'
  BY DEF NukeResumeDir, OutDirInv, OutDirTypeOK, FilesInDirs, SeedsAt, Importing, Fuzzing, Renames, Sources
<1> QED BY <1>1, <1>2, <1>3 DEF OutDirInv

LEMMA BeginSessionKeeps == ASSUME OutDirInv, BeginSession PROVE OutDirInv'
<1>1. OutDirTypeOK'
  BY DEF BeginSession, OutDirInv, OutDirTypeOK, Importing, Fuzzing, Fresh, Sources, Seeds
<1>2. FilesInDirs'
  BY DEF BeginSession, OutDirInv, OutDirTypeOK, FilesInDirs, Importing, Fuzzing, Renames
<1>3. ~ lossy' => SeedsAt'
  BY DEF BeginSession, OutDirInv, OutDirTypeOK, FilesInDirs, SeedsAt, Importing, Fuzzing, Renames, Sources
<1> QED BY <1>1, <1>2, <1>3 DEF OutDirInv

LEMMA StatsWrittenKeeps == ASSUME OutDirInv, StatsWritten PROVE OutDirInv'
<1>1. OutDirTypeOK'
  BY DEF StatsWritten, OutDirInv, OutDirTypeOK, Importing, Fuzzing, Fresh, Sources, Seeds
<1>2. FilesInDirs'
  BY DEF StatsWritten, OutDirInv, OutDirTypeOK, FilesInDirs, Importing, Fuzzing, Renames
<1>3. ~ lossy' => SeedsAt'
  BY DEF StatsWritten, OutDirInv, OutDirTypeOK, FilesInDirs, SeedsAt, Importing, Fuzzing, Renames, Sources
<1> QED BY <1>1, <1>2, <1>3 DEF OutDirInv

LEMMA StatsDueKeeps == ASSUME OutDirInv, StatsDue PROVE OutDirInv'
<1>1. OutDirTypeOK'
  BY DEF StatsDue, OutDirInv, OutDirTypeOK, Importing, Fuzzing, Fresh, Sources, Seeds
<1>2. FilesInDirs'
  BY DEF StatsDue, OutDirInv, OutDirTypeOK, FilesInDirs, Importing, Fuzzing, Renames
<1>3. ~ lossy' => SeedsAt'
  BY DEF StatsDue, OutDirInv, OutDirTypeOK, FilesInDirs, SeedsAt, Importing, Fuzzing, Renames, Sources
<1> QED BY <1>1, <1>2, <1>3 DEF OutDirInv

LEMMA FindPathKeeps == ASSUME OutDirInv, FindPath PROVE OutDirInv'
<1>1. OutDirTypeOK'
  BY DEF FindPath, OutDirInv, OutDirTypeOK, Importing, Fuzzing, Fresh, Sources, Seeds
<1>2. FilesInDirs'
  BY DEF FindPath, OutDirInv, OutDirTypeOK, FilesInDirs, Importing, Fuzzing, Renames
<1>3. ~ lossy' => SeedsAt'
  BY DEF FindPath, OutDirInv, OutDirTypeOK, FilesInDirs, SeedsAt, Importing, Fuzzing, Renames, Sources
<1> QED BY <1>1, <1>2, <1>3 DEF OutDirInv

LEMMA KilledKeeps == ASSUME OutDirInv, Killed PROVE OutDirInv'
<1>1. OutDirTypeOK'
  BY DEF Killed, OutDirInv, OutDirTypeOK, Importing, Fuzzing, Fresh, Sources, Seeds
<1>2. FilesInDirs'
  BY DEF Killed, OutDirInv, OutDirTypeOK, FilesInDirs, Importing, Fuzzing, Renames
<1>3. ~ lossy' => SeedsAt'
  BY DEF Killed, OutDirInv, OutDirTypeOK, FilesInDirs, SeedsAt, Importing, Fuzzing, Renames, Sources
<1> QED BY <1>1, <1>2, <1>3 DEF OutDirInv

\* Whatever sessions are started, resumed and killed, and wherever they are killed,
\* the seeds of the session can be found again by the next one (setup_dirs_fds,
\* maybe_delete_out_dir, pivot_inputs, nuke_resume_dir).
THEOREM SeedsAlwaysSurvive == OutDirSpec => [](OutDirTypeOK /\ SeedsSurviveKills)
<1>1. OutDirInv /\ [OutDirNext]_outDirVars => OutDirInv'
  <2>1. OutDirInv /\ UNCHANGED outDirVars => OutDirInv'
    BY DEF OutDirInv, OutDirTypeOK, FilesInDirs, SeedsAt, outDirVars
  <2> QED BY <2>1, StartNewKeeps, StartResumeKeeps, DeleteQueuedKeeps, DeleteRestKeeps,
             MakeDirsKeeps, EnrichTestcasesKeeps, ReadTestcasesKeeps, PivotInputsKeeps,
             NukeResumeDirKeeps, BeginSessionKeeps, StatsWrittenKeeps, StatsDueKeeps,
             FindPathKeeps, KilledKeeps
             DEF OutDirNext
<1>2. OutDirInv => OutDirTypeOK /\ SeedsSurviveKills
  BY DEF OutDirInv, SeedsAt, SeedsSurviveKills
<1> QED BY <1>1, <1>2, OutDirInitInv, PTL DEF OutDirSpec

----------------------------------------------------------------------------
(* Runs of the server *)

Exchanging == {"arm", "connect", "send", "last", "gone", "status"}
Deaths == {"exit", "crash", "term", "execfail", "kill"}

ExecutionTypeOK ==
    /\ conf \in Configurations
    /\ at \in {"off", "hello", "idle", "pid", "disarm", "judge", "fatal"} \cup Exchanging
    /\ fs \in {"none", "hello", "wait", "waitpid", "dead"}
    /\ child \in {"none", "running", "stopped", "zombie"}
    /\ childPid \in {-1, 0, 1}
    /\ runs \in Nat /\ (runs = 0 => at \in {"off", "hello", "idle", "fatal"})
    /\ messagesSent \in Nat

ExecutionFlagsOK ==
    /\ stopped \in BOOLEAN /\ termPending \in BOOLEAN /\ timer \in BOOLEAN
    /\ timedOut \in BOOLEAN /\ prevTimedOut \in BOOLEAN /\ stopSoon \in BOOLEAN

\* A process that has ended did so by itself, or its timer has killed it, which
\* is on record.
LivesOrEnded ==
    /\ child \in {"running", "stopped"} => death = NoStatus /\ killer = "none"
    /\ child = "zombie" => /\ death \in Deaths
                           /\ killer = (IF death = "kill" THEN "timer" ELSE "none")
                           /\ death = "kill" => timedOut

\* s is what became of the process: it is gone, or has stopped itself and
\* waits, perhaps killed since then.
Became(s) ==
    \/ /\ s = death /\ death \in Deaths /\ child = "none" /\ ~ stopped
       /\ killer = (IF death = "kill" THEN "timer" ELSE "none")
       /\ death = "kill" => timedOut
    \/ /\ s = "stopped" /\ stopped
       /\ \/ child = "stopped" /\ death = NoStatus /\ killer = "none"
          \/ child = "zombie" /\ death = "kill" /\ killer = "timer" /\ timedOut

\* The fork server watches the process of this run.
Watched == fs = "waitpid" /\ child # "none" /\ ~ stopped /\ LivesOrEnded

NothingRan == child = "none" /\ ~ stopped /\ runs = 0

\* What run_target has concluded fits the status.
VerdictFits ==
    /\ verdict = "tmout" <=> (status = "kill" /\ timedOut)
    /\ verdict = "crash" <=> (status = "crash" \/ (status = "kill" /\ ~ timedOut))

\* A run ended, and its status is in the pipe behind what is already there.
Relayed(before) == fs = "wait" /\ \E s \in Deaths \cup {"stopped"} : st = Append(before, s) /\ Became(s)

AtOff == NothingRan /\ ~ timer /\ fs = "none" /\ ctl = <<>> /\ st = <<>> /\ HasForkServer
AtHello ==
    /\ NothingRan /\ ctl = <<>> /\ HasForkServer
    /\ \/ fs = "hello" /\ st = <<>>
       \/ fs = "wait" /\ st = <<"hello">>
       \/ fs = "dead" /\ st \in {<<>>, <<"hello">>}
AtIdle ==
    /\ ctl = <<>> /\ st = <<>> /\ ~ timer
    /\ fs \in (IF HasForkServer THEN {"wait", "dead"} ELSE {"none"})
    /\ runs = 0 => NothingRan
    /\ runs # 0 => fs # "dead" /\ Became(status) /\ (prevTimedOut <=> timedOut) /\ VerdictFits
\* The fork server has to be told of the new run, tells of the process, or of its end.
AtPid ==
    /\ HasForkServer /\ ~ timer /\ ~ timedOut
    /\ \/ /\ ctl = <<prevTimedOut>> /\ st = <<>> /\ fs = "wait"
          /\ \/ child = "none" /\ ~ stopped
             \/ stopped /\ child = "stopped" /\ death = NoStatus /\ killer = "none"
             \/ stopped /\ child = "zombie" /\ prevTimedOut
       \/ ctl = <<>> /\ st = <<"pid">> /\ Watched
       \/ ctl = <<>> /\ Relayed(<<"pid">>)
AtExchange ==
    /\ ctl = <<>> /\ childPid # -1
    /\ \/ ~ HasForkServer /\ st = <<>> /\ fs = "none" /\ child # "none" /\ ~ stopped /\ LivesOrEnded
       \/ HasForkServer /\ st = <<>> /\ Watched
       \/ HasForkServer /\ Relayed(<<>>)
AtEnd ==
    /\ ctl = <<>> /\ st = <<>> /\ childPid # -1
    /\ fs = (IF HasForkServer THEN "wait" ELSE "none")
    /\ Became(status)
    /\ at = "judge" => ~ timer

\* Where afl-fuzz is tells what the fork server, the pipes and the process are at,
\* as long as no stop was asked for.
Together ==
    /\ at = "off" => AtOff
    /\ at = "hello" => AtHello
    /\ at = "idle" => AtIdle
    /\ at = "pid" => AtPid
    /\ at \in Exchanging => AtExchange
    /\ at \in {"disarm", "judge"} => AtEnd

\* What was received of the messages that were sent; l stands for the last one.
SizesTo(l) == messagesSent > 0 /\ responses = [i \in 1..messagesSent |-> IF i = messagesSent THEN l ELSE "size"]
Received == responses = NoBytes \/ SizesTo("size")
Replies ==
    /\ at = "send" => Received /\ (responses = NoBytes => messagesSent = 0)
    /\ at = "last" => responses = NoBytes \/ SizesTo("size") \/ SizesTo("unset")
    /\ at \notin {"send", "last"} => Received

ExecutionInv == ExecutionTypeOK /\ ExecutionFlagsOK /\ Replies /\ (~ stopSoon => Together)

LEMMA InitForkserverKeeps == ExecutionInv /\ InitForkserver => ExecutionInv'
<1> SUFFICES ASSUME ExecutionInv, InitForkserver PROVE ExecutionInv' OBVIOUS
<1>1. ExecutionTypeOK'
  BY DEF ExecutionInv, ExecutionTypeOK, HasForkServer, Exchanging, InitForkserver, serverVars, answerVars
<1>2. ExecutionFlagsOK' BY DEF ExecutionInv, ExecutionFlagsOK, InitForkserver, serverVars, answerVars
<1>3. Replies'
  BY DEF ExecutionInv, ExecutionTypeOK, Replies, Received, SizesTo, NoBytes, InitForkserver, serverVars,
     answerVars
<1>4. ASSUME ~ stopSoon' PROVE Together'
  BY <1>4 DEF ExecutionInv, ExecutionTypeOK, Together, AtOff, AtHello, AtIdle, AtPid, AtExchange, AtEnd,
     Became, Watched, LivesOrEnded, NothingRan, Relayed, Deaths, VerdictFits, NoStatus, HasForkServer,
     Exchanging, ExecutionFlagsOK, InitForkserver, serverVars, answerVars
<1>q. QED BY <1>1, <1>2, <1>3, <1>4 DEF ExecutionInv

LEMMA HelloReadKeeps == ExecutionInv /\ HelloRead => ExecutionInv'
<1> SUFFICES ASSUME ExecutionInv, HelloRead PROVE ExecutionInv' OBVIOUS
<1>1. ExecutionTypeOK'
  BY DEF ExecutionInv, ExecutionTypeOK, HasForkServer, Exchanging, HelloRead, serverVars, answerVars
<1>2. ExecutionFlagsOK' BY DEF ExecutionInv, ExecutionFlagsOK, HelloRead, serverVars, answerVars
<1>3. Replies'
  BY DEF ExecutionInv, ExecutionTypeOK, Replies, Received, SizesTo, NoBytes, HelloRead, serverVars,
     answerVars
<1>4. ASSUME ~ stopSoon' PROVE Together'
  <2>2. AtHello /\ ExecutionFlagsOK BY <1>4 DEF ExecutionInv, Together, HelloRead
  <2>3. CASE at' = "fatal" BY <2>3 DEF Together, Exchanging
  <2>4. CASE at' # "fatal"
    <3>1. at' = "idle" /\ st # <<>> /\ st' = Tail(st) /\ timer' = FALSE BY <2>4 DEF HelloRead
    <3>2. st = <<"hello">> BY <2>2, <3>1 DEF AtHello
    <3>3. st' = <<>> BY <3>1, <3>2
    <3>4. fs' \in (IF HasForkServer' THEN {"wait", "dead"} ELSE {"none"})
      BY <2>2, <3>2 DEF AtHello, HelloRead, HasForkServer
    <3>5. NothingRan' /\ ctl' = <<>> BY <2>2 DEF AtHello, NothingRan, HelloRead, serverVars
    <3>6. AtIdle' BY <3>1, <3>3, <3>4, <3>5 DEF AtIdle, NothingRan
    <3>q. QED BY <3>1, <3>6 DEF Together, Exchanging
  <2>q. QED BY <2>3, <2>4
<1>q. QED BY <1>1, <1>2, <1>3, <1>4 DEF ExecutionInv

LEMMA StartRunKeeps == ExecutionInv /\ StartRun => ExecutionInv'
<1> SUFFICES ASSUME ExecutionInv, StartRun PROVE ExecutionInv' OBVIOUS
<1>1. ExecutionTypeOK'
  BY DEF ExecutionInv, ExecutionTypeOK, HasForkServer, Exchanging, StartRun, Broken, BirthOf, serverVars,
     answerVars
<1>2. ExecutionFlagsOK' BY DEF ExecutionInv, ExecutionFlagsOK, StartRun, Broken, BirthOf, serverVars, answerVars
<1>3. Replies'
  BY DEF ExecutionInv, ExecutionTypeOK, Replies, Received, SizesTo, NoBytes, StartRun, Broken, BirthOf,
     serverVars, answerVars
<1>4. ASSUME ~ stopSoon' PROVE Together'
  BY <1>4 DEF ExecutionInv, ExecutionTypeOK, Together, AtOff, AtHello, AtIdle, AtPid, AtExchange, AtEnd,
     Became, Watched, LivesOrEnded, NothingRan, Relayed, Deaths, VerdictFits, NoStatus, HasForkServer,
     Exchanging, ExecutionFlagsOK, StartRun, Broken, BirthOf, serverVars, answerVars
<1>q. QED BY <1>1, <1>2, <1>3, <1>4 DEF ExecutionInv

LEMMA PidReadKeeps == ExecutionInv /\ PidRead => ExecutionInv'
<1> SUFFICES ASSUME ExecutionInv, PidRead PROVE ExecutionInv' OBVIOUS
<1>1. ExecutionTypeOK'
  BY DEF ExecutionInv, ExecutionTypeOK, HasForkServer, Exchanging, PidRead, Broken, serverVars, answerVars
<1>2. ExecutionFlagsOK' BY DEF ExecutionInv, ExecutionFlagsOK, PidRead, Broken, serverVars, answerVars
<1>3. Replies'
  BY DEF ExecutionInv, ExecutionTypeOK, Replies, Received, SizesTo, NoBytes, PidRead, Broken, serverVars,
     answerVars
<1>4. ASSUME ~ stopSoon' PROVE Together'
  <2>1. AtPid /\ ~ stopSoon BY <1>4 DEF ExecutionInv, Together, PidRead
  <2>2. (st # <<>> /\ at' = "arm" /\ childPid' = 1 /\ st' = Tail(st)) \/ at' = "fatal"
    BY <2>1 DEF PidRead, Broken
  <2>3. UNCHANGED <<conf, fs, stopped, child, death, killer, ctl, timedOut, stopSoon>>
    BY DEF PidRead, serverVars
  <2>4. CASE at' = "fatal" BY <2>4 DEF Together, Exchanging
  <2>5. CASE st # <<>> /\ at' = "arm" /\ childPid' = 1 /\ st' = Tail(st)
    <3>1. CASE ctl = <<>> /\ st = <<"pid">> /\ Watched
      <4>1. st' = <<>> BY <2>5, <3>1
      <4>2. Watched' BY <2>3, <3>1 DEF Watched, LivesOrEnded
      <4>3. AtExchange' BY <4>1, <4>2, <3>1, <2>1, <2>3, <2>5 DEF AtExchange, AtPid, HasForkServer
      <4>q. QED BY <4>3, <2>5 DEF Together, Exchanging
    <3>2. CASE ctl = <<>> /\ Relayed(<<"pid">>)
      <4>1. PICK s \in Deaths \cup {"stopped"} : st = Append(<<"pid">>, s) /\ Became(s) BY <3>2 DEF Relayed
      <4>2. st' = Append(<<>>, s)
        <5>1. <<"pid">> \in Seq({"pid"}) /\ <<"pid">> # <<>> /\ Tail(<<"pid">>) = <<>> OBVIOUS
        <5>2. Tail(Append(<<"pid">>, s)) = Append(<<>>, s) BY <5>1, HeadTailAppend
        <5>q. QED BY <2>5, <4>1, <5>2
      <4>3. Became(s)' BY <2>3, <4>1 DEF Became
      <4>4. Relayed(<<>>)' BY <3>2, <2>3, <4>2, <4>3 DEF Relayed
      <4>5. AtExchange' BY <4>4, <3>2, <2>1, <2>3, <2>5 DEF AtExchange, AtPid, HasForkServer
      <4>q. QED BY <4>5, <2>5 DEF Together, Exchanging
    <3>q. QED BY <3>1, <3>2, <2>1, <2>5 DEF AtPid
  <2>q. QED BY <2>2, <2>4, <2>5
<1>q. QED BY <1>1, <1>2, <1>3, <1>4 DEF ExecutionInv

LEMMA ArmTimerKeeps == ExecutionInv /\ ArmTimer => ExecutionInv'
<1> SUFFICES ASSUME ExecutionInv, ArmTimer PROVE ExecutionInv' OBVIOUS
<1>1. ExecutionTypeOK'
  BY DEF ExecutionInv, ExecutionTypeOK, HasForkServer, Exchanging, ArmTimer, serverVars, answerVars
<1>2. ExecutionFlagsOK' BY DEF ExecutionInv, ExecutionFlagsOK, ArmTimer, serverVars, answerVars
<1>3. Replies'
  BY DEF ExecutionInv, ExecutionTypeOK, Replies, Received, SizesTo, NoBytes, ArmTimer, serverVars,
     answerVars
<1>4. ASSUME ~ stopSoon' PROVE Together'
  BY <1>4 DEF ExecutionInv, ExecutionTypeOK, Together, AtOff, AtHello, AtIdle, AtPid, AtExchange, AtEnd,
     Became, Watched, LivesOrEnded, NothingRan, Relayed, Deaths, VerdictFits, NoStatus, HasForkServer,
     Exchanging, ExecutionFlagsOK, ArmTimer, serverVars, answerVars
<1>q. QED BY <1>1, <1>2, <1>3, <1>4 DEF ExecutionInv

LEMMA ConnectKeeps == ExecutionInv /\ Connect => ExecutionInv'
<1> SUFFICES ASSUME ExecutionInv, Connect PROVE ExecutionInv' OBVIOUS
<1>1. ExecutionTypeOK'
  BY DEF ExecutionInv, ExecutionTypeOK, HasForkServer, Exchanging, Connect, serverVars, answerVars
<1>2. ExecutionFlagsOK' BY DEF ExecutionInv, ExecutionFlagsOK, Connect, serverVars, answerVars
<1>3. Replies'
  BY DEF ExecutionInv, ExecutionTypeOK, Replies, Received, SizesTo, NoBytes, Connect, serverVars, answerVars
<1>4. ASSUME ~ stopSoon' PROVE Together'
  BY <1>4 DEF ExecutionInv, ExecutionTypeOK, Together, AtOff, AtHello, AtIdle, AtPid, AtExchange, AtEnd,
     Became, Watched, LivesOrEnded, NothingRan, Relayed, Deaths, VerdictFits, NoStatus, HasForkServer,
     Exchanging, ExecutionFlagsOK, Connect, serverVars, answerVars
<1>q. QED BY <1>1, <1>2, <1>3, <1>4 DEF ExecutionInv

LEMMA SendMessageKeeps == ExecutionInv /\ SendMessage => ExecutionInv'
<1> SUFFICES ASSUME ExecutionInv, SendMessage PROVE ExecutionInv' OBVIOUS
<1>1. ExecutionTypeOK'
  BY DEF ExecutionInv, ExecutionTypeOK, HasForkServer, Exchanging, SendMessage, Accumulated, serverVars,
     answerVars
<1>2. ExecutionFlagsOK' BY DEF ExecutionInv, ExecutionFlagsOK, SendMessage, Accumulated, serverVars, answerVars
<1>3. Replies'
  BY DEF ExecutionInv, ExecutionTypeOK, Replies, Received, SizesTo, NoBytes, SendMessage, Accumulated,
     serverVars, answerVars
<1>4. ASSUME ~ stopSoon' PROVE Together'
  BY <1>4 DEF ExecutionInv, ExecutionTypeOK, Together, AtOff, AtHello, AtIdle, AtPid, AtExchange, AtEnd,
     Became, Watched, LivesOrEnded, NothingRan, Relayed, Deaths, VerdictFits, NoStatus, HasForkServer,
     Exchanging, ExecutionFlagsOK, SendMessage, Accumulated, serverVars, answerVars
<1>q. QED BY <1>1, <1>2, <1>3, <1>4 DEF ExecutionInv

LEMMA AllSentKeeps == ExecutionInv /\ AllSent => ExecutionInv'
<1> SUFFICES ASSUME ExecutionInv, AllSent PROVE ExecutionInv' OBVIOUS
<1>1. ExecutionTypeOK'
  BY DEF ExecutionInv, ExecutionTypeOK, HasForkServer, Exchanging, AllSent, serverVars, answerVars
<1>2. ExecutionFlagsOK' BY DEF ExecutionInv, ExecutionFlagsOK, AllSent, serverVars, answerVars
<1>3. Replies'
  BY DEF ExecutionInv, ExecutionTypeOK, Replies, Received, SizesTo, NoBytes, AllSent, serverVars, answerVars
<1>4. ASSUME ~ stopSoon' PROVE Together'
  BY <1>4 DEF ExecutionInv, ExecutionTypeOK, Together, AtOff, AtHello, AtIdle, AtPid, AtExchange, AtEnd,
     Became, Watched, LivesOrEnded, NothingRan, Relayed, Deaths, VerdictFits, NoStatus, HasForkServer,
     Exchanging, ExecutionFlagsOK, AllSent, serverVars, answerVars
<1>q. QED BY <1>1, <1>2, <1>3, <1>4 DEF ExecutionInv

LEMMA HandleResponsesKeeps == ExecutionInv /\ HandleResponses => ExecutionInv'
<1> SUFFICES ASSUME ExecutionInv, HandleResponses PROVE ExecutionInv' OBVIOUS
<1>1. ExecutionTypeOK'
  BY DEF ExecutionInv, ExecutionTypeOK, HasForkServer, Exchanging, HandleResponses, WithLast, serverVars,
     answerVars
<1>2. ExecutionFlagsOK' BY DEF ExecutionInv, ExecutionFlagsOK, HandleResponses, WithLast, serverVars, answerVars
<1>3. Replies'
  BY DEF ExecutionInv, ExecutionTypeOK, Replies, Received, SizesTo, NoBytes, HandleResponses, WithLast,
     serverVars, answerVars
<1>4. ASSUME ~ stopSoon' PROVE Together'
  BY <1>4 DEF ExecutionInv, ExecutionTypeOK, Together, AtOff, AtHello, AtIdle, AtPid, AtExchange, AtEnd,
     Became, Watched, LivesOrEnded, NothingRan, Relayed, Deaths, VerdictFits, NoStatus, HasForkServer,
     Exchanging, ExecutionFlagsOK, HandleResponses, WithLast, serverVars, answerVars
<1>q. QED BY <1>1, <1>2, <1>3, <1>4 DEF ExecutionInv

LEMMA SeenGoneKeeps == ExecutionInv /\ SeenGone => ExecutionInv'
<1> SUFFICES ASSUME ExecutionInv, SeenGone PROVE ExecutionInv' OBVIOUS
<1>1. ExecutionTypeOK'
  BY DEF ExecutionInv, ExecutionTypeOK, HasForkServer, Exchanging, SeenGone, serverVars, answerVars
<1>2. ExecutionFlagsOK' BY DEF ExecutionInv, ExecutionFlagsOK, SeenGone, serverVars, answerVars
<1>3. Replies'
  BY DEF ExecutionInv, ExecutionTypeOK, Replies, Received, SizesTo, NoBytes, SeenGone, serverVars,
     answerVars
<1>4. ASSUME ~ stopSoon' PROVE Together'
  BY <1>4 DEF ExecutionInv, ExecutionTypeOK, Together, AtOff, AtHello, AtIdle, AtPid, AtExchange, AtEnd,
     Became, Watched, LivesOrEnded, NothingRan, Relayed, Deaths, VerdictFits, NoStatus, HasForkServer,
     Exchanging, ExecutionFlagsOK, SeenGone, serverVars, answerVars
<1>q. QED BY <1>1, <1>2, <1>3, <1>4 DEF ExecutionInv

LEMMA StatusReadKeeps == ExecutionInv /\ StatusRead => ExecutionInv'
<1> SUFFICES ASSUME ExecutionInv, StatusRead PROVE ExecutionInv' OBVIOUS
<1>1. ExecutionTypeOK'
  BY DEF ExecutionInv, ExecutionTypeOK, HasForkServer, Exchanging, StatusRead, Broken, serverVars,
     answerVars
<1>2. ExecutionFlagsOK' BY DEF ExecutionInv, ExecutionFlagsOK, StatusRead, Broken, serverVars, answerVars
<1>3. Replies'
  BY DEF ExecutionInv, ExecutionTypeOK, Replies, Received, SizesTo, NoBytes, StatusRead, Broken, serverVars,
     answerVars
<1>4. ASSUME ~ stopSoon' PROVE Together'
  <2>1. AtExchange /\ ~ stopSoon BY <1>4 DEF ExecutionInv, Together, StatusRead, Exchanging
  <2>2. UNCHANGED <<conf, fs, stopped, death, killer, ctl, timedOut, stopSoon>> BY DEF StatusRead
  <2>3. CASE at' = "fatal" BY <2>3 DEF Together, Exchanging
  <2>4. CASE ~ HasForkServer /\ at' # "fatal"
    <3>1. child = "zombie" /\ status' = death /\ child' = "none" /\ at' = "disarm" /\ childPid' = 0 /\ st' = st
      BY <2>4 DEF StatusRead
    <3>2. LivesOrEnded /\ ~ stopped /\ st = <<>> /\ fs = "none" /\ ctl = <<>> BY <2>1, <2>4 DEF AtExchange
    <3>3. Became(status)' BY <2>2, <3>1, <3>2 DEF Became, LivesOrEnded
    <3>4. AtEnd' BY <2>2, <2>4, <3>1, <3>2, <3>3 DEF AtEnd, HasForkServer
    <3>q. QED BY <3>1, <3>4 DEF Together, Exchanging
  <2>5. CASE HasForkServer /\ at' # "fatal"
    <3>1. /\ st # <<>> /\ status' = Head(st) /\ st' = Tail(st) /\ at' = "disarm" /\ child' = child
          /\ childPid' = (IF status' = "stopped" THEN childPid ELSE 0)
      BY <2>1, <2>5 DEF StatusRead, Broken
    <3>2. Relayed(<<>>) /\ ctl = <<>> /\ childPid # -1 BY <2>1, <2>5, <3>1 DEF AtExchange
    <3>3. PICK s \in Deaths \cup {"stopped"} : st = Append(<<>>, s) /\ Became(s) BY <3>2 DEF Relayed
    <3>4. st' = <<>> /\ status' = s BY <3>1, <3>3 DEF Deaths
    <3>5. Became(s)' BY <2>2, <3>1, <3>3 DEF Became
    <3>6. Became(status)' BY <3>4, <3>5 DEF Became
    <3>7. AtEnd' BY <2>2, <2>5, <3>1, <3>2, <3>4, <3>6 DEF AtEnd, HasForkServer, Relayed
    <3>q. QED BY <3>1, <3>7 DEF Together, Exchanging
  <2>q. QED BY <2>3, <2>4, <2>5
<1>q. QED BY <1>1, <1>2, <1>3, <1>4 DEF ExecutionInv

LEMMA DisarmKeeps == ExecutionInv /\ Disarm => ExecutionInv'
<1> SUFFICES ASSUME ExecutionInv, Disarm PROVE ExecutionInv' OBVIOUS
<1>1. ExecutionTypeOK'
  BY DEF ExecutionInv, ExecutionTypeOK, HasForkServer, Exchanging, Disarm, serverVars, answerVars
<1>2. ExecutionFlagsOK' BY DEF ExecutionInv, ExecutionFlagsOK, Disarm, serverVars, answerVars
<1>3. Replies'
  BY DEF ExecutionInv, ExecutionTypeOK, Replies, Received, SizesTo, NoBytes, Disarm, serverVars, answerVars
<1>4. ASSUME ~ stopSoon' PROVE Together'
  BY <1>4 DEF ExecutionInv, ExecutionTypeOK, Together, AtOff, AtHello, AtIdle, AtPid, AtExchange, AtEnd,
     Became, Watched, LivesOrEnded, NothingRan, Relayed, Deaths, VerdictFits, NoStatus, HasForkServer,
     Exchanging, ExecutionFlagsOK, Disarm, serverVars, answerVars
<1>q. QED BY <1>1, <1>2, <1>3, <1>4 DEF ExecutionInv

LEMMA JudgeKeeps == ExecutionInv /\ Judge => ExecutionInv'
<1> SUFFICES ASSUME ExecutionInv, Judge PROVE ExecutionInv' OBVIOUS
<1>1. ExecutionTypeOK'
  BY DEF ExecutionInv, ExecutionTypeOK, HasForkServer, Exchanging, Judge, serverVars, answerVars
<1>2. ExecutionFlagsOK' BY DEF ExecutionInv, ExecutionFlagsOK, Judge, serverVars, answerVars
<1>3. Replies'
  BY DEF ExecutionInv, ExecutionTypeOK, Replies, Received, SizesTo, NoBytes, Judge, serverVars, answerVars
<1>4. ASSUME ~ stopSoon' PROVE Together'
  <2>1. AtEnd /\ ~ stopSoon /\ ~ timer /\ ExecutionFlagsOK BY <1>4 DEF ExecutionInv, Together, Judge, AtEnd
  <2>2. /\ at' = "idle" /\ (prevTimedOut' <=> timedOut)
        /\ UNCHANGED <<conf, fs, stopped, child, death, killer, ctl, st, status, timedOut, stopSoon, timer, runs>>
    BY DEF Judge, serverVars
  <2>3. Became(status)' /\ (status \in Deaths \cup {"stopped"}) BY <2>1, <2>2 DEF AtEnd, Became
  <2>4. verdict' = VerdictOf(status, timedOut) BY DEF Judge
  <2>5. VerdictFits'
    <3>1. ASSUME status = "kill" PROVE verdict' = IF timedOut THEN "tmout" ELSE "crash"
      BY <2>1, <2>4, <3>1, Zenon DEF VerdictOf
    <3>2. ASSUME status = "crash" PROVE verdict' = "crash" BY <2>1, <2>4, <3>2, Zenon DEF VerdictOf
    <3>3. ASSUME status \in {"exit", "term", "execfail", "stopped"} PROVE verdict' \in {"none", "error"}
      BY <2>1, <2>4, <3>3 DEF VerdictOf
    <3>q. QED BY <3>1, <3>2, <3>3, <2>2, <2>3 DEF VerdictFits, Deaths
  <2>6. fs' \in (IF HasForkServer' THEN {"wait", "dead"} ELSE {"none"}) /\ fs' # "dead"
    BY <2>1, <2>2 DEF AtEnd, HasForkServer
  <2>7. runs' # 0 BY DEF ExecutionInv, ExecutionTypeOK, Judge
  <2>8. AtIdle' BY <2>1, <2>2, <2>3, <2>5, <2>6, <2>7 DEF AtIdle, AtEnd
  <2>q. QED BY <2>2, <2>8 DEF Together, Exchanging
<1>q. QED BY <1>1, <1>2, <1>3, <1>4 DEF ExecutionInv

LEMMA PhoneHomeKeeps == ExecutionInv /\ PhoneHome => ExecutionInv'
<1> SUFFICES ASSUME ExecutionInv, PhoneHome PROVE ExecutionInv' OBVIOUS
<1>1. ExecutionTypeOK'
  BY DEF ExecutionInv, ExecutionTypeOK, HasForkServer, Exchanging, PhoneHome, FsUnchanged, serverVars,
     answerVars
<1>2. ExecutionFlagsOK' BY DEF ExecutionInv, ExecutionFlagsOK, PhoneHome, FsUnchanged, serverVars, answerVars
<1>3. Replies'
  BY DEF ExecutionInv, ExecutionTypeOK, Replies, Received, SizesTo, NoBytes, PhoneHome, FsUnchanged,
     serverVars, answerVars
<1>4. ASSUME ~ stopSoon' PROVE Together'
  <2>1. Together /\ UNCHANGED <<at, conf, ctl, child, stopped, runs, stopSoon>>
    BY <1>4 DEF ExecutionInv, PhoneHome, FsUnchanged, serverVars
  <2>2. fs = "hello" /\ fs' = "wait" /\ st' = Append(st, "hello") BY DEF PhoneHome
  <2>3. CASE at = "hello"
    <3>1. AtHello /\ st = <<>> BY <2>1, <2>2, <2>3 DEF Together, AtHello
    <3>2. st' = <<"hello">> BY <2>2, <3>1
    <3>3. AtHello' BY <2>1, <2>2, <3>1, <3>2 DEF AtHello, NothingRan, HasForkServer
    <3>q. QED BY <2>1, <2>3, <3>3 DEF Together, Exchanging
  <2>4. CASE at # "hello"
    <3>1. at = "fatal"
      BY <2>1, <2>2, <2>4 DEF ExecutionInv, ExecutionTypeOK, Together, AtOff, AtIdle, AtPid, AtExchange,
         AtEnd, Watched, Relayed, HasForkServer
    <3>q. QED BY <2>1, <3>1 DEF Together, Exchanging
  <2>q. QED BY <2>3, <2>4
<1>q. QED BY <1>1, <1>2, <1>3, <1>4 DEF ExecutionInv

LEMMA NextChildKeeps == ExecutionInv /\ NextChild => ExecutionInv'
<1> SUFFICES ASSUME ExecutionInv, NextChild PROVE ExecutionInv' OBVIOUS
<1>1. ExecutionTypeOK'
  BY DEF ExecutionInv, ExecutionTypeOK, HasForkServer, Exchanging, NextChild, FsUnchanged, BirthOf,
     serverVars, answerVars
<1>2. ExecutionFlagsOK'
  BY DEF ExecutionInv, ExecutionFlagsOK, NextChild, FsUnchanged, BirthOf, serverVars, answerVars
<1>3. Replies'
  BY DEF ExecutionInv, ExecutionTypeOK, Replies, Received, SizesTo, NoBytes, NextChild, FsUnchanged,
     BirthOf, serverVars, answerVars
<1>4. ASSUME ~ stopSoon' PROVE Together'
  <2>1. Together /\ ExecutionFlagsOK /\ UNCHANGED <<at, conf, prevTimedOut, timedOut, timer, runs, stopSoon>>
    BY <1>4 DEF ExecutionInv, NextChild, FsUnchanged
  <2>2. fs = "wait" /\ ctl # <<>> BY DEF NextChild
  <2>3. CASE at = "fatal" BY <2>1, <2>3 DEF Together, Exchanging
  <2>4. CASE at # "fatal"
    <3>1. at = "pid"
      BY <2>1, <2>2, <2>4 DEF ExecutionInv, ExecutionTypeOK, Together, AtOff, AtHello, AtIdle, AtExchange,
         AtEnd
    <3>2. AtPid /\ ctl = <<prevTimedOut>> /\ st = <<>> BY <2>1, <2>2, <3>1 DEF Together, AtPid, Relayed
    <3>3. ctl' = <<>> /\ st' = <<"pid">> /\ fs' = "waitpid" /\ Head(ctl) = prevTimedOut
      <4>1. ctl' = Tail(ctl) /\ st' = Append(st, "pid") /\ fs' = "waitpid" BY DEF NextChild
      <4>2. \A x : Tail(<<x>>) = <<>> /\ Head(<<x>>) = x OBVIOUS
      <4>3. ctl' = <<>> /\ Head(ctl) = prevTimedOut BY <3>2, <4>1, <4>2, Zenon
      <4>4. st' = <<"pid">> BY <3>2, <4>1
      <4>q. QED BY <4>1, <4>3, <4>4
    <3>4. \/ child = "none" /\ ~ stopped
          \/ stopped /\ child = "stopped" /\ death = NoStatus /\ killer = "none"
          \/ stopped /\ child = "zombie" /\ prevTimedOut
      BY <3>2, <2>2 DEF AtPid, Watched, Relayed
    <3>5. CASE stopped /\ ~ prevTimedOut
      <4>1. child' = "running" /\ ~ stopped' /\ UNCHANGED <<death, killer>> BY <3>3, <3>4, <3>5 DEF NextChild
      <4>2. Watched' BY <3>3, <3>4, <3>5, <4>1 DEF Watched, LivesOrEnded, NoStatus
      <4>q. QED BY <2>1, <3>1, <3>2, <3>3, <4>2 DEF Together, AtPid, Exchanging, HasForkServer
    <3>6. CASE ~ (stopped /\ ~ prevTimedOut)
      <4>1. child' = "running" /\ ~ stopped' /\ death' = NoStatus /\ killer' = "none"
        BY <3>3, <3>6 DEF NextChild, BirthOf
      <4>2. Watched' BY <3>3, <4>1 DEF Watched, LivesOrEnded
      <4>q. QED BY <2>1, <3>1, <3>2, <3>3, <4>2 DEF Together, AtPid, Exchanging, HasForkServer
    <3>q. QED BY <3>5, <3>6
  <2>q. QED BY <2>3, <2>4
<1>q. QED BY <1>1, <1>2, <1>3, <1>4 DEF ExecutionInv

LEMMA RelayKeeps == ExecutionInv /\ Relay => ExecutionInv'
<1> SUFFICES ASSUME ExecutionInv, Relay PROVE ExecutionInv' OBVIOUS
<1>1. ExecutionTypeOK'
  BY DEF ExecutionInv, ExecutionTypeOK, HasForkServer, Exchanging, Relay, FsUnchanged, serverVars,
     answerVars
<1>2. ExecutionFlagsOK' BY DEF ExecutionInv, ExecutionFlagsOK, Relay, FsUnchanged, serverVars, answerVars
<1>3. Replies'
  BY DEF ExecutionInv, ExecutionTypeOK, Replies, Received, SizesTo, NoBytes, Relay, FsUnchanged, serverVars,
     answerVars
<1>4. ASSUME ~ stopSoon' PROVE Together'
  BY <1>4 DEF ExecutionInv, ExecutionTypeOK, Together, AtOff, AtHello, AtIdle, AtPid, AtExchange, AtEnd,
     Became, Watched, LivesOrEnded, NothingRan, Relayed, Deaths, VerdictFits, NoStatus, HasForkServer,
     Exchanging, ExecutionFlagsOK, Relay, FsUnchanged, serverVars, answerVars
<1>q. QED BY <1>1, <1>2, <1>3, <1>4 DEF ExecutionInv

LEMMA ChildEndsKeeps == ExecutionInv /\ ChildEnds => ExecutionInv'
<1> SUFFICES ASSUME ExecutionInv, ChildEnds PROVE ExecutionInv' OBVIOUS
<1>1. ExecutionTypeOK'
  BY DEF ExecutionInv, ExecutionTypeOK, HasForkServer, Exchanging, ChildEnds, Others, serverVars, answerVars
<1>2. ExecutionFlagsOK' BY DEF ExecutionInv, ExecutionFlagsOK, ChildEnds, Others, serverVars, answerVars
<1>3. Replies'
  BY DEF ExecutionInv, ExecutionTypeOK, Replies, Received, SizesTo, NoBytes, ChildEnds, Others, serverVars,
     answerVars
<1>4. ASSUME ~ stopSoon' PROVE Together'
  BY <1>4 DEF ExecutionInv, ExecutionTypeOK, Together, AtOff, AtHello, AtIdle, AtPid, AtExchange, AtEnd,
     Became, Watched, LivesOrEnded, NothingRan, Relayed, Deaths, VerdictFits, NoStatus, HasForkServer,
     Exchanging, ExecutionFlagsOK, ChildEnds, Others, serverVars, answerVars
<1>q. QED BY <1>1, <1>2, <1>3, <1>4 DEF ExecutionInv

LEMMA ChildStopsKeeps == ExecutionInv /\ ChildStops => ExecutionInv'
<1> SUFFICES ASSUME ExecutionInv, ChildStops PROVE ExecutionInv' OBVIOUS
<1>1. ExecutionTypeOK'
  BY DEF ExecutionInv, ExecutionTypeOK, HasForkServer, Exchanging, ChildStops, Others, serverVars,
     answerVars
<1>2. ExecutionFlagsOK' BY DEF ExecutionInv, ExecutionFlagsOK, ChildStops, Others, serverVars, answerVars
<1>3. Replies'
  BY DEF ExecutionInv, ExecutionTypeOK, Replies, Received, SizesTo, NoBytes, ChildStops, Others, serverVars,
     answerVars
<1>4. ASSUME ~ stopSoon' PROVE Together'
  BY <1>4 DEF ExecutionInv, ExecutionTypeOK, Together, AtOff, AtHello, AtIdle, AtPid, AtExchange, AtEnd,
     Became, Watched, LivesOrEnded, NothingRan, Relayed, Deaths, VerdictFits, NoStatus, HasForkServer,
     Exchanging, ExecutionFlagsOK, ChildStops, Others, serverVars, answerVars
<1>q. QED BY <1>1, <1>2, <1>3, <1>4 DEF ExecutionInv

LEMMA OrphanReapedKeeps == ExecutionInv /\ OrphanReaped => ExecutionInv'
<1> SUFFICES ASSUME ExecutionInv, OrphanReaped PROVE ExecutionInv' OBVIOUS
<1>1. ExecutionTypeOK'
  BY DEF ExecutionInv, ExecutionTypeOK, HasForkServer, Exchanging, OrphanReaped, Others, serverVars,
     answerVars
<1>2. ExecutionFlagsOK' BY DEF ExecutionInv, ExecutionFlagsOK, OrphanReaped, Others, serverVars, answerVars
<1>3. Replies'
  BY DEF ExecutionInv, ExecutionTypeOK, Replies, Received, SizesTo, NoBytes, OrphanReaped, Others,
     serverVars, answerVars
<1>4. ASSUME ~ stopSoon' PROVE Together'
  BY <1>4 DEF ExecutionInv, ExecutionTypeOK, Together, AtOff, AtHello, AtIdle, AtPid, AtExchange, AtEnd,
     Became, Watched, LivesOrEnded, NothingRan, Relayed, Deaths, VerdictFits, NoStatus, HasForkServer,
     Exchanging, ExecutionFlagsOK, OrphanReaped, Others, serverVars, answerVars
<1>q. QED BY <1>1, <1>2, <1>3, <1>4 DEF ExecutionInv

LEMMA handle_timeoutKeeps == ExecutionInv /\ handle_timeout => ExecutionInv'
<1> SUFFICES ASSUME ExecutionInv, handle_timeout PROVE ExecutionInv' OBVIOUS
<1>1. ExecutionTypeOK'
  BY DEF ExecutionInv, ExecutionTypeOK, HasForkServer, Exchanging, handle_timeout, KilledBy, serverVars,
     answerVars
<1>2. ExecutionFlagsOK' BY DEF ExecutionInv, ExecutionFlagsOK, handle_timeout, KilledBy, serverVars, answerVars
<1>3. Replies'
  BY DEF ExecutionInv, ExecutionTypeOK, Replies, Received, SizesTo, NoBytes, handle_timeout, KilledBy,
     serverVars, answerVars
<1>4. ASSUME ~ stopSoon' PROVE Together'
  <2>1. Together /\ ExecutionFlagsOK /\ timer /\ timer' = FALSE
        /\ UNCHANGED <<at, conf, childPid, stopped, status, verdict, prevTimedOut, st, ctl, runs, stopSoon>>
    BY <1>4 DEF ExecutionInv, handle_timeout
  <2>2. at # "idle" /\ at # "pid" BY <2>1 DEF Together, AtIdle, AtPid
  <2>3. at # "off" /\ at # "judge" BY <2>1 DEF Together, AtOff, AtEnd
  <2>4. CASE at = "hello"
    <3>1. AtHello BY <2>1, <2>4 DEF Together
    <3>2. child' = child /\ fs' \in {fs, "dead"} BY <3>1 DEF handle_timeout, KilledBy, AtHello, NothingRan
    <3>3. AtHello' BY <2>1, <3>1, <3>2 DEF AtHello, NothingRan, HasForkServer
    <3>q. QED BY <2>1, <2>4, <3>3 DEF Together, Exchanging
  <2>5. CASE at \in Exchanging \cup {"disarm"}
    <3>1. childPid # -1 BY <2>1, <2>5 DEF Together, AtExchange, AtEnd
    <3>2. fs' = fs BY <3>1 DEF handle_timeout
    <3>3. /\ timedOut' => \/ timedOut /\ UNCHANGED <<child, death, killer>>
                         \/ KilledBy("timer")
          /\ timedOut => timedOut'
          /\ ~ timedOut' => UNCHANGED <<child, death, killer>>
      BY <2>1, <3>1 DEF handle_timeout, ExecutionFlagsOK
    <3>4. \/ UNCHANGED <<child, death, killer>>
          \/ /\ child \in {"running", "stopped"} /\ timedOut'
             /\ child' = "zombie" /\ death' = "kill" /\ killer' = "timer"
      BY <3>3, <2>1 DEF KilledBy, ExecutionFlagsOK
    <3>5. ASSUME LivesOrEnded, child # "none" PROVE LivesOrEnded' /\ child' # "none"
      BY <3>3, <3>4, <3>5 DEF LivesOrEnded, Deaths
    <3>6. ASSUME NEW s, Became(s) PROVE Became(s)'
      <4>1. (s = death /\ child = "none") \/ (s = "stopped" /\ stopped) BY <3>6 DEF Became
      <4>2. CASE child = "none"
        <5>1. UNCHANGED <<child, death, killer, stopped>> BY <4>2, <3>4, <2>1
        <5>q. QED BY <5>1, <4>2, <3>3, <3>6 DEF Became
      <4>3. CASE child # "none"
        <5>1. s = "stopped" /\ stopped' /\ child \in {"stopped", "zombie"} BY <4>3, <3>6, <2>1 DEF Became
        <5>q. QED BY <5>1, <4>3, <3>3, <3>4, <3>6 DEF Became
      <4>q. QED BY <4>2, <4>3
    <3>7. CASE at \in Exchanging
      <4>1. AtExchange BY <2>1, <3>7 DEF Together
      <4>2. Watched => Watched' BY <3>2, <3>5, <2>1 DEF Watched
      <4>3. Relayed(<<>>) => Relayed(<<>>)' BY <3>2, <3>6, <2>1 DEF Relayed
      <4>4. AtExchange' BY <2>1, <3>2, <3>5, <4>1, <4>2, <4>3 DEF AtExchange, HasForkServer
      <4>q. QED BY <2>1, <3>7, <4>4 DEF Together, Exchanging
    <3>8. CASE at = "disarm"
      <4>1. AtEnd BY <2>1, <3>8 DEF Together
      <4>2. Became(status)' BY <2>1, <3>6, <4>1 DEF AtEnd, Became
      <4>3. AtEnd' BY <2>1, <3>2, <3>8, <4>1, <4>2 DEF AtEnd, HasForkServer
      <4>q. QED BY <2>1, <3>8, <4>3 DEF Together, Exchanging
    <3>q. QED BY <2>5, <3>7, <3>8
  <2>6. CASE at = "fatal" BY <2>1, <2>6 DEF Together, Exchanging
  <2>q. QED BY <2>2, <2>3, <2>4, <2>5, <2>6 DEF ExecutionInv, ExecutionTypeOK
<1>q. QED BY <1>1, <1>2, <1>3, <1>4 DEF ExecutionInv

LEMMA handle_stop_sigKeeps == ExecutionInv /\ handle_stop_sig => ExecutionInv'
<1> SUFFICES ASSUME ExecutionInv, handle_stop_sig PROVE ExecutionInv' OBVIOUS
<1>1. ExecutionTypeOK'
  BY DEF ExecutionInv, ExecutionTypeOK, HasForkServer, Exchanging, handle_stop_sig, KilledBy, serverVars,
     answerVars
<1>2. ExecutionFlagsOK' BY DEF ExecutionInv, ExecutionFlagsOK, handle_stop_sig, KilledBy, serverVars, answerVars
<1>3. Replies'
  BY DEF ExecutionInv, ExecutionTypeOK, Replies, Received, SizesTo, NoBytes, handle_stop_sig, KilledBy,
     serverVars, answerVars
<1>4. ASSUME ~ stopSoon' PROVE Together'
  BY <1>4 DEF ExecutionInv, ExecutionTypeOK, Together, AtOff, AtHello, AtIdle, AtPid, AtExchange, AtEnd,
     Became, Watched, LivesOrEnded, NothingRan, Relayed, Deaths, VerdictFits, NoStatus, HasForkServer,
     Exchanging, ExecutionFlagsOK, handle_stop_sig, KilledBy, serverVars, answerVars
<1>q. QED BY <1>1, <1>2, <1>3, <1>4 DEF ExecutionInv
LEMMA ExecutionStart == (\E c \in Configurations : ExecutionInit(c)) => ExecutionInv
<1> SUFFICES ASSUME NEW c \in Configurations, ExecutionInit(c) PROVE ExecutionInv OBVIOUS
<1>1. ExecutionTypeOK BY DEF ExecutionInit, ExecutionTypeOK, Configurations
<1>2. ExecutionFlagsOK BY DEF ExecutionInit, ExecutionFlagsOK
<1>3. Replies BY DEF ExecutionInit, Replies, Received
<1>4. Together
  BY DEF ExecutionInit, Together, AtOff, AtIdle, NothingRan, HasForkServer, Exchanging, Configurations
<1>q. QED BY <1>1, <1>2, <1>3, <1>4 DEF ExecutionInv

LEMMA ExecutionStutters == ExecutionInv /\ UNCHANGED executionVars => ExecutionInv'
<1> SUFFICES ASSUME ExecutionInv, UNCHANGED executionVars PROVE ExecutionInv' OBVIOUS
<1> USE DEF executionVars, serverVars, answerVars
<1>1. ExecutionTypeOK' BY DEF ExecutionInv, ExecutionTypeOK
<1>2. ExecutionFlagsOK' BY DEF ExecutionInv, ExecutionFlagsOK
<1>3. Replies' BY DEF ExecutionInv, Replies, Received, SizesTo
<1>4. ~ stopSoon' => Together'
  BY DEF ExecutionInv, Together, AtOff, AtHello, AtIdle, AtPid, AtExchange, AtEnd, Became, Watched,
     LivesOrEnded,
         NothingRan, Relayed, VerdictFits, HasForkServer
<1>q. QED BY <1>1, <1>2, <1>3, <1>4 DEF ExecutionInv

LEMMA InvAccountsForRuns == ExecutionInv => RunsAccounted
<1> SUFFICES ASSUME ExecutionInv PROVE RunsAccounted OBVIOUS
<1>1. AnnotationsReadable
  <2> SUFFICES ASSUME at \in {"status", "gone", "idle"}, responses # NoBytes
               PROVE responses = [i \in 1..messagesSent |-> "size"]
    BY DEF AnnotationsReadable
  <2>1. SizesTo("size") BY DEF ExecutionInv, Replies, Received
  <2>q. QED BY <2>1 DEF SizesTo
<1>2. VerdictTruthful
  <2> SUFFICES ASSUME at = "idle", runs > 0, ~ stopSoon
               PROVE /\ verdict = "tmout" <=> (status = "kill" /\ killer = "timer" /\ child = "none")
                     /\ verdict = "crash" <=> (death = "crash" /\ child = "none")
    BY DEF VerdictTruthful
  <2>1. Became(status) /\ VerdictFits BY DEF ExecutionInv, Together, AtIdle, ExecutionTypeOK
  <2>2. status = "kill" => timedOut /\ killer = "timer" /\ child = "none" BY <2>1 DEF Became
  <2>3. status = "crash" <=> (death = "crash" /\ child = "none") BY <2>1 DEF Became, NoStatus
  <2>q. QED BY <2>1, <2>2, <2>3 DEF VerdictFits
<1>q. QED BY <1>1, <1>2 DEF RunsAccounted

\* For any number of runs and of messages in each: what run_target reports of a run
\* is what became of its process, and the responses it keeps were all written.
THEOREM RunsAlwaysAccounted == ExecutionSpec => [](ExecutionTypeOK /\ RunsAccounted)
<1>1. ExecutionInv /\ [ExecutionNext]_executionVars => ExecutionInv'
  <2> SUFFICES ASSUME ExecutionInv, [ExecutionNext]_executionVars PROVE ExecutionInv' OBVIOUS
  <2>1. CASE FuzzerStep BY <2>1, InitForkserverKeeps, HelloReadKeeps, PidReadKeeps, ArmTimerKeeps, ConnectKeeps,
        SendMessageKeeps, AllSentKeeps, HandleResponsesKeeps, SeenGoneKeeps, StatusReadKeeps, DisarmKeeps, JudgeKeeps
        DEF FuzzerStep
  <2>2. CASE ForkServerStep BY <2>2, PhoneHomeKeeps, NextChildKeeps, RelayKeeps DEF ForkServerStep
  <2>q. QED
    BY <2>1, <2>2, StartRunKeeps, OrphanReapedKeeps, ChildEndsKeeps, ChildStopsKeeps, handle_timeoutKeeps,
            handle_stop_sigKeeps, ExecutionStutters DEF ExecutionNext
<1>2. ExecutionInv => ExecutionTypeOK BY DEF ExecutionInv
<1>q. QED BY <1>1, <1>2, ExecutionStart, InvAccountsForRuns, PTL DEF ExecutionSpec, ExecutionSafe

----------------------------------------------------------------------------
(* The main loop of afl-fuzz *)

Path == [fuzzed : BOOLEAN, failed : BOOLEAN]

CycleTypeOK ==
    /\ opts \in CycleOptions
    /\ loop \in {"cycle", "fuzz", "sync", "after", "end", "wait", "off"}
    /\ paths \in Seq(Path) /\ Len(paths) >= 1
    /\ cur \in Nat /\ (loop \in {"fuzz", "sync", "after"} => cur \in 1..Len(paths))
    /\ seek \in Nat /\ seek < Len(paths)
    /\ cycle \in 0..2 /\ prevQueued \in Nat /\ cyclesWoFinds \in 0..Enough
    /\ offered \in [1..Len(paths) -> 0..Enough]
    /\ syncCount \in Nat
    /\ stop \in {"no", "user", "done", "crash", "one"} /\ server \in {"alive", "killed"}

CycleFlagsOK == useSplicing \in BOOLEAN /\ crashed \in BOOLEAN

\* Before the first cycle nothing was counted, and only the first one begins in
\* the middle of the queue.
FirstCycle ==
    /\ cycle = 0 => loop = "cycle" /\ prevQueued = 0 /\ cyclesWoFinds = 0 /\ stop \in {"no", "user"}
    /\ seek # 0 => cycle = 0

\* The entry i has come up in this cycle.
CameUp(i) ==
    \/ loop = "cycle"
    \/ loop = "fuzz" /\ i < cur
    \/ loop \in {"sync", "after"} /\ i <= cur

\* Each entry has come up in each cycle that was counted but perhaps in the last.
CameUpOften ==
    \A i \in 1..Len(paths) :
        /\ offered[i] >= cyclesWoFinds - 1
        /\ CameUp(i) => offered[i] >= cyclesWoFinds

\* Who stops has a reason, and kills the server.
StopsWell ==
    /\ stop = "user" => server = "killed"
    /\ loop \in {"end", "wait", "off"} => stop # "no"

CycleInv == CycleTypeOK /\ CycleFlagsOK /\ FirstCycle /\ CameUpOften /\ StopsWell /\ CampaignEndsWell

LEMMA EnoughIs == Enough \in Nat /\ Enough = DoneCycles + 1 /\ DoneCycles \in Nat
BY QueueCycleAssumption DEF Enough

\* Entries that are added stand behind those there are.
LEMMA GrownPaths ==
    ASSUME NEW q \in Seq(Path), NEW n \in Nat
    PROVE  /\ Grown(q, n) \in Seq(Path) /\ Len(Grown(q, n)) = Len(q) + n
           /\ \A i \in 1..Len(q) : Grown(q, n)[i] = q[i]
           /\ n = 0 => Grown(q, n) = q
<1> DEFINE new == [i \in 1..n |-> NewPath]
<1>1. new \in Seq(Path) /\ Len(new) = n
  BY DEF NewPath, Path
<1> HIDE DEF new
<1>2. q \o new \in Seq(Path) /\ Len(q \o new) = Len(q) + n /\ \A i \in 1..Len(q) : (q \o new)[i] = q[i]
  BY <1>1
<1>3. n = 0 => q \o new = q
  <2>1. ASSUME n = 0 PROVE \A i \in 1..Len(q) : (q \o new)[i] = q[i]
    BY <1>2
  <2> QED BY <1>1, <1>2, <2>1
<1> QED BY <1>2, <1>3 DEF Grown, new

LEMMA CycleInitInv == (\E o \in CycleOptions : CycleInit(o)) => CycleInv
<1> SUFFICES ASSUME NEW o \in CycleOptions, CycleInit(o) PROVE CycleInv
  OBVIOUS
<1> USE EnoughIs, QueueCycleAssumption
<1>1. paths \in Seq(Path) /\ Len(paths) = InitialPaths /\ InitialPaths >= 1
  <2>1. paths \in [1..InitialPaths -> [fuzzed : {FALSE}, failed : BOOLEAN]]
    BY DEF CycleInit
  <2>2. \A i \in 1..InitialPaths : paths[i] \in Path
    <3> TAKE i \in 1..InitialPaths
    <3>1. paths[i] \in [fuzzed : {FALSE}, failed : BOOLEAN]
      BY <2>1
    <3> QED BY <3>1 DEF Path
  <2>3. paths \in [1..InitialPaths -> Path]
    BY <2>1, <2>2
  <2> QED BY <2>3
<1>2. offered \in [1..Len(paths) -> 0..Enough] /\ \A i \in 1..Len(paths) : offered[i] = 0
  BY <1>1 DEF CycleInit
<1>3. CycleTypeOK
  <2>1. seek \in Nat /\ seek < Len(paths) /\ cyclesWoFinds \in 0..Enough
    BY <1>1 DEF CycleInit
  <2> QED BY <1>1, <1>2, <2>1 DEF CycleInit, CycleTypeOK
<1>4. CameUpOften
  BY <1>1, <1>2 DEF CycleInit, CameUpOften
<1>5. CycleFlagsOK
  BY DEF CycleInit, CycleOptions, CycleFlagsOK
<1>6. FirstCycle /\ StopsWell /\ CampaignEndsWell
  BY <1>1 DEF CycleInit, FirstCycle, StopsWell, CampaignEndsWell
<1> QED BY <1>3, <1>4, <1>5, <1>6 DEF CycleInv

\* What the statistics say: they end a campaign only when nothing is left to do.
LEMMA StatsSay ==
    ASSUME NEW quiet \in 0..Enough, NEW q, NEW crash, stop \in {"no", "user", "done", "crash", "one"},
           NEW s \in Stats(quiet, q, crash)
    PROVE  /\ s \in {"no", "user", "done", "crash", "one"}
           /\ s = "no" => stop = "no"
           /\ s = "user" => stop = "user"
           /\ s = "done" => stop = "done" \/ (quiet = Enough /\ \A i \in DOMAIN q : q[i].fuzzed)
BY EnoughIs DEF Stats

\* What is left to show of a step that leaves the queue and offered alone.
LEMMA CycleParts ==
    ASSUME CycleInv
    PROVE  /\ CycleTypeOK /\ CycleFlagsOK /\ FirstCycle /\ CameUpOften /\ StopsWell /\ CampaignEndsWell
           /\ DOMAIN paths = 1..Len(paths) /\ Len(paths) \in Nat
           /\ \A i \in 1..Len(paths) : paths[i] \in Path /\ offered[i] \in 0..Enough
BY DEF CycleInv, CycleTypeOK

LEMMA StartCycleKeeps == ASSUME CycleInv, StartCycle PROVE CycleInv'
<1> USE EnoughIs
<1>0. /\ CycleTypeOK /\ CycleFlagsOK /\ FirstCycle /\ CameUpOften /\ StopsWell /\ CampaignEndsWell
      /\ DOMAIN paths = 1..Len(paths) /\ Len(paths) \in Nat
  BY CycleParts
<1> DEFINE quiet == Len(paths) = prevQueued
           count == IF ~quiet THEN 0 ELSE UpTo(Enough, cyclesWoFinds + (IF useSplicing THEN 1 ELSE 0))
<1>1. PICK n \in 0..(MaxPaths - Len(paths)) :
          /\ n > 0 => opts.sync /\ opts.importFirst /\ cycle = 0
          /\ useSplicing' = (useSplicing \/ quiet)
          /\ paths' = Grown(paths, n)
          /\ cyclesWoFinds' = IF n > 0 THEN 0 ELSE count
          /\ offered' = IF n > 0 THEN [i \in 1..(Len(paths) + n) |-> 0] ELSE offered
  BY DEF StartCycle
<1>2. /\ loop = "cycle" /\ loop' = "fuzz" /\ cycle' = UpTo(2, cycle + 1) /\ cur' = 1 + seek /\ seek' = 0
      /\ prevQueued' = Len(paths)
      /\ opts' = opts /\ syncCount' = syncCount /\ crashed' = crashed /\ server' = server
  BY DEF StartCycle
<1>n. n \in Nat
  BY <1>0, QueueCycleAssumption
<1>p. /\ paths' = Grown(paths, n)
      /\ cyclesWoFinds' = IF n > 0 THEN 0 ELSE count
      /\ offered' = IF n > 0 THEN [i \in 1..(Len(paths) + n) |-> 0] ELSE offered
      /\ n > 0 => cycle = 0
  BY <1>1
<1>c. paths \in Seq(Path) /\ cyclesWoFinds \in 0..Enough /\ offered \in [1..Len(paths) -> 0..Enough]
  BY <1>0 DEF CycleTypeOK
<1>3. /\ paths' \in Seq(Path) /\ Len(paths') = Len(paths) + n
      /\ \A i \in 1..Len(paths) : paths'[i] = paths[i]
      /\ DOMAIN paths' = 1..Len(paths')
      /\ n = 0 => paths' = paths
  <2>1. /\ Grown(paths, n) \in Seq(Path) /\ Len(Grown(paths, n)) = Len(paths) + n
        /\ \A i \in 1..Len(paths) : Grown(paths, n)[i] = paths[i]
        /\ n = 0 => Grown(paths, n) = paths
    BY <1>c, <1>n, GrownPaths
  <2> QED BY <2>1, <1>p
<1>4. count \in 0..Enough /\ count <= cyclesWoFinds + 1
  <2>1. (IF useSplicing THEN 1 ELSE 0) \in {0, 1}
    OBVIOUS
  <2>2. \A k \in {0, 1} : UpTo(Enough, cyclesWoFinds + k) \in 0..Enough /\ UpTo(Enough, cyclesWoFinds + k) <= cyclesWoFinds + 1
    BY <1>c DEF UpTo
  <2>3. CASE quiet
    BY <2>1, <2>2, <2>3
  <2>4. CASE ~ quiet
    BY <2>4, <1>c
  <2> QED BY <2>3, <2>4
<1>z. ~ quiet => count = 0
  OBVIOUS
<1> HIDE DEF count
<1>5. cyclesWoFinds' \in 0..Enough /\ cyclesWoFinds' <= cyclesWoFinds + 1
  BY <1>c, <1>p, <1>4
<1>6. offered' \in [1..Len(paths') -> 0..Enough]
  <2>1. CASE n > 0
    BY <2>1, <1>0, <1>p, <1>3, <1>n
  <2>2. CASE ~(n > 0)
    BY <2>2, <1>c, <1>p, <1>3, <1>n
  <2> QED BY <2>1, <2>2
<1>7. stop' \in {"no", "user", "done", "crash", "one"} /\ (stop' = "user" => stop = "user")
      /\ (stop' = "done" => stop = "done" \/ (cyclesWoFinds = Enough /\ \A i \in 1..Len(paths) : paths[i].fuzzed))
  <2>1. stop' \in Stats(cyclesWoFinds, paths, crashed)
    BY DEF StartCycle
  <2> QED BY <2>1, <1>0, StatsSay DEF CycleTypeOK
<1>8. CycleTypeOK'
  <2>1. cycle' \in 0..2 /\ prevQueued' \in Nat
    BY <1>0, <1>2 DEF CycleTypeOK, UpTo
  <2>2. cur' \in Nat /\ cur' \in 1..Len(paths') /\ seek' \in Nat /\ seek' < Len(paths') /\ Len(paths') >= 1
    BY <1>0, <1>2, <1>3, <1>n DEF CycleTypeOK
  <2> QED BY <2>1, <2>2, <1>0, <1>2, <1>3, <1>5, <1>6, <1>7 DEF CycleTypeOK
<1>9. CycleFlagsOK'
  BY <1>0, <1>1, <1>2 DEF CycleFlagsOK
<1>10. cycle' # 0
  BY <1>0, <1>2 DEF CycleTypeOK, UpTo
<1>11. FirstCycle'
  BY <1>10, <1>2 DEF FirstCycle
<1>12. CameUpOften'
  <2>1. CASE n > 0
    BY <2>1, <1>p, <1>3, <1>n, <1>0 DEF CameUpOften
  <2>2. CASE n = 0
    <3>1. offered' = offered /\ paths' = paths /\ cyclesWoFinds' = count
      BY <2>2, <1>3, <1>p
    <3>2. ASSUME NEW i \in 1..Len(paths) PROVE offered[i] >= count - 1
      BY <1>0, <1>2, <1>4 DEF CameUpOften, CameUp, CycleTypeOK
    <3>3. ASSUME NEW i \in 1..Len(paths), i < cur' PROVE offered[i] >= count
      <4>1. seek # 0
        BY <3>3, <1>2, <1>0 DEF CycleTypeOK
      <4>2. ~ quiet
        BY <4>1, <1>0 DEF FirstCycle, CycleTypeOK
      <4>3. count = 0
        BY <4>2, <1>z
      <4> QED BY <4>3, <1>0, CycleParts
    <3> QED BY <3>1, <3>2, <3>3, <1>2 DEF CameUpOften, CameUp
  <2> QED BY <2>1, <2>2, <1>n
<1>13. StopsWell'
  BY <1>0, <1>2, <1>7 DEF StopsWell
<1>14. CampaignEndsWell'
  <2>1. ASSUME stop' = "done" PROVE \A i \in DOMAIN paths' : paths'[i].fuzzed /\ offered'[i] >= DoneCycles
    <3>1. cycle # 0
      BY <2>1, <1>0, <1>7 DEF FirstCycle
    <3>2. paths' = paths /\ offered' = offered
      BY <3>1, <1>n, <1>3, <1>p
    <3>3. CASE stop = "done"
      BY <3>2, <3>3, <1>0 DEF CampaignEndsWell
    <3>4. CASE cyclesWoFinds = Enough /\ \A i \in 1..Len(paths) : paths[i].fuzzed
      <4>1. \A i \in 1..Len(paths) : offered[i] >= DoneCycles
        BY <3>4, CycleParts DEF CameUpOften
      <4> QED BY <4>1, <3>2, <3>4, <1>0
    <3> QED BY <2>1, <1>7, <3>3, <3>4
  <2> QED BY <2>1, <1>2 DEF CampaignEndsWell
<1> QED BY <1>8, <1>9, <1>11, <1>12, <1>13, <1>14 DEF CycleInv

\* An entry that comes up has come up in every cycle that was counted.
LEMMA EntryOffered ==
    ASSUME CycleTypeOK, CameUpOften, cur \in 1..Len(paths), Offered(cur)
    PROVE  /\ offered' \in [1..Len(paths) -> 0..Enough]
           /\ offered'[cur] >= cyclesWoFinds
           /\ \A i \in 1..Len(paths) : offered'[i] >= offered[i]
<1> USE EnoughIs
<1>1. offered \in [1..Len(paths) -> 0..Enough] /\ cyclesWoFinds \in 0..Enough
  BY DEF CycleTypeOK
<1>2. offered[cur] \in 0..Enough /\ UpTo(Enough, offered[cur] + 1) \in 0..Enough
  BY <1>1 DEF UpTo
<1>3. offered' = [offered EXCEPT ![cur] = UpTo(Enough, offered[cur] + 1)]
  BY DEF Offered
<1>4. UpTo(Enough, offered[cur] + 1) = (IF offered[cur] + 1 > Enough THEN Enough ELSE offered[cur] + 1)
  BY DEF UpTo
<1>5. offered' \in [1..Len(paths) -> 0..Enough] /\ offered'[cur] = UpTo(Enough, offered[cur] + 1)
      /\ \A i \in 1..Len(paths) : i # cur => offered'[i] = offered[i]
  BY <1>1, <1>2, <1>3
<1>6. \A i \in 1..Len(paths) : offered'[i] >= offered[i]
  BY <1>1, <1>2, <1>4, <1>5
<1>7. offered[cur] >= cyclesWoFinds - 1
  BY DEF CameUpOften
<1>8. offered'[cur] >= cyclesWoFinds
  BY <1>1, <1>2, <1>4, <1>5, <1>7
<1> QED BY <1>5, <1>6, <1>8

LEMMA SkipEntryKeeps == ASSUME CycleInv, SkipEntry PROVE CycleInv'
<1> USE EnoughIs
<1>0. /\ CycleTypeOK /\ CycleFlagsOK /\ FirstCycle /\ CameUpOften /\ StopsWell /\ CampaignEndsWell
      /\ DOMAIN paths = 1..Len(paths) /\ Len(paths) \in Nat
  BY CycleParts
<1>1. /\ loop = "fuzz" /\ loop' = "after" /\ offered' = [offered EXCEPT ![cur] = UpTo(Enough, @ + 1)]
      /\ UNCHANGED <<opts, paths, cur, seek, cycle, prevQueued, useSplicing, cyclesWoFinds, syncCount,
                     crashed, stop, server>>
  BY DEF SkipEntry, Offered
<1>2. cur \in 1..Len(paths) /\ cyclesWoFinds \in 0..Enough
  BY <1>0, <1>1 DEF CycleTypeOK
<1>3. /\ offered' \in [1..Len(paths) -> 0..Enough]
      /\ offered'[cur] >= cyclesWoFinds
      /\ \A i \in 1..Len(paths) : offered'[i] >= offered[i]
  BY <1>0, <1>1, <1>2, EntryOffered DEF Offered
<1>4. CycleTypeOK'
  BY <1>0, <1>1, <1>2, <1>3 DEF CycleTypeOK
<1>5. CycleFlagsOK'
  BY <1>0, <1>1 DEF CycleFlagsOK
<1>6. FirstCycle' /\ StopsWell'
  BY <1>0, <1>1 DEF FirstCycle, StopsWell
<1>7. CameUpOften'
  <2>1. ASSUME NEW i \in 1..Len(paths)
        PROVE  offered'[i] >= cyclesWoFinds - 1 /\ (i <= cur => offered'[i] >= cyclesWoFinds)
    BY <1>0, <1>1, <1>2, <1>3, CycleParts DEF CameUpOften, CameUp
  <2> QED BY <2>1, <1>1 DEF CameUpOften, CameUp
<1>8. CampaignEndsWell'
  BY <1>0, <1>1, <1>3, CycleParts DEF CampaignEndsWell
<1> QED BY <1>4, <1>5, <1>6, <1>7, <1>8 DEF CycleInv

LEMMA FuzzEntryKeeps == ASSUME CycleInv, FuzzEntry PROVE CycleInv'
<1> USE EnoughIs
<1>0. /\ CycleTypeOK /\ CycleFlagsOK /\ FirstCycle /\ CameUpOften /\ StopsWell /\ CampaignEndsWell
      /\ DOMAIN paths = 1..Len(paths) /\ Len(paths) \in Nat
  BY CycleParts
<1>1. PICK n \in 0..(MaxPaths - Len(paths)), failed \in {FALSE, paths[cur].failed} :
          /\ stop # "no" => n = 0
          /\ crashed' \in (IF stop = "no" THEN {crashed, TRUE} ELSE {crashed})
          /\ stop' \in Stats(IF n > 0 THEN 0 ELSE cyclesWoFinds, Grown(paths, n), crashed')
          /\ paths' = [Grown(paths, n) EXCEPT ![cur] = [fuzzed |-> @.fuzzed \/ (~failed /\ stop' = "no"),
                                                        failed |-> failed]]
          /\ cyclesWoFinds' = IF n > 0 THEN 0 ELSE cyclesWoFinds
          /\ IF n > 0 THEN offered' = [i \in 1..(Len(paths) + n) |-> 0] ELSE Offered(cur)
  BY DEF FuzzEntry
<1>2. /\ loop = "fuzz" /\ loop' = "sync"
      /\ UNCHANGED <<opts, cur, seek, cycle, prevQueued, useSplicing, syncCount, server>>
  BY DEF FuzzEntry
<1>n. n \in Nat
  BY <1>0, QueueCycleAssumption
<1>c. /\ paths \in Seq(Path) /\ cyclesWoFinds \in 0..Enough /\ offered \in [1..Len(paths) -> 0..Enough]
      /\ cur \in 1..Len(paths)
  BY <1>0, <1>2 DEF CycleTypeOK
<1> DEFINE q == Grown(paths, n)
           entry == [fuzzed |-> q[cur].fuzzed \/ (~failed /\ stop' = "no"), failed |-> failed]
<1>q. /\ q \in Seq(Path) /\ Len(q) = Len(paths) + n /\ \A i \in 1..Len(paths) : q[i] = paths[i]
      /\ n = 0 => q = paths
  BY <1>c, <1>n, GrownPaths
<1>e. entry \in Path /\ (q[cur].fuzzed => entry.fuzzed)
  <2>1. q[cur] \in Path /\ paths[cur] \in Path
    BY <1>c, <1>q
  <2>2. failed \in BOOLEAN
    BY <2>1 DEF Path
  <2> QED BY <2>1, <2>2 DEF Path
<1> HIDE DEF q, entry
<1>p. paths' = [q EXCEPT ![cur] = entry]
  BY <1>1 DEF q, entry
<1>3. /\ paths' \in Seq(Path) /\ Len(paths') = Len(paths) + n /\ DOMAIN paths' = 1..Len(paths')
      /\ paths'[cur] = entry /\ \A i \in 1..Len(paths) : i # cur => paths'[i] = q[i]
  BY <1>c, <1>n, <1>q, <1>e, <1>p
<1>5. cyclesWoFinds' \in 0..Enough /\ cyclesWoFinds' = IF n > 0 THEN 0 ELSE cyclesWoFinds
  BY <1>c, <1>1
<1>6. /\ offered' \in [1..Len(paths') -> 0..Enough]
      /\ n = 0 => /\ offered'[cur] >= cyclesWoFinds
                  /\ \A i \in 1..Len(paths) : offered'[i] >= offered[i]
  <2>1. CASE n > 0
    BY <2>1, <1>0, <1>1, <1>3, <1>n
  <2>2. CASE n = 0
    <3>1. Offered(cur)
      BY <2>2, <1>1
    <3> QED BY <3>1, <2>2, <1>0, <1>c, <1>3, EntryOffered
  <2> QED BY <2>1, <2>2, <1>n
<1>7. /\ stop' \in {"no", "user", "done", "crash", "one"} /\ (stop' = "user" => stop = "user")
      /\ stop' = "no" => stop = "no"
      /\ stop' = "done" => stop = "done"
            \/ (n = 0 /\ cyclesWoFinds = Enough /\ \A i \in DOMAIN q : q[i].fuzzed)
  <2>1. stop' \in Stats(cyclesWoFinds', q, crashed')
    BY <1>1, <1>5 DEF q
  <2>2. stop \in {"no", "user", "done", "crash", "one"}
    BY <1>0 DEF CycleTypeOK
  <2> HIDE DEF q
  <2>3. /\ stop' \in {"no", "user", "done", "crash", "one"} /\ (stop' = "user" => stop = "user")
        /\ stop' = "no" => stop = "no"
        /\ stop' = "done" => stop = "done" \/ (cyclesWoFinds' = Enough /\ \A i \in DOMAIN q : q[i].fuzzed)
    <3> DEFINE all == \A i \in DOMAIN q : q[i].fuzzed
    <3>1. stop' \in {stop, "crash"} \/ (stop' = "done" /\ cyclesWoFinds' > DoneCycles /\ all)
      BY <2>1 DEF Stats
    <3>2. cyclesWoFinds' > DoneCycles => cyclesWoFinds' = Enough
      <4>1. cyclesWoFinds' \in 0..Enough
        BY <1>5
      <4> QED BY <4>1
    <3> HIDE DEF all
    <3>3. /\ stop' \in {"no", "user", "done", "crash", "one"} /\ (stop' = "user" => stop = "user")
          /\ stop' = "no" => stop = "no"
          /\ stop' = "done" => stop = "done" \/ (cyclesWoFinds' = Enough /\ all)
      BY <3>1, <3>2, <2>2
    <3> QED BY <3>3 DEF all
  <2>4. cyclesWoFinds' = Enough => n = 0 /\ cyclesWoFinds = Enough
    BY <1>5, <1>n
  <2> QED BY <2>3, <2>4
<1>8. CycleTypeOK'
  <2>1. Len(paths') >= 1 /\ cur' \in 1..Len(paths') /\ seek' < Len(paths')
    BY <1>0, <1>2, <1>3, <1>n, <1>c DEF CycleTypeOK
  <2> QED BY <2>1, <1>0, <1>2, <1>3, <1>5, <1>6, <1>7 DEF CycleTypeOK
<1>9. CycleFlagsOK'
  <2>1. crashed' \in {crashed, TRUE}
    BY <1>1
  <2> QED BY <1>0, <1>2, <2>1 DEF CycleFlagsOK
<1>10. FirstCycle'
  BY <1>0, <1>2 DEF FirstCycle
<1>11. CameUpOften'
  <2>1. CASE n > 0
    BY <2>1, <1>0, <1>1, <1>2, <1>3, <1>5, <1>n, SMTT(60) DEF CameUpOften
  <2>2. CASE n = 0
    BY <2>2, <1>0, <1>c, <1>2, <1>3, <1>5, <1>6, SMTT(60) DEF CameUpOften, CameUp
  <2> QED BY <2>1, <2>2, <1>n
<1>12. StopsWell'
  BY <1>0, <1>2, <1>7 DEF StopsWell
<1>13. CampaignEndsWell'
  <2>1. ASSUME stop' = "done"
        PROVE  /\ n = 0 /\ \A i \in 1..Len(paths) : paths[i].fuzzed
               /\ \A i \in 1..Len(paths) : offered[i] >= DoneCycles
    <3>1. CASE stop = "done"
      BY <3>1, <1>0, <1>1 DEF CampaignEndsWell
    <3>2. CASE n = 0 /\ cyclesWoFinds = Enough /\ \A i \in DOMAIN q : q[i].fuzzed
      <4>1. q = paths
        BY <3>2, <1>q
      <4> QED BY <4>1, <3>2, <1>0, CycleParts DEF CameUpOften
    <3> QED BY <2>1, <1>7, <3>1, <3>2
  <2>2. ASSUME stop' = "done", NEW i \in DOMAIN paths'
        PROVE  paths'[i].fuzzed /\ offered'[i] >= DoneCycles
    <3>1. n = 0 /\ q = paths /\ i \in 1..Len(paths) /\ Len(paths') = Len(paths)
      BY <2>1, <2>2, <1>0, <1>3, <1>q
    <3>2. paths[i].fuzzed /\ offered[i] >= DoneCycles
      BY <2>1, <2>2, <3>1
    <3>3. paths'[i].fuzzed
      <4>1. CASE i = cur
        BY <4>1, <3>1, <3>2, <1>e, <1>3
      <4>2. CASE i # cur
        BY <4>2, <3>1, <3>2, <1>3
      <4> QED BY <4>1, <4>2
    <3>4. offered'[i] >= DoneCycles
      <4>1. offered'[i] \in 0..Enough /\ offered[i] \in 0..Enough /\ offered'[i] >= offered[i]
        BY <3>1, <1>6, <1>c
      <4> QED BY <4>1, <3>2
    <3> QED BY <3>3, <3>4
  <2> QED BY <2>2, <1>2 DEF CampaignEndsWell
<1> QED BY <1>8, <1>9, <1>10, <1>11, <1>12, <1>13 DEF CycleInv

LEMMA SyncFuzzersKeeps == ASSUME CycleInv, SyncFuzzers PROVE CycleInv'
<1> USE EnoughIs
<1>0. /\ CycleTypeOK /\ CycleFlagsOK /\ FirstCycle /\ CameUpOften /\ StopsWell /\ CampaignEndsWell
      /\ DOMAIN paths = 1..Len(paths) /\ Len(paths) \in Nat
  BY CycleParts
<1>2. /\ loop = "sync" /\ loop' = "after"
      /\ UNCHANGED <<opts, cur, seek, cycle, prevQueued, useSplicing, crashed, stop, server>>
  BY DEF SyncFuzzers
<1>c. /\ paths \in Seq(Path) /\ cyclesWoFinds \in 0..Enough /\ offered \in [1..Len(paths) -> 0..Enough]
      /\ cur \in 1..Len(paths) /\ syncCount \in Nat
  BY <1>0, <1>2 DEF CycleTypeOK
<1>3. \/ UNCHANGED <<paths, cyclesWoFinds, offered>>
      \/ stop = "no" /\ \E n \in Nat \ {0} : paths' = Grown(paths, n) /\ cyclesWoFinds' = 0
                                            /\ offered' = [i \in 1..(Len(paths) + n) |-> 0]
  <2>1. CASE stop = "no" /\ opts.sync
    <3>1. PICK n \in 0..(MaxPaths - Len(paths)) : Finds(n)
      BY <2>1 DEF SyncFuzzers
    <3>2. n \in Nat
      BY <1>0, QueueCycleAssumption
    <3>3. CASE n = 0
      <4>1. Grown(paths, 0) = paths
        BY <1>c, GrownPaths
      <4> QED BY <4>1, <3>1, <3>3 DEF Finds
    <3>4. CASE n > 0
      BY <3>1, <3>2, <3>4, <2>1 DEF Finds
    <3> QED BY <3>2, <3>3, <3>4
  <2>2. CASE ~ (stop = "no" /\ opts.sync)
    BY <2>2 DEF SyncFuzzers
  <2> QED BY <2>1, <2>2
<1>4. syncCount' \in Nat
  BY <1>c, QueueCycleAssumption DEF SyncFuzzers
<1>5. CycleFlagsOK'
  BY <1>0, <1>2 DEF CycleFlagsOK
<1>6. FirstCycle' /\ StopsWell'
  BY <1>0, <1>2 DEF FirstCycle, StopsWell
<1>7. CASE UNCHANGED <<paths, cyclesWoFinds, offered>>
  <2>1. CycleTypeOK'
    BY <1>7, <1>0, <1>2, <1>4 DEF CycleTypeOK
  <2>2. CameUpOften'
    BY <1>7, <1>0, <1>2 DEF CameUpOften, CameUp
  <2>3. CampaignEndsWell'
    BY <1>7, <1>0, <1>2 DEF CampaignEndsWell
  <2> QED BY <2>1, <2>2, <2>3, <1>5, <1>6 DEF CycleInv
<1>8. CASE stop = "no" /\ \E n \in Nat \ {0} : paths' = Grown(paths, n) /\ cyclesWoFinds' = 0
                                            /\ offered' = [i \in 1..(Len(paths) + n) |-> 0]
  <2>1. PICK n \in Nat \ {0} : paths' = Grown(paths, n) /\ cyclesWoFinds' = 0
                              /\ offered' = [i \in 1..(Len(paths) + n) |-> 0]
    BY <1>8
  <2>2. paths' \in Seq(Path) /\ Len(paths') = Len(paths) + n
    BY <2>1, <1>c, GrownPaths
  <2>3. offered' \in [1..Len(paths') -> 0..Enough] /\ \A i \in 1..Len(paths') : offered'[i] = 0
    BY <2>1, <2>2
  <2>4. CycleTypeOK'
    <3>1. Len(paths') >= 1 /\ cur' \in 1..Len(paths') /\ seek' < Len(paths') /\ cyclesWoFinds' \in 0..Enough
      BY <2>1, <2>2, <1>0, <1>2, <1>c DEF CycleTypeOK
    <3> QED BY <3>1, <2>2, <2>3, <1>0, <1>2, <1>4 DEF CycleTypeOK
  <2>5. CameUpOften'
    BY <2>1, <2>3 DEF CameUpOften
  <2>6. CampaignEndsWell'
    BY <1>8, <1>2 DEF CampaignEndsWell
  <2> QED BY <2>4, <2>5, <2>6, <1>5, <1>6 DEF CycleInv
<1> QED BY <1>3, <1>7, <1>8

LEMMA NextEntryKeeps == ASSUME CycleInv, NextEntry PROVE CycleInv'
<1> USE EnoughIs
<1>0. /\ CycleTypeOK /\ CycleFlagsOK /\ FirstCycle /\ CameUpOften /\ StopsWell /\ CampaignEndsWell
      /\ DOMAIN paths = 1..Len(paths) /\ Len(paths) \in Nat
  BY CycleParts
<1>1. /\ loop = "after" /\ stop' \in {stop, "one"} /\ (stop # "no" => stop' = stop)
      /\ \/ stop' # "no" /\ loop' = "end" /\ cur' = cur
         \/ cur = Len(paths) /\ loop' = "cycle" /\ cur' = 0
         \/ cur # Len(paths) /\ loop' = "fuzz" /\ cur' = cur + 1
      /\ UNCHANGED <<opts, paths, seek, cycle, prevQueued, useSplicing, cyclesWoFinds, syncCount,
                     crashed, server, offered>>
  BY DEF NextEntry
<1>2. cur \in 1..Len(paths)
  BY <1>0, <1>1 DEF CycleTypeOK
<1>s. stop' \in {"no", "user", "done", "crash", "one"}
  BY <1>0, <1>1 DEF CycleTypeOK
<1>l. /\ loop' \in {"cycle", "fuzz", "end"} /\ cur' \in Nat
      /\ loop' = "fuzz" => cur' \in 1..Len(paths) /\ cur' = cur + 1
  <2>1. Len(paths) \in Nat
    BY <1>0
  <2>2. CASE cur = Len(paths) /\ loop' = "cycle" /\ cur' = 0
    BY <2>2
  <2>3. CASE cur # Len(paths) /\ loop' = "fuzz" /\ cur' = cur + 1
    BY <2>1, <2>3, <1>2
  <2>4. CASE loop' = "end" /\ cur' = cur
    BY <2>1, <2>4, <1>2
  <2> QED BY <2>2, <2>3, <2>4, <1>1
<1>3. CycleTypeOK'
  BY <1>0, <1>1, <1>s, <1>l DEF CycleTypeOK
<1>4. CycleFlagsOK'
  BY <1>0, <1>1 DEF CycleFlagsOK
<1>5. FirstCycle' /\ StopsWell'
  BY <1>0, <1>1 DEF FirstCycle, StopsWell
<1>6. CameUpOften'
  <2>1. ASSUME NEW i \in 1..Len(paths)
        PROVE  offered[i] >= cyclesWoFinds - 1 /\ (i <= cur => offered[i] >= cyclesWoFinds)
    BY <1>0, <1>1 DEF CameUpOften, CameUp
  <2>2. ASSUME NEW i \in 1..Len(paths), CameUp(i)' PROVE i <= cur
    <3>1. CASE loop' = "cycle"
      BY <3>1, <1>0, <1>1, <1>2
    <3>2. CASE loop' = "fuzz"
      BY <3>2, <2>2, <1>l, <1>2 DEF CameUp
    <3> QED BY <3>1, <3>2, <2>2, <1>l DEF CameUp
  <2> QED BY <2>1, <2>2, <1>1 DEF CameUpOften
<1>7. CampaignEndsWell'
  BY <1>0, <1>1 DEF CampaignEndsWell
<1> QED BY <1>3, <1>4, <1>5, <1>6, <1>7 DEF CycleInv

LEMMA KillServerKeeps == ASSUME CycleInv, KillServer PROVE CycleInv'
<1> USE EnoughIs
<1>0. /\ CycleTypeOK /\ CycleFlagsOK /\ FirstCycle /\ CameUpOften /\ StopsWell /\ CampaignEndsWell
      /\ DOMAIN paths = 1..Len(paths) /\ Len(paths) \in Nat
  BY CycleParts
<1>1. /\ loop = "end" /\ loop' = "wait" /\ stop' \in Stats(cyclesWoFinds, paths, crashed)
      /\ server' = IF stop' \in {"done", "crash", "one"} THEN "killed" ELSE server
      /\ UNCHANGED <<opts, paths, cur, seek, cycle, prevQueued, useSplicing, cyclesWoFinds, syncCount,
                     crashed, offered>>
  BY DEF KillServer
<1>2. stop' \in {"user", "done", "crash", "one"} /\ (stop' = "user" => stop = "user")
      /\ (stop' = "done" => stop = "done" \/ (cyclesWoFinds = Enough /\ \A i \in DOMAIN paths : paths[i].fuzzed))
  <2>1. stop \in {"no", "user", "done", "crash", "one"} /\ stop # "no" /\ cyclesWoFinds \in 0..Enough
    BY <1>0, <1>1 DEF CycleTypeOK, StopsWell
  <2> QED BY <2>1, <1>1, StatsSay
<1>3. server' = "killed"
  BY <1>0, <1>1, <1>2 DEF StopsWell
<1>4. CycleTypeOK'
  BY <1>0, <1>1, <1>2, <1>3 DEF CycleTypeOK
<1>5. CycleFlagsOK'
  BY <1>0, <1>1 DEF CycleFlagsOK
<1>6. FirstCycle' /\ StopsWell'
  BY <1>0, <1>1, <1>2, <1>3 DEF FirstCycle, StopsWell
<1>7. CameUpOften'
  BY <1>0, <1>1 DEF CameUpOften, CameUp
<1>8. CampaignEndsWell'
  <2>1. ASSUME stop' = "done" PROVE \A i \in DOMAIN paths : paths[i].fuzzed /\ offered[i] >= DoneCycles
    <3>1. CASE stop = "done"
      BY <3>1, <1>0 DEF CampaignEndsWell
    <3>2. CASE cyclesWoFinds = Enough /\ \A i \in DOMAIN paths : paths[i].fuzzed
      BY <3>2, <1>0, CycleParts DEF CameUpOften
    <3> QED BY <2>1, <1>2, <3>1, <3>2
  <2> QED BY <2>1, <1>1, <1>3 DEF CampaignEndsWell
<1> QED BY <1>4, <1>5, <1>6, <1>7, <1>8 DEF CycleInv

LEMMA CycleStepInv == CycleInv /\ [CycleNext]_cycleVars => CycleInv'
<1> SUFFICES ASSUME CycleInv, [CycleNext]_cycleVars PROVE CycleInv'
  OBVIOUS
<1>1. CASE StartCycle
  BY <1>1, StartCycleKeeps
<1>2. CASE SkipEntry
  BY <1>2, SkipEntryKeeps
<1>3. CASE FuzzEntry
  BY <1>3, FuzzEntryKeeps
<1>4. CASE SyncFuzzers
  BY <1>4, SyncFuzzersKeeps
<1>5. CASE NextEntry
  BY <1>5, NextEntryKeeps
<1>6. CASE KillServer
  BY <1>6, KillServerKeeps
<1>7. CASE ServerReaped
  BY <1>7 DEF ServerReaped, CycleInv, CycleTypeOK, CycleFlagsOK, FirstCycle, CameUpOften, CameUp, StopsWell,
     CampaignEndsWell
<1>8. CASE UserStops
  <2>1. /\ loop' = loop /\ stop' = "user" /\ server' = "killed"
        /\ UNCHANGED <<opts, paths, cur, seek, cycle, prevQueued, useSplicing, cyclesWoFinds,
                       syncCount, crashed, offered>>
    BY <1>8 DEF UserStops
  <2>2. CycleTypeOK' /\ CameUpOften'
    BY <2>1 DEF CycleInv, CycleTypeOK, CameUpOften, CameUp
  <2>3. CycleFlagsOK'
    BY <2>1 DEF CycleInv, CycleFlagsOK
  <2> QED BY <2>1, <2>2, <2>3 DEF CycleInv, FirstCycle, StopsWell, CampaignEndsWell
<1>9. CASE UNCHANGED cycleVars
  BY <1>9 DEF cycleVars, CycleInv, CycleTypeOK, CycleFlagsOK, FirstCycle, CameUpOften, CameUp, StopsWell,
     CampaignEndsWell
<1> QED BY <1>1, <1>2, <1>3, <1>4, <1>5, <1>6, <1>7, <1>8, <1>9 DEF CycleNext

\* For any length of the queue, any settings and any limits: afl-fuzz ends by itself
\* only after each entry was fuzzed and came up DoneCycles times without a find, and
\* never with its fork server alive.
THEOREM CampaignAlwaysEndsWell == CycleSpec => [](CycleTypeOK /\ CampaignEndsWell)
<1>1. CycleInv => CycleTypeOK /\ CampaignEndsWell
  BY DEF CycleInv
<1> QED BY <1>1, CycleInitInv, CycleStepInv, PTL DEF CycleSpec

----------------------------------------------------------------------------
(* Least numbers *)

\* A set of naturals that is not empty has a least element.
LEMMA LeastExists ==
    ASSUME NEW T, T \subseteq Nat, T # {}
    PROVE  \E m \in T : \A k \in T : m <= k
<1> DEFINE Less == {ss \in Nat \X Nat : ss[1] < ss[2]}
<1>1. IsWellFoundedOn(Less, Nat)
  BY NatLessThanWellFounded DEF OpToRel
<1> HIDE DEF Less
<1>2. PICK m \in T : \A k \in T : ~ (<<k, m>> \in Less)
  BY <1>1, WFMin
<1>3. \A k \in T : ~ (k < m)
  BY <1>2 DEF Less
<1> QED BY <1>3

----------------------------------------------------------------------------
(* Cores *)

SetupTypeOK ==
    /\ boundTo \in [Instances -> Cores \cup {NoCore, Refuses}]
    /\ cpu_used \in [Instances -> SUBSET Cores]
    /\ scanned \in [Instances -> SUBSET Instances]
    /\ metBy \in [Instances -> SUBSET Instances]

\* An instance that is still free has seen the core of every other one whose
\* status it has read, but of those that bound themselves since then.
ScanKnows ==
    \A p, q \in Instances :
        boundTo[p] = NoCore /\ q \in scanned[p] /\ boundTo[q] \in Cores
            => boundTo[q] \in cpu_used[p] \/ q \in metBy[p]

SetupInv == SetupTypeOK /\ ScanKnows /\ CoresNotShared

LEMMA CoreNumbers == NoCore \notin Cores /\ Refuses \notin Cores /\ NoCore # Refuses
BY SetupAssumption DEF NoCore, Refuses

LEMMA SetupInitInv == SetupInit => SetupInv
BY CoreNumbers DEF SetupInit, SetupInv, SetupTypeOK, ScanKnows, CoresNotShared

LEMMA ReadStatusKeeps ==
    ASSUME SetupInv, NEW p \in Instances, NEW q \in Instances, ReadStatus(p, q)
    PROVE  SetupInv'
<1>1. /\ scanned' = [scanned EXCEPT ![p] = @ \cup {q}]
      /\ cpu_used' = [cpu_used EXCEPT ![p] = @ \cup CoreSeen(p, q)]
      /\ boundTo' = boundTo /\ metBy' = metBy
  BY DEF ReadStatus
<1>2. SetupTypeOK'
  BY <1>1 DEF SetupInv, SetupTypeOK, CoreSeen
<1>3. ScanKnows'
  <2>1. ASSUME NEW r \in Instances, NEW s \in Instances,
               boundTo[r] = NoCore, s \in scanned'[r], boundTo[s] \in Cores
        PROVE  boundTo[s] \in cpu_used'[r] \/ s \in metBy[r]
    <3>1. cpu_used[r] \subseteq cpu_used'[r]
      BY <1>1 DEF SetupInv, SetupTypeOK
    <3>2. CASE s \in scanned[r]
      BY <3>1, <3>2, <2>1 DEF SetupInv, ScanKnows
    <3>3. CASE s \notin scanned[r]
      <4>1. r = p /\ s = q
        BY <3>3, <2>1, <1>1 DEF SetupInv, SetupTypeOK
      <4>2. CoreSeen(p, q) \subseteq cpu_used'[p]
        BY <1>1 DEF SetupInv, SetupTypeOK
      <4> QED BY <4>1, <4>2, <2>1 DEF CoreSeen
    <3> QED BY <3>2, <3>3
  <2> QED BY <2>1, <1>1 DEF ScanKnows
<1>4. CoresNotShared'
  BY <1>1 DEF SetupInv, CoresNotShared
<1> QED BY <1>2, <1>3, <1>4 DEF SetupInv

LEMMA BindingKeeps ==
    ASSUME SetupInv, NEW p \in Instances, bind_to_free_cpu(p)
    PROVE  SetupInv'
<1> DEFINE free == Cores \ cpu_used[p]
           core == IF free = {} THEN Refuses ELSE CHOOSE c \in free : \A d \in free : c <= d
<1>1. /\ boundTo[p] = NoCore /\ scanned[p] = Instances \ {p}
      /\ boundTo' = [boundTo EXCEPT ![p] = core]
      /\ metBy' = [q \in Instances |->
             IF boundTo[q] = NoCore /\ p \in scanned[q] THEN metBy[q] \cup {p} ELSE metBy[q]]
      /\ cpu_used' = cpu_used /\ scanned' = scanned
  BY DEF bind_to_free_cpu
<1>2. core = Refuses \/ core \in free
  <2>1. ASSUME free # {} PROVE \E c \in free : \A d \in free : c <= d
    BY <2>1, SetupAssumption, LeastExists
  <2> QED BY <2>1
<1> HIDE DEF core
<1>3. core \in Cores => core \notin cpu_used[p]
  BY <1>2, CoreNumbers
<1>4. core # NoCore
  BY <1>2, CoreNumbers
<1>5. /\ boundTo'[p] = core /\ \A q \in Instances \ {p} : boundTo'[q] = boundTo[q]
      /\ \A q \in Instances : metBy[q] \subseteq metBy'[q]
      /\ \A q \in Instances : boundTo[q] = NoCore /\ p \in scanned[q] => p \in metBy'[q]
  BY <1>1 DEF SetupInv, SetupTypeOK
<1>6. SetupTypeOK'
  BY <1>1, <1>2 DEF SetupInv, SetupTypeOK
<1>7. ScanKnows'
  <2>1. ASSUME NEW r \in Instances, NEW s \in Instances,
               boundTo'[r] = NoCore, s \in scanned[r], boundTo'[s] \in Cores
        PROVE  boundTo'[s] \in cpu_used[r] \/ s \in metBy'[r]
    <3>1. r # p /\ boundTo[r] = NoCore
      BY <2>1, <1>4, <1>5
    <3>2. CASE s = p
      BY <3>1, <3>2, <2>1, <1>5
    <3>3. CASE s # p
      BY <3>1, <3>3, <2>1, <1>5 DEF SetupInv, ScanKnows
    <3> QED BY <3>2, <3>3
  <2> QED BY <2>1, <1>1 DEF ScanKnows
<1>8. CoresNotShared'
  <2>1. ASSUME NEW r \in Instances \ {p}, boundTo[r] \in Cores, boundTo[r] = core
        PROVE  r \in metBy'[p]
    <3>1. r \in scanned[p]
      BY <1>1
    <3>2. boundTo[r] \in cpu_used[p] \/ r \in metBy[p]
      BY <3>1, <2>1, <1>1 DEF SetupInv, ScanKnows
    <3> QED BY <3>2, <2>1, <1>3, <1>5
  <2>2. ASSUME NEW r \in Instances, NEW s \in Instances, r # s, boundTo'[r] \in Cores, boundTo'[r] = boundTo'[s]
        PROVE  r \in metBy'[s] \/ s \in metBy'[r]
    <3>1. CASE r = p
      BY <3>1, <2>1, <2>2, <1>5
    <3>2. CASE s = p
      BY <3>2, <2>1, <2>2, <1>5
    <3>3. CASE r # p /\ s # p
      BY <3>3, <2>2, <1>5 DEF SetupInv, CoresNotShared
    <3> QED BY <3>1, <3>2, <3>3
  <2> QED BY <2>2 DEF CoresNotShared
<1> QED BY <1>6, <1>7, <1>8 DEF SetupInv

LEMMA EndKeeps ==
    ASSUME SetupInv, NEW p \in Instances, Ends(p)
    PROVE  SetupInv'
<1>1. /\ boundTo' = [boundTo EXCEPT ![p] = NoCore]
      /\ cpu_used' = [cpu_used EXCEPT ![p] = {}]
      /\ scanned' = [scanned EXCEPT ![p] = {}]
      /\ metBy' = [q \in Instances |-> IF q = p THEN {} ELSE metBy[q] \ {p}]
  BY DEF Ends
<1>2. SetupTypeOK'
  BY <1>1 DEF SetupInv, SetupTypeOK
<1>3. boundTo'[p] \notin Cores /\ scanned'[p] = {}
  BY <1>1, CoreNumbers DEF SetupInv, SetupTypeOK
<1>4. ASSUME NEW q \in Instances \ {p}
      PROVE  /\ boundTo'[q] = boundTo[q] /\ cpu_used'[q] = cpu_used[q] /\ scanned'[q] = scanned[q]
             /\ metBy'[q] = metBy[q] \ {p}
  BY <1>1 DEF SetupInv, SetupTypeOK
<1>5. ScanKnows'
  <2>1. ASSUME NEW r \in Instances, NEW s \in Instances,
               boundTo'[r] = NoCore, s \in scanned'[r], boundTo'[s] \in Cores
        PROVE  boundTo'[s] \in cpu_used'[r] \/ s \in metBy'[r]
    <3>1. r # p /\ s # p
      BY <2>1, <1>3
    <3> QED BY <3>1, <2>1, <1>4 DEF SetupInv, ScanKnows
  <2> QED BY <2>1 DEF ScanKnows
<1>6. CoresNotShared'
  <2>1. ASSUME NEW r \in Instances, NEW s \in Instances, r # s, boundTo'[r] \in Cores, boundTo'[r] = boundTo'[s]
        PROVE  r \in metBy'[s] \/ s \in metBy'[r]
    <3>1. r # p /\ s # p
      BY <2>1, <1>3
    <3> QED BY <3>1, <2>1, <1>4 DEF SetupInv, CoresNotShared
  <2> QED BY <2>1 DEF CoresNotShared
<1> QED BY <1>2, <1>5, <1>6 DEF SetupInv

\* For any number of fuzzers and cores: two share a core only when one of them bound
\* itself after the other had read its status.
THEOREM CoresAlwaysDistinct == SetupSpec => [](SetupTypeOK /\ CoresNotShared)
<1>1. SetupInv /\ [SetupNext]_setupVars => SetupInv'
  <2>1. SetupInv /\ UNCHANGED setupVars => SetupInv'
    BY DEF SetupInv, SetupTypeOK, ScanKnows, CoresNotShared, setupVars
  <2> QED BY <2>1, ReadStatusKeeps, BindingKeeps, EndKeeps DEF SetupNext
<1>2. SetupInv => SetupTypeOK /\ CoresNotShared
  BY DEF SetupInv
<1> QED BY <1>1, <1>2, SetupInitInv, PTL DEF SetupSpec

----------------------------------------------------------------------------
(* The report of leaks *)

Buckets == {Bucket(p) : p \in Pointers}
HeapTypeOK ==
    /\ heap \in [Pointers -> [head : {"none", "C1", "F"}, size : Nat]]
    /\ heapState \in {"running", "bad alloc request", "use after free"}

\* trk lists the blocks in use, each one in its bucket and there once.
Files(trk, used) ==
    /\ used \subseteq Pointers
    /\ trk \in [Buckets -> Seq(Pointers \cup {Null})]
    /\ \A b \in Buckets : \A i \in DOMAIN trk[b] : trk[b][i] # Null => trk[b][i] \in used /\ Bucket(trk[b][i]) = b
    /\ \A p \in used : \E i \in DOMAIN trk[Bucket(p)] : trk[Bucket(p)][i] = p
    /\ \A b \in Buckets : \A i, j \in DOMAIN trk[b] : trk[b][i] # Null /\ trk[b][i] = trk[b][j] => i = j

HeapInv == HeapTypeOK /\ Files(TRK, Used)

LEMMA FirstIsIn == ASSUME NEW S, S \subseteq Nat, S # {} PROVE First(S) \in S
BY LeastExists DEF First

\* What the two functions leave alone: all buckets but one.
LEMMA OneBucketChanged ==
    ASSUME NEW trk, NEW used, Files(trk, used), NEW c \in Buckets,
           NEW slots \in Seq(Pointers \cup {Null}), NEW other,
           other \subseteq Pointers,
           \A p \in Pointers : Bucket(p) # c => (p \in other <=> p \in used),
           \A i \in DOMAIN slots : slots[i] # Null => slots[i] \in other /\ Bucket(slots[i]) = c,
           \A p \in other : Bucket(p) = c => \E i \in DOMAIN slots : slots[i] = p,
           \A i, j \in DOMAIN slots : slots[i] # Null /\ slots[i] = slots[j] => i = j
    PROVE  Files([trk EXCEPT ![c] = slots], other)
<1> DEFINE new == [trk EXCEPT ![c] = slots]
<1>1. new \in [Buckets -> Seq(Pointers \cup {Null})]
  BY DEF Files
<1>2. new[c] = slots /\ \A b \in Buckets : b # c => new[b] = trk[b]
  BY DEF Files
<1> HIDE DEF new
<1>3. ASSUME NEW b \in Buckets, NEW i \in DOMAIN new[b], new[b][i] # Null
      PROVE  new[b][i] \in other /\ Bucket(new[b][i]) = b
  <2>1. CASE b = c
    BY <1>2, <1>3, <2>1
  <2>2. CASE b # c
    BY <1>2, <1>3, <2>2 DEF Files
  <2> QED BY <2>1, <2>2
<1>4. ASSUME NEW p \in other PROVE \E i \in DOMAIN new[Bucket(p)] : new[Bucket(p)][i] = p
  <2>1. Bucket(p) \in Buckets /\ p \in Pointers
    BY DEF Buckets
  <2>2. CASE Bucket(p) = c
    BY <1>2, <2>2
  <2>3. CASE Bucket(p) # c
    BY <1>2, <2>1, <2>3 DEF Files
  <2> QED BY <2>2, <2>3
<1>5. ASSUME NEW b \in Buckets, NEW i \in DOMAIN new[b], NEW j \in DOMAIN new[b], new[b][i] # Null, new[b][i] = new[b][j]
      PROVE  i = j
  <2>1. CASE b = c
    BY <1>2, <1>5, <2>1
  <2>2. CASE b # c
    BY <1>2, <1>5, <2>2 DEF Files
  <2> QED BY <2>1, <2>2
<1>6. Files(new, other)
  BY <1>1, <1>3, <1>4, <1>5 DEF Files
<1> QED BY <1>6 DEF new

LEMMA AllocFiles ==
    ASSUME NEW trk, NEW used, Files(trk, used), NEW p \in Pointers \ used
    PROVE  Files(TRK_alloc_buf(trk, p), used \cup {p})
<1> DEFINE c == Bucket(p)
           slots == trk[c]
           empty == {i \in DOMAIN slots : slots[i] = Null}
           new == IF empty = {} THEN Append(slots, p) ELSE [slots EXCEPT ![First(empty)] = p]
<1>1. c \in Buckets /\ p # Null
  BY HeapAssumption DEF Buckets
<1>2. slots \in Seq(Pointers \cup {Null}) /\ DOMAIN slots = 1..Len(slots) /\ Len(slots) \in Nat
  BY <1>1 DEF Files
<1>3. \A i \in DOMAIN slots : slots[i] # p
  BY <1>1 DEF Files
<1>a. /\ \A i \in DOMAIN slots : slots[i] # Null => slots[i] \in used /\ Bucket(slots[i]) = c
      /\ \A q \in used : Bucket(q) = c => \E i \in DOMAIN slots : slots[i] = q
      /\ \A i, j \in DOMAIN slots : slots[i] # Null /\ slots[i] = slots[j] => i = j
  BY <1>1 DEF Files
<1>4. /\ new \in Seq(Pointers \cup {Null})
      /\ \E k \in DOMAIN new : /\ new[k] = p /\ (k \in DOMAIN slots => slots[k] = Null)
                               /\ \A i \in DOMAIN slots : i # k => i \in DOMAIN new /\ new[i] = slots[i]
                               /\ \A i \in DOMAIN new : i # k => i \in DOMAIN slots
  <2>1. CASE empty = {}
    <3>1. new = Append(slots, p)
      BY <2>1
    <3> HIDE DEF new, slots
    <3> QED BY <3>1, <1>2
  <2>2. CASE empty # {}
    <3>1. First(empty) \in empty
      <4>1. empty \subseteq Nat
        BY <1>2
      <4> QED BY <4>1, <2>2, FirstIsIn
    <3>2. PICK k : k = First(empty)
      OBVIOUS
    <3>3. k \in DOMAIN slots /\ slots[k] = Null
      BY <3>1, <3>2
    <3>4. new = [slots EXCEPT ![k] = p]
      BY <2>2, <3>2
    <3> HIDE DEF new, slots
    <3>5. new \in Seq(Pointers \cup {Null}) /\ DOMAIN new = DOMAIN slots
      BY <3>3, <3>4, <1>2
    <3> QED BY <3>3, <3>4, <3>5
  <2> QED BY <2>1, <2>2
<1>5. TRK_alloc_buf(trk, p) = [trk EXCEPT ![c] = new]
  BY <1>1 DEF TRK_alloc_buf
<1> HIDE DEF new, slots
<1>6. PICK k \in DOMAIN new : /\ new[k] = p /\ (k \in DOMAIN slots => slots[k] = Null)
                              /\ \A i \in DOMAIN slots : i # k => i \in DOMAIN new /\ new[i] = slots[i]
                              /\ \A i \in DOMAIN new : i # k => i \in DOMAIN slots
  BY <1>4
<1>7. \A i \in DOMAIN new : new[i] # Null => new[i] \in used \cup {p} /\ Bucket(new[i]) = c
  BY <1>6, <1>a
<1>8. ASSUME NEW q \in used \cup {p}, Bucket(q) = c PROVE \E i \in DOMAIN new : new[i] = q
  <2>1. CASE q = p
    BY <2>1, <1>6
  <2>2. CASE q # p
    <3>1. q \in used /\ q # Null
      BY <2>2, HeapAssumption DEF Files
    <3>2. PICK i \in DOMAIN slots : slots[i] = q
      BY <3>1, <1>8, <1>a
    <3> QED BY <3>1, <3>2, <1>6
  <2> QED BY <2>1, <2>2
<1>9. ASSUME NEW i \in DOMAIN new, NEW j \in DOMAIN new, new[i] # Null, new[i] = new[j] PROVE i = j
  BY <1>9, <1>6, <1>a, <1>3
<1>10. used \cup {p} \subseteq Pointers /\ \A q \in Pointers : Bucket(q) # c => (q \in used \cup {p} <=> q \in used)
  BY DEF Files
<1> HIDE DEF c
<1>11. Files([trk EXCEPT ![c] = new], used \cup {p})
  BY <1>1, <1>4, <1>7, <1>8, <1>9, <1>10, OneBucketChanged
<1> QED BY <1>5, <1>11

LEMMA FreeFiles ==
    ASSUME NEW trk, NEW used, Files(trk, used), NEW p \in Pointers \cup {Null}
    PROVE  Files(TRK_free_buf(trk, p), used \ {p})
<1>n. CASE p = Null
  BY <1>n, HeapAssumption DEF TRK_free_buf, Files
<1>p. CASE p # Null
  <2> DEFINE c == Bucket(p)
             slots == trk[c]
             holds == {i \in DOMAIN slots : slots[i] = p}
             new == [slots EXCEPT ![First(holds)] = Null]
  <2>1. c \in Buckets /\ p \in Pointers
    BY <1>p DEF Buckets
  <2>2. slots \in Seq(Pointers \cup {Null}) /\ DOMAIN slots = 1..Len(slots) /\ Len(slots) \in Nat
    BY <2>1 DEF Files
  <2>a. /\ \A i \in DOMAIN slots : slots[i] # Null => slots[i] \in used /\ Bucket(slots[i]) = c
        /\ \A q \in used : Bucket(q) = c => \E i \in DOMAIN slots : slots[i] = q
        /\ \A i, j \in DOMAIN slots : slots[i] # Null /\ slots[i] = slots[j] => i = j
    BY <2>1 DEF Files
  <2>3. CASE holds = {}
    <3>1. TRK_free_buf(trk, p) = trk
      BY <1>p, <2>3 DEF TRK_free_buf
    <3>2. p \notin used
      BY <2>3, <2>a
    <3> QED BY <3>1, <3>2 DEF Files
  <2>4. CASE holds # {}
    <3>1. First(holds) \in holds
      <4>1. holds \subseteq Nat
        BY <2>2
      <4> QED BY <4>1, <2>4, FirstIsIn
    <3>2. PICK k : k = First(holds)
      OBVIOUS
    <3>3. k \in DOMAIN slots /\ slots[k] = p
      BY <3>1, <3>2
    <3>4. new = [slots EXCEPT ![k] = Null] /\ TRK_free_buf(trk, p) = [trk EXCEPT ![c] = new]
      <4>1. TRK_free_buf(trk, p) = [trk EXCEPT ![c][First(holds)] = Null]
        BY <1>p, <2>4 DEF TRK_free_buf
      <4> QED BY <4>1, <3>2
    <3> HIDE DEF new, slots
    <3>5. new \in Seq(Pointers \cup {Null}) /\ DOMAIN new = DOMAIN slots /\ new[k] = Null
          /\ \A i \in DOMAIN slots : i # k => new[i] = slots[i]
      BY <3>3, <3>4, <2>2
    <3>6. \A i \in DOMAIN new : new[i] # Null => new[i] \in used \ {p} /\ Bucket(new[i]) = c
      BY <1>p, <3>3, <3>5, <2>a
    <3>7. \A q \in used \ {p} : Bucket(q) = c => \E i \in DOMAIN new : new[i] = q
      BY <3>3, <3>5, <2>a
    <3>8. \A i, j \in DOMAIN new : new[i] # Null /\ new[i] = new[j] => i = j
      BY <3>5, <2>a
    <3>9. used \ {p} \subseteq Pointers /\ \A q \in Pointers : Bucket(q) # c => (q \in used \ {p} <=> q \in used)
      BY DEF Files
    <3> HIDE DEF c
    <3>10. Files([trk EXCEPT ![c] = new], used \ {p})
      BY <2>1, <3>5, <3>6, <3>7, <3>8, <3>9, OneBucketChanged
    <3> QED BY <3>4, <3>10
  <2> QED BY <2>3, <2>4
<1> QED BY <1>n, <1>p

LEMMA HeapInitInv == HeapInit => HeapInv
<1> SUFFICES ASSUME HeapInit PROVE HeapInv
  OBVIOUS
<1>1. Used = {}
  BY DEF HeapInit, Used, NoBlock
<1>2. HeapTypeOK
  BY DEF HeapInit, HeapTypeOK, NoBlock
<1>3. TRK = [b \in Buckets |-> <<>>]
  BY DEF HeapInit, Buckets
<1>4. Files(TRK, {})
  BY <1>3 DEF Files
<1> QED BY <1>1, <1>2, <1>4 DEF HeapInv

LEMMA BlockAllocated ==
    ASSUME NEW h \in [Pointers -> [head : {"none", "C1", "F"}, size : Nat]],
           NEW p \in Pointers, NEW size \in Nat
    PROVE  /\ Allocated(h, p, size) \in [Pointers -> [head : {"none", "C1", "F"}, size : Nat]]
           /\ {q \in Pointers : Allocated(h, p, size)[q].head = "C1"} = {q \in Pointers : h[q].head = "C1"} \cup {p}
BY DEF Allocated

LEMMA BlockFreed ==
    ASSUME NEW h \in [Pointers -> [head : {"none", "C1", "F"}, size : Nat]], NEW p \in Pointers
    PROVE  /\ Freed(h, p) \in [Pointers -> [head : {"none", "C1", "F"}, size : Nat]]
           /\ {q \in Pointers : Freed(h, p)[q].head = "C1"} = {q \in Pointers : h[q].head = "C1"} \ {p}
BY DEF Freed

LEMMA AllocKeeps ==
    ASSUME HeapInv, NEW size \in Sizes, NEW p \in Pointers \cup {Null}, ck_alloc(size, p)
    PROVE  HeapInv'
<1>1. CASE size = 0
  <2>0. ~ (size > MaxAlloc)
    BY <1>1, HeapAssumption
  <2>1. UNCHANGED heapVars
    BY <1>1, <2>0 DEF ck_alloc, heapVars
  <2> QED BY <2>1 DEF heapVars, HeapInv, HeapTypeOK, Used
<1>2. CASE size # 0 /\ size > MaxAlloc
  BY <1>2 DEF ck_alloc, Stop, HeapInv, HeapTypeOK, Used
<1>3. CASE size # 0 /\ ~(size > MaxAlloc)
  <2>1. p \in Pointers \ Used /\ heap' = Allocated(heap, p, size) /\ TRK' = TRK_alloc_buf(TRK, p) /\ heapState' = heapState
    BY <1>3 DEF ck_alloc
  <2>2. heap' \in [Pointers -> [head : {"none", "C1", "F"}, size : Nat]] /\ Used' = Used \cup {p}
    <3>1. heap \in [Pointers -> [head : {"none", "C1", "F"}, size : Nat]] /\ size \in Nat /\ p \in Pointers
      BY <2>1, HeapAssumption DEF HeapInv, HeapTypeOK
    <3>2. /\ Allocated(heap, p, size) \in [Pointers -> [head : {"none", "C1", "F"}, size : Nat]]
          /\ {q \in Pointers : Allocated(heap, p, size)[q].head = "C1"} = Used \cup {p}
      BY <3>1, BlockAllocated DEF Used
    <3> QED BY <2>1, <3>2 DEF Used
  <2>3. Files(TRK', Used \cup {p})
    BY <2>1, AllocFiles DEF HeapInv
  <2> QED BY <2>1, <2>2, <2>3 DEF HeapInv, HeapTypeOK
<1> QED BY <1>1, <1>2, <1>3

\* Giving back NULL changes nothing.
LEMMA GivenBack ==
    ASSUME HeapInv, NEW orig \in Pointers \cup {Null}
    PROVE  LET h == IF orig = Null THEN heap ELSE Freed(heap, orig)
           IN /\ h \in [Pointers -> [head : {"none", "C1", "F"}, size : Nat]]
              /\ {q \in Pointers : h[q].head = "C1"} = Used \ {orig}
              /\ Files(TRK_free_buf(TRK, orig), Used \ {orig})
<1> DEFINE h == IF orig = Null THEN heap ELSE Freed(heap, orig)
<1>1. heap \in [Pointers -> [head : {"none", "C1", "F"}, size : Nat]] /\ Files(TRK, Used) /\ Used \subseteq Pointers
  BY DEF HeapInv, HeapTypeOK, Files
<1>2. CASE orig = Null
  <2>1. h = heap
    BY <1>2
  <2>2. orig \notin Used
    BY <1>1, <1>2, HeapAssumption
  <2> HIDE DEF h
  <2>3. {q \in Pointers : h[q].head = "C1"} = Used \ {orig}
    BY <2>1, <2>2 DEF Used
  <2> QED BY <1>1, <2>1, <2>3, FreeFiles DEF h
<1>3. CASE orig # Null
  <2>1. h = Freed(heap, orig) /\ orig \in Pointers
    BY <1>3
  <2> HIDE DEF h
  <2>2. h \in [Pointers -> [head : {"none", "C1", "F"}, size : Nat]] /\ {q \in Pointers : h[q].head = "C1"} = Used \ {orig}
    BY <1>1, <2>1, BlockFreed DEF Used
  <2> QED BY <1>1, <2>2, FreeFiles DEF h
<1> QED BY <1>2, <1>3

LEMMA ReallocKeeps ==
    ASSUME HeapInv, NEW orig \in Held, NEW size \in Sizes, NEW p \in Pointers \cup {Null}, ck_realloc(orig, size, p)
    PROVE  HeapInv'
<1> DEFINE h == IF orig = Null THEN heap ELSE Freed(heap, orig)
<1>0. orig \in Pointers \cup {Null} /\ size \in Nat
  BY HeapAssumption DEF Held
<1>1. /\ h \in [Pointers -> [head : {"none", "C1", "F"}, size : Nat]]
      /\ {q \in Pointers : h[q].head = "C1"} = Used \ {orig}
      /\ Files(TRK_free_buf(TRK, orig), Used \ {orig})
  BY <1>0, GivenBack
<1>2. CASE Stop("use after free") \/ Stop("bad alloc request")
  BY <1>2 DEF Stop, HeapInv, HeapTypeOK, Used
<1>3. CASE heap' = h /\ TRK' = TRK_free_buf(TRK, orig) /\ heapState' = heapState
  <2> HIDE DEF h
  <2>1. Used' = Used \ {orig}
    BY <1>1, <1>3 DEF Used
  <2> QED BY <2>1, <1>1, <1>3 DEF HeapInv, HeapTypeOK
<1>4. CASE /\ p \in Pointers \ Used /\ heap' = Allocated(h, p, size)
           /\ TRK' = TRK_alloc_buf(TRK_free_buf(TRK, orig), p) /\ heapState' = heapState
  <2> HIDE DEF h
  <2>1. heap' \in [Pointers -> [head : {"none", "C1", "F"}, size : Nat]] /\ Used' = (Used \ {orig}) \cup {p}
    BY <1>0, <1>1, <1>4, BlockAllocated, SMTT(60) DEF Used
  <2>2. Files(TRK', (Used \ {orig}) \cup {p})
    BY <1>1, <1>4, AllocFiles, SMTT(60)
  <2> QED BY <2>1, <2>2, <1>4 DEF HeapInv, HeapTypeOK
<1> QED
  <2>1. CASE ~ CHECK_PTR(orig)
    BY <2>1, <1>2 DEF ck_realloc
  <2>2. CASE CHECK_PTR(orig) /\ size = 0
    <3>1. heap' = h /\ TRK' = TRK_free_buf(TRK, orig) /\ heapState' = heapState
      <4>0. ~ (size > MaxAlloc)
        BY <2>2, HeapAssumption
      <4> QED BY <2>2, <4>0 DEF ck_realloc
    <3> QED BY <3>1, <1>3
  <2>3. CASE CHECK_PTR(orig) /\ size # 0 /\ size > MaxAlloc
    BY <2>3, <1>2 DEF ck_realloc
  <2>4. CASE CHECK_PTR(orig) /\ size # 0 /\ ~ (size > MaxAlloc)
    BY <2>4, <1>4 DEF ck_realloc
  <2> QED BY <2>1, <2>2, <2>3, <2>4

LEMMA FreeKeeps ==
    ASSUME HeapInv, NEW p \in Held, ck_free(p)
    PROVE  HeapInv'
<1> DEFINE h == IF p = Null THEN heap ELSE Freed(heap, p)
<1>0. p \in Pointers \cup {Null}
  BY DEF Held
<1>1. /\ h \in [Pointers -> [head : {"none", "C1", "F"}, size : Nat]]
      /\ {q \in Pointers : h[q].head = "C1"} = Used \ {p}
      /\ Files(TRK_free_buf(TRK, p), Used \ {p})
  BY <1>0, GivenBack
<1>2. CASE CHECK_PTR(p)
  <2>1. heap' = h /\ TRK' = TRK_free_buf(TRK, p) /\ heapState' = heapState
    BY <1>2 DEF ck_free
  <2> HIDE DEF h
  <2>2. Used' = Used \ {p}
    BY <1>1, <2>1 DEF Used
  <2> QED BY <1>1, <2>1, <2>2 DEF HeapInv, HeapTypeOK
<1>3. CASE ~ CHECK_PTR(p)
  <2>1. heapState' = "use after free" /\ TRK' = TRK_free_buf(TRK, p) /\ heap' = heap
    BY <1>3 DEF ck_free
  <2>2. Used \ {p} = Used /\ Used' = Used
    BY <1>3, <2>1 DEF CHECK_PTR, Used
  <2> QED BY <1>1, <2>1, <2>2 DEF HeapInv, HeapTypeOK
<1> QED BY <1>2, <1>3

LEMMA FiledIsReported == ASSUME Files(TRK, Used) PROVE ReportExact
<1>1. DOMAIN TRK = Buckets
  BY DEF Files
<1>2. \A s \in Slots(TRK) : \E b \in Buckets : \E i \in DOMAIN TRK[b] : s = <<b, i>>
  BY <1>1 DEF Slots
<1>3. \A b \in Buckets : \A i \in DOMAIN TRK[b] : <<b, i>> \in Slots(TRK)
  BY <1>1 DEF Slots
<1>4. ASSUME NEW p, p \in {TRK[s[1]][s[2]] : s \in Slots(TRK)} \ {Null} PROVE p \in Used
  <2>1. PICK s \in Slots(TRK) : p = TRK[s[1]][s[2]]
    BY <1>4
  <2>2. PICK b \in Buckets : \E i \in DOMAIN TRK[b] : s = <<b, i>>
    BY <1>2
  <2>3. PICK i \in DOMAIN TRK[b] : s = <<b, i>>
    BY <2>2
  <2> QED BY <1>4, <2>1, <2>3 DEF Files
<1>5. ASSUME NEW p \in Used PROVE p \in {TRK[s[1]][s[2]] : s \in Slots(TRK)} \ {Null}
  <2>1. p \in Pointers /\ Bucket(p) \in Buckets /\ p # Null
    BY HeapAssumption DEF Used, Buckets
  <2>2. PICK i \in DOMAIN TRK[Bucket(p)] : TRK[Bucket(p)][i] = p
    BY DEF Files
  <2>3. <<Bucket(p), i>> \in Slots(TRK)
    BY <2>1, <1>3
  <2> QED BY <2>1, <2>2, <2>3
<1>6. ASSUME NEW s \in Slots(TRK), NEW t \in Slots(TRK), TRK[s[1]][s[2]] # Null, TRK[s[1]][s[2]] = TRK[t[1]][t[2]]
      PROVE  s = t
  <2>1. PICK b \in Buckets : \E i \in DOMAIN TRK[b] : s = <<b, i>>
    BY <1>2
  <2>2. PICK i \in DOMAIN TRK[b] : s = <<b, i>>
    BY <2>1
  <2>3. PICK c \in Buckets : \E j \in DOMAIN TRK[c] : t = <<c, j>>
    BY <1>2
  <2>4. PICK j \in DOMAIN TRK[c] : t = <<c, j>>
    BY <2>3
  <2>5. TRK[b][i] # Null /\ TRK[b][i] = TRK[c][j]
    BY <1>6, <2>2, <2>4
  <2>6. b = c
    BY <2>5 DEF Files
  <2> QED BY <2>2, <2>4, <2>5, <2>6 DEF Files
<1> QED BY <1>4, <1>5, <1>6 DEF ReportExact

\* For any addresses, buckets and sizes: the report of leaks names each block in use
\* once and nothing else.
THEOREM ReportAlwaysExact == HeapSpec => [](HeapTypeOK /\ ReportExact)
<1>1. HeapInv /\ [HeapNext]_heapVars => HeapInv'
  <2>1. HeapInv /\ UNCHANGED heapVars => HeapInv'
    BY DEF HeapInv, HeapTypeOK, Used, heapVars
  <2> QED BY <2>1, AllocKeeps, ReallocKeeps, FreeKeeps DEF HeapNext
<1>2. HeapInv => HeapTypeOK /\ ReportExact
  BY FiledIsReported DEF HeapInv
<1> QED BY <1>1, <1>2, HeapInitInv, PTL DEF HeapSpec

----------------------------------------------------------------------------
(* Dictionary *)

\* A set of numbers with 0 and every successor has all naturals.
LEMMA SetInduction ==
    ASSUME NEW T, 0 \in T, \A n \in Nat : n \in T => n + 1 \in T
    PROVE  Nat \subseteq T
<1> DEFINE Rest == Nat \ T
           Less == {ss \in Nat \X Nat : ss[1] < ss[2]}
<1>1. IsWellFoundedOn(Less, Nat)
  BY NatLessThanWellFounded DEF OpToRel
<1>2. SUFFICES ASSUME Rest # {} PROVE FALSE
  OBVIOUS
<1> HIDE DEF Less
<1>3. Rest \subseteq Nat
  OBVIOUS
<1>4. PICK m \in Rest : \A k \in Rest : ~ (<<k, m>> \in Less)
  <2> HIDE DEF Rest
  <2> QED BY <1>1, <1>2, <1>3, WFMin
<1>5. m \in Nat /\ m # 0 /\ m - 1 \in Nat
  OBVIOUS
<1>6. m - 1 \in Rest
  <2>1. (m - 1) + 1 = m
    BY <1>5
  <2> QED BY <1>5, <2>1
<1>7. <<m - 1, m>> \in Less
  BY <1>5 DEF Less
<1> QED BY <1>4, <1>6, <1>7

\* f is the value of a loop over 1 .. n, by the number of rounds.
Iterates(f, n, S, base, g) ==
    /\ f \in [0 .. n -> S]
    /\ f = [i \in 0 .. n |-> IF i = 0 THEN base ELSE g[<<f[i - 1], i>>]]

LEMMA IterationExists ==
    ASSUME NEW n \in Nat, NEW S, NEW base \in S, NEW g \in [S \X (1 .. n) -> S]
    PROVE  \E f : Iterates(f, n, S, base, g)
<1> DEFINE T == {k \in Nat : k <= n => \E f : Iterates(f, k, S, base, g)}
<1>1. 0 \in T
  <2> DEFINE f == [i \in 0 .. 0 |-> base]
  <2>1. f \in [0 .. 0 -> S] /\ f = [i \in 0 .. 0 |-> IF i = 0 THEN base ELSE g[<<f[i - 1], i>>]]
    OBVIOUS
  <2> QED BY <2>1 DEF Iterates
<1>2. ASSUME NEW k \in Nat, k \in T PROVE k + 1 \in T
  <2> SUFFICES ASSUME k + 1 <= n PROVE \E f : Iterates(f, k + 1, S, base, g)
    OBVIOUS
  <2>1. PICK f : Iterates(f, k, S, base, g)
    BY <1>2
  <2> DEFINE h == [i \in 0 .. (k + 1) |-> IF i \in 0 .. k THEN f[i] ELSE g[<<f[k], k + 1>>]]
  <2>2. f \in [0 .. k -> S] /\ \A i \in 0 .. k : f[i] = IF i = 0 THEN base ELSE g[<<f[i - 1], i>>]
    BY <2>1 DEF Iterates
  <2>3. g[<<f[k], k + 1>>] \in S
    BY <2>2
  <2>4. h \in [0 .. (k + 1) -> S]
    BY <2>2, <2>3
  <2>5. ASSUME NEW i \in 0 .. (k + 1) PROVE h[i] = IF i = 0 THEN base ELSE g[<<h[i - 1], i>>]
    <3>1. CASE i \in 0 .. k
      <4>1. h[i] = f[i] /\ (i # 0 => h[i - 1] = f[i - 1])
        BY <3>1
      <4> QED BY <2>2, <3>1, <4>1
    <3>2. CASE i = k + 1
      <4>1. h[i] = g[<<f[k], k + 1>>] /\ h[k] = f[k] /\ i # 0 /\ i - 1 = k
        BY <3>2
      <4> QED BY <3>2, <4>1
    <3> QED BY <3>1, <3>2
  <2>6. h = [i \in 0 .. (k + 1) |-> IF i = 0 THEN base ELSE g[<<h[i - 1], i>>]]
    <3>1. h = [i \in 0 .. (k + 1) |-> h[i]]
      OBVIOUS
    <3> HIDE DEF h
    <3> QED BY <2>5, <3>1
  <2> HIDE DEF h
  <2> QED BY <2>4, <2>6 DEF Iterates
<1>3. n \in T
  <2> HIDE DEF T
  <2> QED BY <1>1, <1>2, SetInduction
<1> QED BY <1>3

----------------------------------------------------------------------------
(* The dictionaries *)

Text == Seq(Nat)
Token == [data : Text, hits : Nat]

Shortest1st(e) == e \in Seq(Text) /\ \A i, j \in 1 .. Len(e) : i < j => Len(e[i]) <= Len(e[j])

Apart(a) == \A i, j \in DOMAIN a : i # j => ~ SameToken(a[i].data, a[j].data)
\* With the user's tokens e, of which only those of L may be there.
NotGiven(a, e, L) ==
    \A i \in DOMAIN a, j \in DOMAIN e : SameToken(a[i].data, e[j]) => a[i].data \in L
Distinct(e, L) == {a \in Seq(Token) : Apart(a) /\ NotGiven(a, e, L)}

DictionaryTypeOK ==
    /\ Shortest1st(extras)
    /\ aExtras \in Seq(Token) /\ autoChanged \in BOOLEAN
    /\ autoFiles \in Seq(Text) /\ atStart \subseteq Text

DictionaryInv == DictionaryTypeOK /\ TokensDistinct

\* r has the elements of s, which are those at the positions D, in another order.
ReorderedOver(D, s, r) ==
    \E p \in [D -> D] : (\A i, j \in D : i # j => p[i] # p[j]) /\ r = [i \in D |-> s[p[i]]]
Reordered(s, r) == ReorderedOver(1 .. Len(s), s, r)

LEMMA ReorderedSeq ==
    ASSUME NEW S, NEW s \in Seq(S), NEW r, Reordered(s, r)
    PROVE  r \in Seq(S) /\ Len(r) = Len(s)
  BY DEF Reordered, ReorderedOver

LEMMA ReorderedTwice ==
    ASSUME NEW D, NEW s, NEW r, NEW q, ReorderedOver(D, s, r), ReorderedOver(D, r, q)
    PROVE  ReorderedOver(D, s, q)
<1>1. PICK p \in [D -> D] : (\A i, j \in D : i # j => p[i] # p[j]) /\ r = [i \in D |-> s[p[i]]]
  BY DEF ReorderedOver
<1>2. PICK o \in [D -> D] : (\A i, j \in D : i # j => o[i] # o[j]) /\ q = [i \in D |-> r[o[i]]]
  BY DEF ReorderedOver
<1> DEFINE both == [i \in D |-> p[o[i]]]
<1>3. both \in [D -> D] /\ (\A i, j \in D : i # j => both[i] # both[j])
  BY <1>1, <1>2
<1>4. q = [i \in D |-> s[both[i]]]
  BY <1>1, <1>2
<1> HIDE DEF both
<1> QED BY <1>3, <1>4 DEF ReorderedOver

\* A sequence in two parts.
LEMMA Parts ==
    ASSUME NEW S, NEW s \in Seq(S), NEW k \in 0 .. Len(s)
    PROVE  /\ SubSeq(s, 1, k) \in Seq(S) /\ Len(SubSeq(s, 1, k)) = k
           /\ \A i \in 1 .. k : SubSeq(s, 1, k)[i] = s[i]
           /\ SubSeq(s, k + 1, Len(s)) \in Seq(S) /\ Len(SubSeq(s, k + 1, Len(s))) = Len(s) - k
           /\ \A i \in 1 .. (Len(s) - k) : SubSeq(s, k + 1, Len(s))[i] = s[k + i]
<1>1. Len(s) \in Nat /\ k \in Int /\ Len(s) \in Int /\ k + 1 \in Int /\ \A i \in 1 .. Len(s) : s[i] \in S
  OBVIOUS
<1>2. /\ SubSeq(s, 1, k) \in Seq(S) /\ Len(SubSeq(s, 1, k)) = IF 1 <= k THEN k - 1 + 1 ELSE 0
      /\ \A i \in 1 .. k - 1 + 1 : SubSeq(s, 1, k)[i] = s[1 + i - 1]
  <2>1. \A i \in 1 .. k : s[i] \in S
    BY <1>1
  <2> QED BY <1>1, <2>1, SubSeqProperties
<1>3. /\ SubSeq(s, k + 1, Len(s)) \in Seq(S)
      /\ Len(SubSeq(s, k + 1, Len(s))) = IF k + 1 <= Len(s) THEN Len(s) - (k + 1) + 1 ELSE 0
      /\ \A i \in 1 .. Len(s) - (k + 1) + 1 : SubSeq(s, k + 1, Len(s))[i] = s[(k + 1) + i - 1]
  <2>1. \A i \in (k + 1) .. Len(s) : s[i] \in S
    BY <1>1
  <2> QED BY <1>1, <2>1, SubSeqProperties
<1> DEFINE head == SubSeq(s, 1, k)
           rest == SubSeq(s, k + 1, Len(s))
<1> HIDE DEF head, rest
<1>4. head \in Seq(S) /\ Len(head) = k /\ \A i \in 1 .. k : head[i] = s[i]
  BY <1>1, <1>2 DEF head
<1>5. rest \in Seq(S) /\ Len(rest) = Len(s) - k
  BY <1>1, <1>3 DEF rest
<1>6. ASSUME NEW i \in 1 .. (Len(s) - k) PROVE rest[i] = s[k + i]
  <2>1. i \in 1 .. Len(s) - (k + 1) + 1 /\ (k + 1) + i - 1 = k + i
    BY <1>1
  <2> QED BY <1>3, <2>1 DEF rest
<1> QED BY <1>4, <1>5, <1>6 DEF head, rest

\* A sequence whose first u elements are reordered, the others stay.
LEMMA ReorderedFront ==
    ASSUME NEW S, NEW b \in Seq(S), NEW u \in 0 .. Len(b), NEW top, Reordered(SubSeq(b, 1, u), top)
    PROVE  Reordered(b, top \o SubSeq(b, u + 1, Len(b)))
<1> DEFINE n == Len(b)
           U == 1 .. u
           head == SubSeq(b, 1, u)
           rest == SubSeq(b, u + 1, n)
           r == top \o rest
<1>1. n \in Nat /\ u \in 0 .. n /\ u \in Nat
  OBVIOUS
<1>2. /\ head \in Seq(S) /\ Len(head) = u /\ \A i \in 1 .. u : head[i] = b[i]
      /\ rest \in Seq(S) /\ Len(rest) = n - u /\ \A i \in 1 .. (n - u) : rest[i] = b[u + i]
  BY Parts
<1> HIDE DEF head, rest, n
<1>3. ReorderedOver(U, head, top)
  BY <1>2 DEF Reordered, head
<1>4. top \in Seq(S) /\ Len(top) = u
  BY <1>2, ReorderedSeq DEF head
<1> HIDE DEF U
<1>5. PICK o \in [U -> U] : (\A i, j \in U : i # j => o[i] # o[j]) /\ top = [i \in U |-> head[o[i]]]
  BY <1>3 DEF ReorderedOver
<1>6. \A i \in 1 .. u : o[i] \in 1 .. u /\ top[i] = b[o[i]]
  BY <1>2, <1>5 DEF U
<1> DEFINE p == [i \in 1 .. n |-> IF i <= u THEN o[i] ELSE i]
<1>7. p \in [1 .. n -> 1 .. n] /\ \A i, j \in 1 .. n : i # j => p[i] # p[j]
  BY <1>1, <1>5, <1>6 DEF U
<1>8. r \in Seq(S) /\ Len(r) = n /\ \A i \in 1 .. n : r[i] = IF i <= u THEN top[i] ELSE rest[i - u]
  <2>1. /\ top \o rest \in Seq(S) /\ Len(top \o rest) = Len(top) + Len(rest)
        /\ \A i \in 1 .. Len(top) + Len(rest) : (top \o rest)[i] = IF i <= Len(top) THEN top[i] ELSE rest[i - Len(top)]
    BY <1>2, <1>4, ConcatProperties
  <2>2. Len(top) + Len(rest) = n /\ Len(top) = u
    BY <1>1, <1>2, <1>4
  <2> QED BY <2>1, <2>2
<1> HIDE DEF r
<1>9. ASSUME NEW i \in 1 .. n PROVE r[i] = b[p[i]]
  <2>1. CASE i <= u
    BY <1>1, <1>6, <1>8, <2>1
  <2>2. CASE i > u
    <3>1. i - u \in 1 .. (n - u) /\ u + (i - u) = i /\ p[i] = i
      BY <1>1, <2>2
    <3> QED BY <1>2, <1>8, <2>2, <3>1
  <2> QED BY <1>1, <2>1, <2>2
<1> HIDE DEF p
<1>10. r = [i \in 1 .. n |-> b[p[i]]]
  <2>1. r = [i \in 1 .. n |-> r[i]]
    BY <1>8
  <2> QED BY <1>9, <2>1
<1> QED BY <1>7, <1>10 DEF Reordered, ReorderedOver, n, r, rest

\* sort_a_extras
LEMMA SortedByHits ==
    ASSUME NEW s \in Seq(Token), NEW r \in Sorted(s, ByHits)
    PROVE  Reordered(s, r)
<1>1. DOMAIN s = 1 .. Len(s)
  OBVIOUS
<1>2. ReorderedOver(1 .. Len(s), s, r)
  BY <1>1 DEF Sorted, Orders, ReorderedOver
<1> QED BY <1>2 DEF Reordered

LEMMA SortedByText ==
    ASSUME NEW s \in Seq(Token), NEW r \in Sorted(s, ByTextLength)
    PROVE  Reordered(s, r)
<1>1. DOMAIN s = 1 .. Len(s)
  OBVIOUS
<1>2. ReorderedOver(1 .. Len(s), s, r)
  BY <1>1 DEF Sorted, Orders, ReorderedOver
<1> QED BY <1>2 DEF Reordered

LEMMA SortedAutoReorders ==
    ASSUME NEW a \in Seq(Token), NEW r \in SortedAuto(a)
    PROVE  Reordered(a, r)
<1>1. PICK b \in Sorted(a, ByHits) : \E top \in Sorted(SubSeq(b, 1, InUse(Len(b))), ByTextLength) :
         r = top \o SubSeq(b, InUse(Len(b)) + 1, Len(b))
  BY DEF SortedAuto
<1>2. Reordered(a, b)
  BY SortedByHits
<1>3. b \in Seq(Token) /\ Len(b) = Len(a)
  BY <1>2, ReorderedSeq
<1>4. InUse(Len(b)) \in 0 .. Len(b)
  BY <1>3, DictionaryAssumption DEF InUse
<1>5. PICK top \in Sorted(SubSeq(b, 1, InUse(Len(b))), ByTextLength) :
         r = top \o SubSeq(b, InUse(Len(b)) + 1, Len(b))
  BY <1>1
<1>6. Reordered(SubSeq(b, 1, InUse(Len(b))), top)
  BY <1>3, <1>4, Parts, SortedByText
<1>7. Reordered(b, r)
  BY <1>5, <1>6, <1>3, <1>4, ReorderedFront
<1> QED BY <1>2, <1>3, <1>7, ReorderedTwice DEF Reordered

LEMMA ReorderedDistinct ==
    ASSUME NEW e, NEW L, NEW a \in Distinct(e, L), NEW r, Reordered(a, r)
    PROVE  r \in Distinct(e, L)
<1>1. PICK p \in [1 .. Len(a) -> 1 .. Len(a)] :
        (\A i, j \in 1 .. Len(a) : i # j => p[i] # p[j]) /\ r = [i \in 1 .. Len(a) |-> a[p[i]]]
  BY DEF Reordered, ReorderedOver
<1>2. a \in Seq(Token) /\ Apart(a) /\ NotGiven(a, e, L) /\ DOMAIN a = 1 .. Len(a) /\ DOMAIN r = 1 .. Len(a)
  BY <1>1 DEF Distinct
<1>3. r \in Seq(Token)
  BY <1>2, ReorderedSeq
<1>4. Apart(r)
  BY <1>1, <1>2 DEF Apart
<1>5. NotGiven(r, e, L)
  BY <1>1, <1>2 DEF NotGiven
<1> QED BY <1>3, <1>4, <1>5 DEF Distinct

LEMMA SameBothWays ==
    ASSUME NEW t \in Text, NEW u \in Text, SameToken(t, u)
    PROVE  SameToken(u, t)
  BY DEF SameToken, Text

\* The scan of extras misses none of them, as they are in order.
LEMMA ScanFinds ==
    ASSUME NEW e, Shortest1st(e), NEW t \in Text, NEW i \in DOMAIN e, SameToken(e[i], t)
    PROVE  IsRejected(e, t)
<1>1. /\ Len(e[i]) = Len(t) /\ Len(t) \in Nat /\ DOMAIN e = 1 .. Len(e) /\ Len(e) \in Nat
      /\ \A j \in DOMAIN e : Len(e[j]) \in Nat
  BY DEF SameToken, Shortest1st, Text
<1>2. \A j, k \in DOMAIN e : j <= k => Len(e[j]) <= Len(e[k])
  BY <1>1 DEF Shortest1st
<1>3. ASSUME NEW j \in 1 .. i, Len(e[j]) >= Len(t), NEW k \in j .. i PROVE Len(e[k]) = Len(t)
  <2>1. j \in DOMAIN e /\ k \in DOMAIN e /\ j <= k /\ k <= i
    BY <1>1, <1>3
  <2>2. Len(e[j]) <= Len(e[k]) /\ Len(e[k]) <= Len(e[i])
    BY <1>2, <2>1
  <2>3. Len(e[j]) \in Nat /\ Len(e[k]) \in Nat /\ Len(e[i]) = Len(t) /\ Len(t) \in Nat
    BY <1>1, <2>1
  <2> QED BY <1>3, <2>2, <2>3
<1>4. i \in Scanned(e, t)
  BY <1>3 DEF Scanned
<1> QED BY <1>4 DEF IsRejected

LEMMA TokenAdded ==
    ASSUME NEW e, Shortest1st(e), NEW L, NEW a \in Distinct(e, L), NEW t \in Text, ~ IsRejected(e, t),
           NEW b \in WithToken(a, t)
    PROVE  b \in Distinct(e, L)
<1> DEFINE known == {i \in DOMAIN a : SameToken(a[i].data, t)}
           new == [data |-> t, hits |-> 0]
<1>1. /\ a \in Seq(Token) /\ Apart(a) /\ NotGiven(a, e, L) /\ DOMAIN a = 1 .. Len(a) /\ Len(a) \in Nat
      /\ new \in Token /\ new.data = t /\ \A i \in DOMAIN a : a[i] \in Token /\ a[i].data \in Text
  <2>1. a \in Seq(Token) /\ Apart(a) /\ NotGiven(a, e, L)
    BY DEF Distinct
  <2>2. new \in Token /\ new.data = t
    BY DEF Token
  <2>3. \A i \in DOMAIN a : a[i] \in Token
    BY <2>1
  <2>4. \A x \in Token : x.data \in Text
    BY DEF Token
  <2> QED BY <2>1, <2>2, <2>3, <2>4
<1>2. \A j \in DOMAIN e : ~ SameToken(t, e[j])
  <2>1. \A j \in DOMAIN e : e[j] \in Text
    BY DEF Shortest1st
  <2> QED BY <2>1, ScanFinds, SameBothWays
<1>3. CASE known # {}
  <2> DEFINE k == CHOOSE i \in known : \A j \in known : i <= j
  <2>1. b = [a EXCEPT ![k].hits = @ + 1]
    BY <1>3 DEF WithToken
  <2> HIDE DEF k
  <2>2. /\ b \in Seq(Token) /\ DOMAIN b = DOMAIN a
        /\ \A i \in DOMAIN a : b[i].data = a[i].data
    <3>1. \A x \in Token : [x EXCEPT !.hits = x.hits + 1] \in Token /\ [x EXCEPT !.hits = x.hits + 1].data = x.data
      BY DEF Token
    <3> DEFINE more == [a[k] EXCEPT !.hits = a[k].hits + 1]
    <3>2. b = [a EXCEPT ![k] = more]
      BY <2>1
    <3>3. k \in DOMAIN a => more \in Token /\ more.data = a[k].data
      BY <1>1, <3>1
    <3> HIDE DEF more
    <3>4. DOMAIN b = DOMAIN a /\ \A i \in DOMAIN a : b[i] = IF i = k THEN more ELSE a[i]
      BY <1>1, <3>2
    <3>5. b \in Seq(Token)
      <4>1. CASE k \in 1 .. Len(a)
        BY <1>1, <3>2, <3>3, <4>1, ExceptSeq
      <4>2. CASE k \notin 1 .. Len(a)
        <5>1. b = a
          BY <1>1, <3>2, <4>2
        <5> QED BY <1>1, <5>1
      <4> QED BY <4>1, <4>2
    <3> QED BY <3>3, <3>4, <3>5
  <2> QED BY <1>1, <2>2 DEF Distinct, Apart, NotGiven
<1>4. CASE known = {} /\ Len(a) < MaxAutoExtras
  <2>1. b = Append(a, new)
    BY <1>4 DEF WithToken
  <2>2. b \in Seq(Token) /\ DOMAIN b = 1 .. (Len(a) + 1) /\ b[Len(a) + 1] = new /\ \A i \in 1 .. Len(a) : b[i] = a[i]
    BY <1>1, <2>1
  <2> HIDE DEF new
  <2>3. \A i \in 1 .. Len(a) : ~ SameToken(a[i].data, t) /\ ~ SameToken(t, a[i].data)
    BY <1>1, <1>4, SameBothWays
  <2>4. Apart(b)
    <3>1. ASSUME NEW i \in DOMAIN b, NEW j \in DOMAIN b, i # j PROVE ~ SameToken(b[i].data, b[j].data)
      <4>1. CASE i = Len(a) + 1
        BY <1>1, <2>2, <2>3, <3>1, <4>1
      <4>2. CASE j = Len(a) + 1
        BY <1>1, <2>2, <2>3, <3>1, <4>2
      <4>3. CASE i # Len(a) + 1 /\ j # Len(a) + 1
        BY <1>1, <2>2, <3>1, <4>3 DEF Apart
      <4> QED BY <4>1, <4>2, <4>3
    <3> QED BY <3>1 DEF Apart
  <2>5. NotGiven(b, e, L)
    <3>1. ASSUME NEW i \in DOMAIN b, NEW j \in DOMAIN e PROVE SameToken(b[i].data, e[j]) => b[i].data \in L
      <4>1. CASE i = Len(a) + 1
        BY <1>1, <1>2, <2>2, <4>1
      <4>2. CASE i # Len(a) + 1
        BY <1>1, <2>2, <4>2 DEF NotGiven
      <4> QED BY <4>1, <4>2
    <3> QED BY <3>1 DEF NotGiven
  <2> QED BY <2>2, <2>4, <2>5 DEF Distinct
<1>5. CASE known = {} /\ ~ (Len(a) < MaxAutoExtras)
  <2>1. PICK k \in (MaxAutoExtras \div 2 + 1) .. MaxAutoExtras : b = [a EXCEPT ![k] = new]
    BY <1>5 DEF WithToken
  <2> HIDE DEF new
  <2>2. b \in Seq(Token) /\ DOMAIN b = DOMAIN a /\ \A i \in DOMAIN a : b[i] = IF i = k THEN new ELSE a[i]
    <3>1. k \in 1 .. Len(a)
      BY <1>1, <1>5, <2>1, DictionaryAssumption
    <3>2. b \in Seq(Token)
      BY <1>1, <2>1, <3>1, ExceptSeq
    <3>3. DOMAIN b = DOMAIN a /\ \A i \in DOMAIN a : b[i] = IF i = k THEN new ELSE a[i]
      BY <1>1, <2>1
    <3> QED BY <3>2, <3>3
  <2>3. \A i \in DOMAIN a : ~ SameToken(a[i].data, t) /\ ~ SameToken(t, a[i].data)
    BY <1>1, <1>5, SameBothWays
  <2>4. Apart(b)
    <3>1. ASSUME NEW i \in DOMAIN b, NEW j \in DOMAIN b, i # j PROVE ~ SameToken(b[i].data, b[j].data)
      <4>1. CASE i = k
        BY <1>1, <2>2, <2>3, <3>1, <4>1
      <4>2. CASE j = k
        BY <1>1, <2>2, <2>3, <3>1, <4>2
      <4>3. CASE i # k /\ j # k
        BY <1>1, <2>2, <3>1, <4>3 DEF Apart
      <4> QED BY <4>1, <4>2, <4>3
    <3> QED BY <3>1 DEF Apart
  <2>5. NotGiven(b, e, L)
    BY <1>1, <1>2, <2>2 DEF NotGiven
  <2> QED BY <2>2, <2>4, <2>5 DEF Distinct
<1> QED BY <1>3, <1>4, <1>5

LEMMA AddedDistinct ==
    ASSUME NEW e, Shortest1st(e), NEW L, NEW a \in Distinct(e, L), NEW t \in Text, NEW r \in Added(e, a, t)
    PROVE  r \in Distinct(e, L)
<1>1. CASE IsRejected(e, t)
  BY <1>1 DEF Added
<1>2. CASE ~ IsRejected(e, t)
  <2>1. PICK b \in WithToken(a, t) : r \in SortedAuto(b)
    BY <1>2 DEF Added
  <2>2. b \in Distinct(e, L)
    BY <1>2, TokenAdded
  <2>3. b \in Seq(Token)
    BY <2>2 DEF Distinct
  <2> QED BY <2>1, <2>2, <2>3, SortedAutoReorders, ReorderedDistinct
<1> QED BY <1>1, <1>2

LEMMA LoadedDistinct ==
    ASSUME NEW tokens \in Seq(Text)
    PROVE  Loaded(tokens) \subseteq Distinct(<<>>, {})
<1> DEFINE n == Len(tokens)
           S == SUBSET Distinct(<<>>, {})
           g == [x \in S \X (1 .. n) |-> UNION {Added(<<>>, a, tokens[x[2]]) : a \in x[1]}]
           Loads(f) == f = [i \in 0 .. n |-> IF i = 0 THEN {<<>>}
                                             ELSE UNION {Added(<<>>, a, tokens[i]) : a \in f[i - 1]}]
<1>1. n \in Nat /\ \A i \in 1 .. n : tokens[i] \in Text
  OBVIOUS
<1>2. {<<>>} \in S
  BY DEF Distinct, Apart, NotGiven
<1>3. \A A \in S, i \in 1 .. n : UNION {Added(<<>>, a, tokens[i]) : a \in A} \in S
  <2>1. Shortest1st(<<>>)
    BY EmptySeq DEF Shortest1st
  <2> HIDE DEF n
  <2>2. ASSUME NEW A \in S, NEW i \in 1 .. n, NEW a \in A PROVE Added(<<>>, a, tokens[i]) \subseteq Distinct(<<>>, {})
    BY <1>1, <2>1, AddedDistinct
  <2> QED BY <2>2
<1>4. g \in [S \X (1 .. n) -> S] /\ \A A \in S, i \in 1 .. n : g[<<A, i>>] = UNION {Added(<<>>, a, tokens[i]) : a \in A}
  BY <1>3
<1> HIDE DEF S, g, n
<1>5. PICK f : Iterates(f, n, S, {<<>>}, g)
  BY <1>1, <1>2, <1>4, IterationExists
<1>6. Loads(f)
  <2>1. f \in [0 .. n -> S] /\ f = [i \in 0 .. n |-> IF i = 0 THEN {<<>>} ELSE g[<<f[i - 1], i>>]]
    BY <1>5 DEF Iterates
  <2>2. ASSUME NEW i \in 0 .. n, i # 0
        PROVE  g[<<f[i - 1], i>>] = UNION {Added(<<>>, a, tokens[i]) : a \in f[i - 1]}
    <3>1. i \in 1 .. n /\ f[i - 1] \in S
      BY <1>1, <2>1, <2>2
    <3> QED BY <1>4, <3>1
  <2> QED BY <2>1, <2>2
<1> DEFINE load == CHOOSE h : Loads(h)
<1>7. Loads(load)
  <2> HIDE DEF Loads
  <2> QED BY <1>6
<1>8. Loaded(tokens) = load[n]
  BY DEF Loaded, n
<1> HIDE DEF load
<1> DEFINE T == {k \in Nat : k <= n => load[k] \in S}
<1>9. 0 \in T
  BY <1>1, <1>2, <1>7
<1>10. ASSUME NEW k \in Nat, k \in T PROVE k + 1 \in T
  <2> SUFFICES ASSUME k + 1 <= n PROVE load[k + 1] \in S
    OBVIOUS
  <2>1. k + 1 \in 1 .. n /\ k + 1 \in 0 .. n /\ k + 1 # 0 /\ (k + 1) - 1 = k /\ load[k] \in S
    BY <1>1, <1>10
  <2>2. load[k + 1] = UNION {Added(<<>>, a, tokens[k + 1]) : a \in load[k]}
    BY <1>7, <2>1
  <2> QED BY <1>3, <2>1, <2>2
<1>11. n \in T
  <2> HIDE DEF T
  <2> QED BY <1>1, <1>9, <1>10, SetInduction
<1> QED BY <1>1, <1>8, <1>11 DEF S

----------------------------------------------------------------------------
(* The steps *)

\* load_extras: the tokens of the lines, shortest first.
LEMMA ExtrasRead == ASSUME NEW lines \in Dictionaries PROVE load_extras_file(lines) \in Seq(Text)
<1> DEFINE n == Len(lines)
           S == Seq(Text)
           Passed(i) == lines[i].level > DictLevel \/ lines[i].comment
           g == [x \in S \X (1 .. n) |-> IF Passed(x[2]) THEN x[1] ELSE Append(x[1], lines[x[2]].data)]
           Reads(f) == f = [i \in 0 .. n |-> IF i = 0 THEN <<>>
                                             ELSE IF lines[i].level > DictLevel \/ lines[i].comment THEN f[i - 1]
                                             ELSE Append(f[i - 1], lines[i].data)]
<1>1. n \in Nat /\ \A i \in 1 .. n : lines[i].data \in Text
  <2> DEFINE Line == [comment : BOOLEAN, level : Nat, data : Text]
  <2>1. lines \in Seq(Line)
    BY DictionaryAssumption DEF Text
  <2>2. \A l \in Line : l.data \in Text
    OBVIOUS
  <2> HIDE DEF Line
  <2>3. n \in Nat /\ \A i \in 1 .. n : lines[i] \in Line
    BY <2>1
  <2> QED BY <2>2, <2>3
<1>2. <<>> \in S
  OBVIOUS
<1>3. \A e \in S, i \in 1 .. n : (IF Passed(i) THEN e ELSE Append(e, lines[i].data)) \in S
  BY <1>1
<1>4. /\ g \in [S \X (1 .. n) -> S]
      /\ \A e \in S, i \in 1 .. n : g[<<e, i>>] = IF Passed(i) THEN e ELSE Append(e, lines[i].data)
  <2> HIDE DEF S, Passed, n
  <2> QED BY <1>3
<1> HIDE DEF S, g, n
<1>5. PICK f : Iterates(f, n, S, <<>>, g)
  BY <1>1, <1>2, <1>4, IterationExists
<1>6. Reads(f)
  <2>1. f \in [0 .. n -> S] /\ f = [i \in 0 .. n |-> IF i = 0 THEN <<>> ELSE g[<<f[i - 1], i>>]]
    BY <1>5 DEF Iterates
  <2>2. ASSUME NEW i \in 0 .. n, i # 0
        PROVE  g[<<f[i - 1], i>>] = IF Passed(i) THEN f[i - 1] ELSE Append(f[i - 1], lines[i].data)
    <3>1. i \in 1 .. n /\ f[i - 1] \in S
      BY <1>1, <2>1, <2>2
    <3> HIDE DEF Passed
    <3> QED BY <1>4, <3>1
  <2> QED BY <2>1, <2>2
<1> DEFINE read == CHOOSE h : Reads(h)
<1>7. Reads(read)
  <2> HIDE DEF Reads
  <2> QED BY <1>6
<1>8. load_extras_file(lines) = read[n]
  BY DEF load_extras_file, n
<1> HIDE DEF read
<1> DEFINE T == {k \in Nat : k <= n => read[k] \in S}
<1>9. 0 \in T
  BY <1>1, <1>2, <1>7
<1>10. ASSUME NEW k \in Nat, k \in T PROVE k + 1 \in T
  <2> SUFFICES ASSUME k + 1 <= n PROVE read[k + 1] \in S
    OBVIOUS
  <2>1. k + 1 \in 1 .. n /\ k + 1 \in 0 .. n /\ k + 1 # 0 /\ (k + 1) - 1 = k /\ read[k] \in S
    BY <1>1, <1>10
  <2>2. read[k + 1] = IF Passed(k + 1) THEN read[k] ELSE Append(read[k], lines[k + 1].data)
    BY <1>7, <2>1
  <2> HIDE DEF Passed
  <2> QED BY <1>3, <2>1, <2>2
<1>11. n \in T
  <2> HIDE DEF T
  <2> QED BY <1>1, <1>9, <1>10, SetInduction
<1> QED BY <1>1, <1>8, <1>11 DEF S

LEMMA ExtrasInOrder == ASSUME NEW e \in ReadExtras PROVE Shortest1st(e)
<1>0. PICK lines \in Dictionaries : e \in load_extras(lines)
  BY DEF ReadExtras
<1> DEFINE s == load_extras_file(lines)
           D == 1 .. Len(s)
<1>1. s \in Seq(Text)
  BY ExtrasRead
<1> HIDE DEF s
<1>2. DOMAIN s = D
  BY <1>1
<1>3. e \in Sorted(s, ByLength)
  BY <1>0 DEF load_extras, s
<1>4. PICK p \in [D -> D] :
        /\ \A i, j \in D : i # j => p[i] # p[j]
        /\ \A i, j \in D : i < j => ~ ByLength(s[p[j]], s[p[i]])
        /\ e = [i \in D |-> s[p[i]]]
  BY <1>2, <1>3 DEF Sorted, Orders
<1>5. Reordered(s, e)
  BY <1>4 DEF Reordered, ReorderedOver
<1>6. e \in Seq(Text) /\ 1 .. Len(e) = D
  BY <1>1, <1>5, ReorderedSeq
<1>7. ASSUME NEW i \in D, NEW j \in D, i < j PROVE Len(e[i]) <= Len(e[j])
  <2>1. e[i] = s[p[i]] /\ e[j] = s[p[j]] /\ ~ (Len(s[p[j]]) < Len(s[p[i]]))
    BY <1>4, <1>7 DEF ByLength
  <2>2. e[i] \in Text /\ e[j] \in Text
    BY <1>6
  <2> QED BY <2>1, <2>2 DEF Text
<1> HIDE DEF D
<1> QED BY <1>6, <1>7 DEF Shortest1st

LEMMA DistinctIs == ASSUME DictionaryTypeOK PROVE TokensDistinct <=> aExtras \in Distinct(extras, atStart)
  BY DEF DictionaryTypeOK, TokensDistinct, Distinct, Apart, NotGiven

LEMMA DictionaryInitInv == DictionaryInit => DictionaryInv
<1> SUFFICES ASSUME DictionaryInit PROVE DictionaryInv
  OBVIOUS
<1>1. Shortest1st(extras)
  BY ExtrasInOrder DEF DictionaryInit
<1>2. aExtras = <<>> /\ autoChanged = FALSE /\ autoFiles = <<>> /\ atStart = {}
  BY DEF DictionaryInit
<1>3. DictionaryTypeOK
  <2>1. <<>> \in Seq(Token) /\ <<>> \in Seq(Text)
    BY EmptySeq
  <2>2. FALSE \in BOOLEAN /\ {} \subseteq Text
    OBVIOUS
  <2> QED BY <1>1, <1>2, <2>1, <2>2, Zenon DEF DictionaryTypeOK
<1>4. TokensDistinct
  BY <1>2 DEF TokensDistinct
<1> QED BY <1>3, <1>4 DEF DictionaryInv

\* What a step has to end with.
LEMMA DistinctAgain ==
    ASSUME Shortest1st(extras'), aExtras' \in Distinct(extras', atStart'), autoChanged' \in BOOLEAN,
           autoFiles' \in Seq(Text), atStart' \subseteq Text
    PROVE  DictionaryInv'
<1>1. DictionaryTypeOK'
  BY DEF DictionaryTypeOK, Distinct
<1>2. TokensDistinct'
  BY DEF TokensDistinct, Distinct, Apart, NotGiven
<1> QED BY <1>1, <1>2 DEF DictionaryInv

LEMMA FindTokenKeeps == ASSUME DictionaryInv, FindToken PROVE DictionaryInv'
<1>1. PICK t \in FoundTokens : maybe_add_auto(t)
  BY DEF FindToken
<1>2. t \in Text
  BY DictionaryAssumption DEF Text
<1>3. /\ Shortest1st(extras) /\ aExtras \in Distinct(extras, atStart) /\ autoChanged \in BOOLEAN
      /\ autoFiles \in Seq(Text) /\ atStart \subseteq Text
  BY DistinctIs DEF DictionaryInv, DictionaryTypeOK
<1>4. aExtras' \in Distinct(extras, atStart)
  BY <1>1, <1>2, <1>3, AddedDistinct DEF maybe_add_auto
<1>5. autoChanged' \in BOOLEAN
  BY <1>1 DEF maybe_add_auto
<1>6. UNCHANGED <<extras, autoFiles, atStart>>
  BY DEF FindToken
<1> QED BY <1>3, <1>4, <1>5, <1>6, DistinctAgain

LEMMA SaveKeeps == ASSUME DictionaryInv, save_auto PROVE DictionaryInv'
<1>1. /\ aExtras \in Seq(Token) /\ autoFiles \in Seq(Text) /\ aExtras \in Distinct(extras, atStart)
      /\ Shortest1st(extras) /\ atStart \subseteq Text
  BY DistinctIs DEF DictionaryInv, DictionaryTypeOK
<1> DEFINE t == UsedTokens(aExtras)
           used == SubSeq(aExtras, 1, InUse(Len(aExtras)))
           rest == SubSeq(autoFiles, Len(t) + 1, Len(autoFiles))
<1>2. InUse(Len(aExtras)) \in 0 .. Len(aExtras)
  BY <1>1, DictionaryAssumption DEF InUse
<1>3. used \in Seq(Token)
  BY <1>1, <1>2, Parts
<1>4. t \in Seq(Text)
  <2>1. t = [i \in 1 .. Len(used) |-> used[i].data]
    BY <1>3 DEF UsedTokens, Words
  <2>2. \A i \in 1 .. Len(used) : used[i].data \in Text
    <3> HIDE DEF used
    <3>1. \A i \in 1 .. Len(used) : used[i] \in Token
      BY <1>3
    <3> QED BY <3>1 DEF Token
  <2> HIDE DEF used, t
  <2> QED BY <1>3, <2>1, <2>2
<1>5. rest \in Seq(Text)
  <2> HIDE DEF t
  <2>1. Len(t) + 1 \in Int /\ Len(autoFiles) \in Int /\ \A i \in (Len(t) + 1) .. Len(autoFiles) : autoFiles[i] \in Text
    BY <1>1, <1>4
  <2> QED BY <2>1, SubSeqProperties
<1>6. autoFiles' \in Seq(Text)
  <2>1. autoFiles' = t \o rest
    BY DEF save_auto
  <2> HIDE DEF t, rest
  <2> QED BY <1>4, <1>5, <2>1
<1>7. UNCHANGED <<extras, aExtras, atStart>> /\ autoChanged' \in BOOLEAN
  BY DEF save_auto
<1> QED BY <1>1, <1>6, <1>7, DistinctAgain

LEMMA StartKeeps == ASSUME DictionaryInv, StartAgain PROVE DictionaryInv'
<1>1. autoFiles \in Seq(Text)
  BY DEF DictionaryInv, DictionaryTypeOK
<1>2. InUse(Len(autoFiles)) \in 0 .. Len(autoFiles)
  BY <1>1, DictionaryAssumption DEF InUse
<1>3. SubSeq(autoFiles, 1, InUse(Len(autoFiles))) \in Seq(Text)
  BY <1>1, <1>2, Parts
<1>4. /\ aExtras' \in Loaded(SubSeq(autoFiles, 1, InUse(Len(autoFiles)))) /\ autoChanged' \in BOOLEAN
      /\ atStart' = {aExtras'[i].data : i \in DOMAIN aExtras'}
      /\ extras' \in ReadExtras /\ autoFiles' = <<>>
  BY DEF StartAgain, load_auto
<1>5. aExtras' \in Distinct(<<>>, {})
  BY <1>3, <1>4, LoadedDistinct
<1>6. aExtras' \in Seq(Token) /\ Apart(aExtras')
  BY <1>5 DEF Distinct
<1>7. aExtras' \in Distinct(extras', atStart')
  BY <1>4, <1>6 DEF Distinct, NotGiven
<1>8. atStart' \subseteq Text
  <2>1. \A i \in DOMAIN aExtras' : aExtras'[i] \in Token
    BY <1>6
  <2> QED BY <1>4, <2>1 DEF Token
<1>9. Shortest1st(extras') /\ autoFiles' \in Seq(Text)
  BY <1>4, ExtrasInOrder, EmptySeq
<1> QED BY <1>4, <1>7, <1>8, <1>9, DistinctAgain

\* No token of a_extras is there twice, and none that was found is one of the user's,
\* in letters of either case, for any dictionaries and tokens (maybe_add_auto): the order in which load_extras
\* leaves the user's tokens is what makes the scan of them complete.
THEOREM TokensAlwaysDistinct == DictionarySpec => [](DictionaryTypeOK /\ TokensDistinct)
<1>1. DictionaryInit => DictionaryInv
  BY DictionaryInitInv
<1>2. DictionaryInv /\ [DictionaryNext]_dictionaryVars => DictionaryInv'
  <2>1. DictionaryInv /\ UNCHANGED dictionaryVars => DictionaryInv'
    BY DEF DictionaryInv, DictionaryTypeOK, Shortest1st, TokensDistinct, dictionaryVars
  <2> QED BY <2>1, FindTokenKeeps, SaveKeeps, StartKeeps DEF DictionaryNext
<1>3. DictionaryInv => DictionaryTypeOK /\ TokensDistinct
  BY DEF DictionaryInv
<1> QED BY <1>1, <1>2, <1>3, PTL DEF DictionarySpec

=============================================================================
