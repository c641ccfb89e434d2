---------------------------- MODULE InputProofs ----------------------------
(***************************************************************************)
(* What a target is given and what is traced of it, for every value of the *)
(* constants.                                                              *)
(*                                                                         *)
(* Minimizer: what afl-tmin writes behaves like the original, and without  *)
(* any single byte of it does not.  The proof follows the position of the  *)
(* stages of a pass: the last round of deletions, with blocks of one byte, *)
(* finds of each byte before its position that it is needed, and as long   *)
(* as the pass changes nothing that stays so (PassKnows).                  *)
(*                                                                         *)
(* Messages: however often a seed is mutated, the list that is sent has    *)
(* the messages of the prefix, of the mutated part and of the suffix, and  *)
(* no node is lost or in two lists.  The nodes of a list are a sequence    *)
(* here (Linked); splicing takes some out, and MovedInOrder is all the     *)
(* arithmetic of their new order.                                          *)
(*                                                                         *)
(* Tracing: the map is that of the blocks of the last run.  While the map  *)
(* is found nothing has run, or each object has its previous location from *)
(* the walk (SetUp); a fork counts the block that its server waits before. *)
(*                                                                         *)
(* EmulatorServer: what was asked for is in the cache or in the pipe, and  *)
(* when the server does not collect, nobody can write (EmulatorInv).       *)
(***************************************************************************)
EXTENDS PartsProofs, Minimizer, Messages, Tracing, EmulatorServer, SequenceTheorems, FiniteSetTheorems

----------------------------------------------------------------------------
(* Minimizer *)

Stages == {"normalize", "delete", "alphabet", "characters", "finalize", "done", "aborted"}

StepRecords ==
    [stage : Stages, pos : Nat, len : Nat, prevDel : BOOLEAN, changed : BOOLEAN, pass : Nat,
     syms : SUBSET Symbols]

MinimizerTypeOK ==
    /\ data \in Seq(Symbols) /\ tmp \in Seq(Symbols)
    /\ verdicts \subseteq Seq(Symbols) \X BOOLEAN
    /\ step \in StepRecords
    /\ tminMode \in Modes

\* The target answers as it did.
OneVerdict == \A v, w \in verdicts : v[1] = w[1] => v[2] = w[2]

\* Without one of its first n bytes the file behaves differently.
NeedsFirst(n) == \A i \in DOMAIN data : i <= n => <<Without(data, i - 1, 1), FALSE>> \in verdicts

\* What the stages of a pass have found out when they have not changed the file.
PassKnows ==
    /\ step.stage = "delete" =>
          /\ step.len # 0
          /\ ~ step.prevDel => step.pos >= step.len
          /\ (step.len = 1 /\ ~ step.changed) => NeedsFirst(step.pos)
    /\ (step.stage \in {"alphabet", "characters"} /\ ~ step.changed) => NeedsFirst(Len(data))
    /\ step.stage \in {"finalize", "done"} => NeedsFirst(Len(data))
    /\ step.stage = "normalize" => step.len # 0
    /\ step.stage = "characters" => tmp = data

\* The invariant of the induction.
MinimizerInv ==
    /\ MinimizerTypeOK
    /\ OneVerdict
    /\ <<data, TRUE>> \in verdicts
    /\ outFile # NoFile => <<outFile, TRUE>> \in verdicts
    /\ PassKnows

\* next_p2 doubles from 1 on: its value is a positive number.
LEMMA PowerIs == ASSUME NEW val \in Nat PROVE next_p2(val) \in Nat \ {0}
<1> DEFINE S == Nat \ {0}
           g == [x \in S \X (1 .. val) |-> IF val > x[1] THEN 2 * x[1] ELSE x[1]]
           Loop(f) == f = [i \in 0 .. val |->
               IF i = 0 THEN 1 ELSE IF val > f[i - 1] THEN 2 * f[i - 1] ELSE f[i - 1]]
           ret == CHOOSE f : Loop(f)
<1>1. g \in [S \X (1 .. val) -> S] /\ 1 \in S
  OBVIOUS
<1>2. PICK f : Iterates(f, val, S, 1, g)
  <2> HIDE DEF g, S
  <2> QED BY <1>1, IterationExists
<1>3. \A h : h \in [0 .. val -> S] =>
        \A i \in 1 .. val : g[<<h[i - 1], i>>] = IF val > h[i - 1] THEN 2 * h[i - 1] ELSE h[i - 1]
  <2> SUFFICES ASSUME NEW h \in [0 .. val -> S], NEW i \in 1 .. val
               PROVE  g[<<h[i - 1], i>>] = IF val > h[i - 1] THEN 2 * h[i - 1] ELSE h[i - 1]
    OBVIOUS
  <2>1. <<h[i - 1], i>> \in S \X (1 .. val)
    OBVIOUS
  <2> QED BY <2>1
<1>4. Loop(f)
  <2>1. f \in [0 .. val -> S] /\ f = [i \in 0 .. val |-> IF i = 0 THEN 1 ELSE g[<<f[i - 1], i>>]]
    BY <1>2 DEF Iterates
  <2>2. \A i \in 0 .. val : (IF i = 0 THEN 1 ELSE g[<<f[i - 1], i>>])
            = IF i = 0 THEN 1 ELSE IF val > f[i - 1] THEN 2 * f[i - 1] ELSE f[i - 1]
    <3> SUFFICES ASSUME NEW i \in 0 .. val, i # 0
                 PROVE  g[<<f[i - 1], i>>] = IF val > f[i - 1] THEN 2 * f[i - 1] ELSE f[i - 1]
      OBVIOUS
    <3>1. i \in 1 .. val
      OBVIOUS
    <3> HIDE DEF g, S
    <3> QED BY <1>3, <2>1, <3>1
  <2> HIDE DEF g, S
  <2> QED BY <2>1, <2>2
<1>5. Loop(ret)
  <2> HIDE DEF Loop
  <2> QED BY <1>4
<1>6. Nat \subseteq {i \in Nat : i <= val => ret[i] \in S}
  <2> DEFINE T == {i \in Nat : i <= val => ret[i] \in S}
  <2> HIDE DEF ret
  <2>1. 0 \in T
    BY <1>5
  <2>2. ASSUME NEW n \in Nat, n \in T PROVE n + 1 \in T
    BY <1>5, <2>2
  <2> HIDE DEF T
  <2> QED BY <2>1, <2>2, SetInduction DEF T
<1>7. ret[val] \in S
  BY <1>6
<1> QED BY <1>7 DEF next_p2

\* The block of a round is never empty.
LEMMA BlockIs ==
    ASSUME NEW buf \in Seq(Symbols), NEW steps \in Nat \ {0}, NEW least \in Nat \ {0}
    PROVE  AtLeast(next_p2(Len(buf) \div steps), least) \in Nat \ {0}
<1>1. Len(buf) \div steps \in Nat
  BY LenProperties
<1> QED BY <1>1, PowerIs DEF AtLeast

\* What is left of a file without a block.
LEMMA WithoutIs ==
    ASSUME NEW buf \in Seq(Symbols), NEW from \in Nat, NEW size \in Nat, from <= Len(buf)
    PROVE  Without(buf, from, size) \in Seq(Symbols)
<1>1. Len(buf) \in Nat /\ \A i \in 1 .. Len(buf) : buf[i] \in Symbols
  BY LenProperties, ElementOfSeq
<1>2. SubSeq(buf, 1, from) \in Seq(Symbols)
  BY <1>1, SubSeqProperties
<1>3. SubSeq(buf, from + size + 1, Len(buf)) \in Seq(Symbols)
  BY <1>1, SubSeqProperties
<1> QED BY <1>2, <1>3, ConcatProperties DEF Without

\* A byte like the one before it: the file is the same without either.
LEMMA SameWithout ==
    ASSUME NEW buf \in Seq(Symbols), NEW p \in 1 .. Len(buf), p < Len(buf), buf[p] = buf[p + 1]
    PROVE  Without(buf, p, 1) = Without(buf, p - 1, 1)
<1> DEFINE n == Len(buf)
           a == SubSeq(buf, 1, p)        b == SubSeq(buf, p + 2, n)
           c == SubSeq(buf, 1, p - 1)    d == SubSeq(buf, p + 1, n)
<1>1. n \in Nat /\ \A i \in 1 .. n : buf[i] \in Symbols
  BY LenProperties, ElementOfSeq
<1>2. a \in Seq(Symbols) /\ Len(a) = p /\ \A i \in 1 .. p : a[i] = buf[i]
  BY <1>1, SubSeqProperties
<1>3. b \in Seq(Symbols) /\ Len(b) = n - p - 1 /\ \A i \in 1 .. (n - p - 1) : b[i] = buf[p + 1 + i]
  BY <1>1, SubSeqProperties
<1>4. c \in Seq(Symbols) /\ Len(c) = p - 1 /\ \A i \in 1 .. (p - 1) : c[i] = buf[i]
  BY <1>1, SubSeqProperties
<1>5. d \in Seq(Symbols) /\ Len(d) = n - p /\ \A i \in 1 .. (n - p) : d[i] = buf[p + i]
  BY <1>1, SubSeqProperties
<1>6. Without(buf, p, 1) = a \o b /\ Without(buf, p - 1, 1) = c \o d
  BY <1>1 DEF Without
<1>10. n \in Nat /\ p \in Nat /\ 1 <= p /\ p <= n - 1
  BY <1>1
<1> HIDE DEF a, b, c, d, n
<1>7. /\ a \o b \in Seq(Symbols) /\ Len(a \o b) = n - 1
      /\ \A i \in 1 .. (n - 1) : (a \o b)[i] = IF i <= p THEN buf[i] ELSE buf[i + 1]
  <2>1. /\ a \o b \in Seq(Symbols) /\ Len(a \o b) = Len(a) + Len(b)
        /\ \A i \in 1 .. (Len(a) + Len(b)) :
              (a \o b)[i] = IF i <= Len(a) THEN a[i] ELSE b[i - Len(a)]
    BY <1>2, <1>3, ConcatProperties
  <2>2. ASSUME NEW i \in 1 .. (n - 1) PROVE (a \o b)[i] = IF i <= p THEN buf[i] ELSE buf[i + 1]
    <3>0. Len(a) = p /\ Len(a) + Len(b) = n - 1
      BY <1>2, <1>3, <1>10
    <3>1. (a \o b)[i] = IF i <= p THEN a[i] ELSE b[i - p]
      BY <2>1, <3>0
    <3>2. CASE i <= p
      BY <1>2, <1>10, <3>1, <3>2
    <3>3. CASE ~ i <= p
      <4>1. i - p \in 1 .. (n - p - 1) /\ p + 1 + (i - p) = i + 1
        BY <1>10, <3>3
      <4> QED BY <1>3, <3>1, <3>3, <4>1
    <3> QED BY <3>2, <3>3
  <2>3. Len(a) + Len(b) = n - 1
    BY <1>2, <1>3, <1>10
  <2> QED BY <2>1, <2>2, <2>3
<1>8. /\ c \o d \in Seq(Symbols) /\ Len(c \o d) = n - 1
      /\ \A i \in 1 .. (n - 1) : (c \o d)[i] = IF i <= p - 1 THEN buf[i] ELSE buf[i + 1]
  <2>1. /\ c \o d \in Seq(Symbols) /\ Len(c \o d) = Len(c) + Len(d)
        /\ \A i \in 1 .. (Len(c) + Len(d)) :
              (c \o d)[i] = IF i <= Len(c) THEN c[i] ELSE d[i - Len(c)]
    BY <1>4, <1>5, ConcatProperties
  <2>2. ASSUME NEW i \in 1 .. (n - 1)
        PROVE  (c \o d)[i] = IF i <= p - 1 THEN buf[i] ELSE buf[i + 1]
    <3>0. Len(c) = p - 1 /\ Len(c) + Len(d) = n - 1
      BY <1>4, <1>5, <1>10
    <3>1. (c \o d)[i] = IF i <= p - 1 THEN c[i] ELSE d[i - (p - 1)]
      BY <2>1, <3>0
    <3>2. CASE i <= p - 1
      BY <1>4, <1>10, <3>1, <3>2
    <3>3. CASE ~ i <= p - 1
      <4>1. i - (p - 1) \in 1 .. (n - p) /\ p + (i - (p - 1)) = i + 1
        BY <1>10, <3>3
      <4> QED BY <1>5, <3>1, <3>3, <4>1
    <3> QED BY <3>2, <3>3
  <2>3. Len(c) + Len(d) = n - 1
    BY <1>4, <1>5, <1>10
  <2> QED BY <2>1, <2>2, <2>3
<1>9. \A i \in 1 .. (n - 1) : (a \o b)[i] = (c \o d)[i]
  <2> SUFFICES ASSUME NEW i \in 1 .. (n - 1) PROVE (a \o b)[i] = (c \o d)[i]
    OBVIOUS
  <2>1. i <= p \/ i > p
    BY <1>10
  <2>2. CASE i = p
    BY <1>7, <1>8, <1>10, <2>2
  <2>3. CASE i # p
    <3>1. i <= p <=> i <= p - 1
      BY <1>10, <2>3
    <3> QED BY <1>7, <1>8, <3>1
  <2> QED BY <2>2, <2>3
<1> QED
  <2>1. Len(a \o b) = Len(c \o d) /\ \A i \in 1 .. Len(a \o b) : (a \o b)[i] = (c \o d)[i]
    BY <1>7, <1>8, <1>9
  <2> QED BY <1>6, <1>7, <1>8, <2>1, SeqEqual

\* A target that has answered gives the answer again.
LEMMA VerdictKept ==
    ASSUME MinimizerInv, NEW buf \in Seq(Symbols), NEW kept \in BOOLEAN, Tried(buf, kept)
    PROVE  /\ verdicts' \subseteq Seq(Symbols) \X BOOLEAN
           /\ verdicts \subseteq verdicts' /\ <<buf, kept>> \in verdicts'
           /\ OneVerdict'
<1>1. verdicts' = verdicts \cup {<<buf, kept>>}
  BY DEF Tried
<1>2. CASE \E v \in verdicts : v[1] = buf
  <2>1. verdicts' = verdicts
    BY <1>1, <1>2 DEF Tried
  <2> QED BY <1>1, <2>1 DEF MinimizerInv, MinimizerTypeOK, OneVerdict
<1>3. CASE ~ \E v \in verdicts : v[1] = buf
  BY <1>1, <1>3 DEF MinimizerInv, MinimizerTypeOK, OneVerdict
<1> QED BY <1>2, <1>3

\* A stage starts at the head of the file.
LEMMA StageIs ==
    ASSUME MinimizerInv, NEW name \in Stages, NEW block \in Nat
    PROVE  /\ Stage(name, block) \in StepRecords
           /\ Stage(name, block).stage = name /\ Stage(name, block).len = block
           /\ Stage(name, block).pos = 0 /\ Stage(name, block).prevDel = TRUE
           /\ Stage(name, block).changed = step.changed /\ Stage(name, block).pass = step.pass
BY DEF MinimizerInv, MinimizerTypeOK, Stage, StepRecords

\* Nothing is known but that the original behaves like the original.
LEMMA MinimizerStarts ==
    ASSUME NEW input \in Inputs, NEW m \in Modes, MinimizerInit(input, m)
    PROVE  MinimizerInv
<1>1. input \in Seq(Symbols)
  BY SeqDef, MinimizerAssumption DEF Inputs
<1>2. AtLeast(next_p2(Len(data) \div SetSteps), SetMin) \in Nat \ {0}
  BY <1>1, BlockIs, MinimizerAssumption DEF MinimizerInit
<1>3. MinimizerTypeOK
  <2>1. step \in StepRecords
    BY <1>2 DEF MinimizerInit, StepRecords, Stages
  <2>2. data \in Seq(Symbols) /\ tmp \in Seq(Symbols) /\ verdicts \subseteq Seq(Symbols) \X BOOLEAN
    <3>1. data = input /\ tmp = <<>> /\ verdicts = {<<input, TRUE>>}
      BY DEF MinimizerInit
    <3>2. <<>> \in Seq(Symbols)
      BY EmptySeq
    <3>3. <<input, TRUE>> \in Seq(Symbols) \X BOOLEAN
      BY <1>1, Zenon
    <3> QED BY <1>1, <3>1, <3>2, <3>3
  <2>3. tminMode \in Modes
    BY DEF MinimizerInit
  <2> QED BY <2>1, <2>2, <2>3 DEF MinimizerTypeOK
<1>4. OneVerdict /\ <<data, TRUE>> \in verdicts /\ outFile = NoFile
  BY DEF MinimizerInit, OneVerdict
<1>5. PassKnows
  BY <1>2 DEF MinimizerInit, PassKnows
<1> QED BY <1>3, <1>4, <1>5 DEF MinimizerInv

\* Blocks of Zero.
LEMMA NormalizeKeeps == ASSUME MinimizerInv, NormalizeBlock PROVE MinimizerInv'
<1> DEFINE plain == Replaced(data, step.pos, step.len)
<1>1. data \in Seq(Symbols) /\ step.pos \in Nat /\ step.len \in Nat \ {0} /\ step.stage = "normalize"
  BY DEF MinimizerInv, MinimizerTypeOK, StepRecords, PassKnows, NormalizeBlock
<1>2. plain \in Seq(Symbols)
  <2>1. \A i \in 1 .. Len(data) : data[i] \in Symbols /\ Len(data) \in Nat /\ DOMAIN data = 1 .. Len(data)
    BY <1>1, LenProperties, ElementOfSeq
  <2>2. plain \in [1 .. Len(data) -> Symbols]
    BY <1>1, <2>1, MinimizerAssumption, LenProperties DEF Replaced
  <2> QED BY <1>1, <2>2, SeqDef, LenProperties
<1> HIDE DEF plain
<1>3. step' = [step EXCEPT !.pos = @ + step.len] /\ UNCHANGED <<tmp, tminMode, outFile>>
  BY DEF NormalizeBlock
<1>4. step' \in StepRecords /\ step'.stage = "normalize" /\ step'.len = step.len
  <2>1. step \in StepRecords /\ step.pos + step.len \in Nat
    BY <1>1 DEF MinimizerInv, MinimizerTypeOK
  <2> QED BY <1>1, <1>3, <2>1 DEF StepRecords
<1>5. PassKnows'
  BY <1>1, <1>4 DEF PassKnows
<1>6. \/ UNCHANGED <<data, verdicts>>
      \/ \E kept \in BOOLEAN : Tried(plain, kept) /\ data' = (IF kept THEN plain ELSE data)
  BY DEF NormalizeBlock, plain
<1>7. CASE UNCHANGED <<data, verdicts>>
  BY <1>3, <1>4, <1>5, <1>7 DEF MinimizerInv, MinimizerTypeOK, OneVerdict
<1>8. ASSUME NEW kept \in BOOLEAN, Tried(plain, kept), data' = (IF kept THEN plain ELSE data)
      PROVE  MinimizerInv'
  <2>1. /\ verdicts' \subseteq Seq(Symbols) \X BOOLEAN
        /\ verdicts \subseteq verdicts' /\ <<plain, kept>> \in verdicts' /\ OneVerdict'
    BY <1>2, <1>8, VerdictKept
  <2>2. <<data', TRUE>> \in verdicts'
    BY <1>8, <2>1 DEF MinimizerInv
  <2>3. data' \in Seq(Symbols)
    BY <1>1, <1>2, <1>8
  <2> QED BY <1>3, <1>4, <1>5, <2>1, <2>2, <2>3 DEF MinimizerInv, MinimizerTypeOK
<1> QED BY <1>6, <1>7, <1>8

\* A step that tries no input keeps the verdicts and the file.
LEMMA NothingTried ==
    ASSUME MinimizerInv, UNCHANGED <<data, verdicts, tminMode>>, step' \in StepRecords,
           tmp' \in Seq(Symbols), outFile' \in {outFile, data}, PassKnows'
    PROVE  MinimizerInv'
BY DEF MinimizerInv, MinimizerTypeOK, OneVerdict

\* One that does knows of the new file what it knew of the old.
LEMMA InputTried ==
    ASSUME MinimizerInv, NEW plain \in Seq(Symbols), NEW kept \in BOOLEAN, Tried(plain, kept),
           data' = (IF kept THEN plain ELSE data), step' \in StepRecords, tmp' \in Seq(Symbols),
           UNCHANGED <<tminMode, outFile>>, PassKnows'
    PROVE  MinimizerInv'
<1>1. /\ verdicts' \subseteq Seq(Symbols) \X BOOLEAN
      /\ verdicts \subseteq verdicts' /\ <<plain, kept>> \in verdicts' /\ OneVerdict'
  BY VerdictKept
<1>2. <<data', TRUE>> \in verdicts'
  BY <1>1 DEF MinimizerInv
<1>3. data' \in Seq(Symbols)
  BY DEF MinimizerInv, MinimizerTypeOK
<1>4. outFile' # NoFile => <<outFile', TRUE>> \in verdicts'
  BY <1>1 DEF MinimizerInv
<1> QED BY <1>1, <1>2, <1>3, <1>4 DEF MinimizerInv, MinimizerTypeOK

\* As long as the file stays, what is known of it stays.
LEMMA NeedsStay ==
    ASSUME NEW n, NeedsFirst(n), data' = data, verdicts \subseteq verdicts'
    PROVE  NeedsFirst(n)'
BY DEF NeedsFirst

\* A new pass knows nothing yet.
LEMMA NextPassKeeps == ASSUME MinimizerInv, NextPass PROVE MinimizerInv'
<1> DEFINE block == BlockLength(data)
<1>1. block \in Nat \ {0}
  <2>1. data \in Seq(Symbols) /\ 1 \in Nat \ {0} /\ TrimSteps \in Nat \ {0}
    BY MinimizerAssumption DEF MinimizerInv, MinimizerTypeOK
  <2>2. AtLeast(next_p2(Len(data) \div TrimSteps), 1) \in Nat \ {0}
    BY <2>1, BlockIs
  <2> QED BY <2>2 DEF BlockLength
<1>2. "delete" \in Stages
  BY DEF Stages
<1> HIDE DEF block
<1>3. /\ Stage("delete", block) \in StepRecords /\ Stage("delete", block).stage = "delete"
      /\ Stage("delete", block).pos = 0 /\ Stage("delete", block).len = block
      /\ Stage("delete", block).prevDel = TRUE
  BY <1>1, <1>2, StageIs
<1>4. step' = [Stage("delete", block) EXCEPT !.changed = FALSE, !.pass = @ + 1]
      /\ UNCHANGED <<data, verdicts, tmp, tminMode, outFile>>
  BY DEF NextPass, block
<1>5. /\ step' \in StepRecords /\ step'.stage = "delete" /\ step'.pos = 0 /\ step'.len = block
      /\ step'.prevDel = TRUE
  <2>1. Stage("delete", block).pass + 1 \in Nat
    BY <1>3 DEF StepRecords
  <2> DEFINE s == Stage("delete", block)
  <2> HIDE DEF s
  <2>2. s \in StepRecords /\ s.pass + 1 \in Nat /\ s.stage = "delete" /\ s.pos = 0 /\ s.len = block
        /\ s.prevDel = TRUE /\ step' = [s EXCEPT !.changed = FALSE, !.pass = @ + 1]
    BY <1>3, <1>4, <2>1 DEF s
  <2> QED BY <2>2 DEF StepRecords
<1>6. PassKnows'
  <2>1. \A i \in DOMAIN data : ~ (i <= 0)
    BY LenProperties DEF MinimizerInv, MinimizerTypeOK
  <2>2. NeedsFirst(0)'
    BY <1>4, <2>1 DEF NeedsFirst
  <2> QED BY <1>1, <1>5, <2>2 DEF PassKnows
<1>7. tmp \in Seq(Symbols)
  BY DEF MinimizerInv, MinimizerTypeOK
<1> QED BY <1>4, <1>5, <1>6, <1>7, NothingTried

\* The byte at the position of the deletion is one that is needed too.
LEMMA NeedsNext ==
    ASSUME MinimizerTypeOK, NeedsFirst(step.pos),
           <<Without(data, step.pos, 1), FALSE>> \in verdicts
    PROVE  NeedsFirst(step.pos + 1)
<1>1. step.pos \in Nat /\ \A i \in DOMAIN data : i \in Nat
  BY LenProperties DEF MinimizerTypeOK, StepRecords
<1> SUFFICES ASSUME NEW i \in DOMAIN data, i <= step.pos + 1
             PROVE  <<Without(data, i - 1, 1), FALSE>> \in verdicts
  BY DEF NeedsFirst
<1>2. CASE i <= step.pos
  BY <1>2 DEF NeedsFirst
<1>3. CASE ~ i <= step.pos
  <2>1. i - 1 = step.pos
    BY <1>1, <1>3
  <2> QED BY <2>1
<1> QED BY <1>2, <1>3

\* The deletion of blocks.
LEMMA DeleteKeeps == ASSUME MinimizerInv, DeleteBlock PROVE MinimizerInv'
<1>1. /\ data \in Seq(Symbols) /\ tmp \in Seq(Symbols) /\ step \in StepRecords
      /\ step.stage = "delete" /\ Len(data) \in Nat /\ DOMAIN data = 1 .. Len(data)
      /\ UNCHANGED <<tmp, tminMode, outFile>>
  BY LenProperties DEF MinimizerInv, MinimizerTypeOK, DeleteBlock
<1>2. PICK p \in Nat, block \in Nat \ {0} : p = step.pos /\ block = step.len /\ p < Len(data)
  BY <1>1 DEF MinimizerInv, StepRecords, PassKnows, DeleteBlock
<1>3. PICK cut \in Seq(Symbols) : cut = Without(data, p, block)
  <2>1. Without(data, p, block) \in Seq(Symbols)
    <3>1. block \in Nat /\ p <= Len(data)
      BY <1>1, <1>2
    <3> QED BY <1>1, <1>2, <3>1, WithoutIs
  <2> QED BY <2>1
<1>4. CASE IsNoOp(data, step)
  <2>1. step' = [step EXCEPT !.pos = p + block] /\ UNCHANGED <<data, verdicts>>
    BY <1>2, <1>4 DEF DeleteBlock
  <2>2. /\ step' \in StepRecords /\ step'.stage = "delete" /\ step'.pos = p + block
        /\ step'.len = block /\ step'.prevDel = step.prevDel /\ step'.changed = step.changed
    <3>1. p + block \in Nat
      BY <1>2
    <3> QED BY <1>1, <1>2, <2>1, <3>1 DEF StepRecords
  <2>3. ASSUME block = 1, ~ step.changed PROVE NeedsFirst(p + 1)
    <3>1. NeedsFirst(p) /\ p >= 1
      BY <1>4, <2>3, <1>1, <1>2 DEF MinimizerInv, PassKnows, IsNoOp
    <3>2. p + 1 < Len(data) /\ SubSeq(data, p - 1 + 1, p) = SubSeq(data, p + 1, p + 1)
      BY <1>2, <1>4, <2>3 DEF IsNoOp
    <3>3. /\ p \in 1 .. Len(data) /\ p + 1 \in 1 .. Len(data) /\ p - 1 + 1 = p
          /\ data[p] \in Symbols /\ data[p + 1] \in Symbols
      <4>1. p \in 1 .. Len(data) /\ p + 1 \in 1 .. Len(data) /\ p - 1 + 1 = p
        <5>1. p \in Nat /\ Len(data) \in Nat /\ p >= 1 /\ p + 1 < Len(data)
          BY <1>1, <1>2, <3>1, <3>2
        <5> QED BY <5>1
      <4> QED BY <1>1, <4>1, ElementOfSeq
    <3>4. \A k \in {p, p + 1} : SubSeq(data, k, k) = <<data[k]>>
      <4> SUFFICES ASSUME NEW k \in {p, p + 1} PROVE SubSeq(data, k, k) = <<data[k]>>
        OBVIOUS
      <4>1. k \in Nat /\ k - k + 1 = 1 /\ k + 1 - 1 = k /\ \A i \in k .. k : data[i] \in Symbols
        BY <3>3
      <4>2. /\ SubSeq(data, k, k) \in Seq(Symbols) /\ Len(SubSeq(data, k, k)) = 1
            /\ \A i \in 1 .. 1 : SubSeq(data, k, k)[i] = data[k + i - 1]
        BY <4>1, SubSeqProperties
      <4>3. SubSeq(data, k, k)[1] = data[k]
        BY <4>1, <4>2
      <4>4. data[k] \in Symbols /\ <<data[k]>> \in Seq(Symbols) /\ Len(<<data[k]>>) = 1
            /\ <<data[k]>>[1] = data[k]
        BY <3>3
      <4>5. \A i \in 1 .. 1 : SubSeq(data, k, k)[i] = <<data[k]>>[i]
        BY <4>3, <4>4
      <4> QED BY <4>2, <4>4, <4>5, SeqEqual
    <3>5. data[p] = data[p + 1]
      <4>1. <<data[p]>> = <<data[p + 1]>>
        BY <3>2, <3>3, <3>4
      <4> QED BY <4>1
    <3>6. Without(data, p, 1) = Without(data, p - 1, 1)
      <4>1. data \in Seq(Symbols) /\ p \in 1 .. Len(data) /\ p < Len(data)
        BY <1>1, <1>2, <3>3
      <4> QED BY <3>5, <4>1, SameWithout
    <3>7. <<Without(data, p - 1, 1), FALSE>> \in verdicts
      <4>1. p \in DOMAIN data /\ p <= p
        BY <1>1, <1>2, <3>3
      <4> QED BY <3>1, <4>1 DEF NeedsFirst
    <3> QED BY <1>2, <3>1, <3>6, <3>7, NeedsNext DEF MinimizerInv
  <2>4. PassKnows'
    <3>1. ~ step'.prevDel => step'.pos >= step'.len
      BY <1>1, <1>2, <2>2
    <3>2. (step'.len = 1 /\ ~ step'.changed) => NeedsFirst(step.pos)'
      BY <2>1, <2>2, <2>3 DEF NeedsFirst
    <3> QED BY <1>2, <2>2, <3>1, <3>2 DEF PassKnows
  <2>5. outFile' \in {outFile, data} /\ UNCHANGED <<data, verdicts, tminMode>> /\ tmp' \in Seq(Symbols)
    BY <1>1, <2>1
  <2> QED BY <2>2, <2>4, <2>5, NothingTried
<1>5. CASE ~ IsNoOp(data, step)
  <2>1. PICK kept \in BOOLEAN :
           /\ Tried(cut, kept)
           /\ kept => data' = cut /\ step' = [step EXCEPT !.prevDel = TRUE, !.changed = TRUE]
           /\ ~ kept => step' = [step EXCEPT !.prevDel = FALSE, !.pos = p + block] /\ UNCHANGED data
    BY <1>2, <1>3, <1>5 DEF DeleteBlock
  <2>2. /\ step' \in StepRecords /\ step'.stage = "delete" /\ step'.len = block
        /\ kept => step'.prevDel /\ step'.changed
        /\ ~ kept => step'.pos = p + block /\ step'.changed = step.changed
    <3>1. p + block \in Nat
      BY <1>2
    <3>2. CASE kept
      BY <1>1, <1>2, <2>1, <3>2 DEF StepRecords
    <3>3. CASE ~ kept
      BY <1>1, <1>2, <2>1, <3>1, <3>3 DEF StepRecords
    <3> QED BY <3>2, <3>3
  <2>3. verdicts \subseteq verdicts' /\ <<cut, kept>> \in verdicts'
    BY <2>1 DEF Tried
  <2>4. ASSUME ~ kept, block = 1, ~ step.changed PROVE NeedsFirst(p + 1)'
    <3>1. \A i \in DOMAIN data : i <= p => <<Without(data, i - 1, 1), FALSE>> \in verdicts
      BY <1>1, <1>2, <2>4 DEF MinimizerInv, PassKnows, NeedsFirst
    <3>2. <<Without(data, p, 1), FALSE>> \in verdicts'
      <4>1. kept = FALSE
        BY <2>4
      <4> QED BY <1>3, <2>3, <2>4, <4>1
    <3>3. ASSUME NEW i \in DOMAIN data, i <= p + 1
          PROVE  <<Without(data, i - 1, 1), FALSE>> \in verdicts'
      <4>1. i \in Nat
        BY <1>1, <3>3
      <4>2. CASE i <= p
        BY <2>3, <3>1, <4>2
      <4>3. CASE ~ i <= p
        <5>1. i - 1 = p
          BY <1>1, <1>2, <3>3, <4>1, <4>3
        <5> QED BY <3>2, <5>1
      <4> QED BY <4>2, <4>3
    <3> QED BY <2>1, <2>4, <3>3 DEF NeedsFirst
  <2>5. PassKnows'
    <3>1. ~ step'.prevDel => step'.pos >= step'.len
      BY <1>1, <1>2, <2>2
    <3>2. (step'.len = 1 /\ ~ step'.changed) => NeedsFirst(step.pos)'
      BY <2>2, <2>4 DEF NeedsFirst
    <3> QED BY <1>2, <2>2, <3>1, <3>2 DEF PassKnows
  <2>6. data' = IF kept THEN cut ELSE data
    BY <2>1
  <2> QED BY <1>1, <1>3, <2>1, <2>2, <2>5, <2>6, InputTried
<1> QED BY <1>4, <1>5

\* The last round has come to the end of the file.
LEMMA AfterDeletionKeeps == ASSUME MinimizerInv, AfterDeletion PROVE MinimizerInv'
<1>1. /\ data \in Seq(Symbols) /\ tmp \in Seq(Symbols) /\ step \in StepRecords
      /\ step.stage = "delete" /\ UNCHANGED <<data, verdicts, tmp, tminMode, outFile>>
      /\ Len(data) \in Nat /\ DOMAIN data = 1 .. Len(data)
      /\ step.len \in Nat \ {0} /\ step.pos \in Nat /\ step.pos >= Len(data)
  BY LenProperties DEF MinimizerInv, MinimizerTypeOK, StepRecords, PassKnows, AfterDeletion
<1>2. ASSUME ~ (step.len > 1 /\ data # <<>>), ~ step.changed PROVE NeedsFirst(Len(data))
  <2>1. CASE data = <<>>
    <3>1. Len(data) = 0
      BY <2>1
    <3>2. ~ \E i \in Nat : i \in 1 .. Len(data)
      BY <3>1
    <3>3. ASSUME NEW i \in DOMAIN data PROVE FALSE
      BY <1>1, <3>2, <3>3
    <3> QED BY <3>3 DEF NeedsFirst
  <2>2. CASE data # <<>>
    <3>1. step.len = 1
      BY <1>1, <1>2, <2>2
    <3>2. NeedsFirst(step.pos)
      BY <1>1, <1>2, <3>1 DEF MinimizerInv, PassKnows
    <3>3. \A i \in DOMAIN data : i <= step.pos
      BY <1>1
    <3> QED BY <3>2, <3>3 DEF NeedsFirst
  <2> QED BY <2>1, <2>2
<1>3. outFile' \in {outFile, data} /\ UNCHANGED <<data, verdicts, tminMode>> /\ tmp' \in Seq(Symbols)
  BY <1>1
<1>4. CASE step.len > 1 /\ data # <<>>
  <2>1. PICK block \in Nat \ {0} : block = step.len \div 2
    <3>1. step.len \div 2 \in Nat \ {0}
      BY <1>1, <1>4
    <3> QED BY <3>1
  <2>2. step' = Stage("delete", block)
    BY <1>4, <2>1 DEF AfterDeletion
  <2>3. "delete" \in Stages
    BY DEF Stages
  <2>4. /\ step' \in StepRecords /\ step'.stage = "delete" /\ step'.len = block /\ step'.pos = 0
        /\ step'.prevDel
    <3>1. /\ Stage("delete", block) \in StepRecords
          /\ Stage("delete", block).stage = "delete" /\ Stage("delete", block).len = block
          /\ Stage("delete", block).pos = 0 /\ Stage("delete", block).prevDel = TRUE
      <4>1. block \in Nat
        OBVIOUS
      <4> QED BY <2>3, <4>1, StageIs, ZenonT(60)
    <3> QED BY <2>2, <3>1, ZenonT(60)
  <2>5. NeedsFirst(step.pos)'
    BY <1>1, <2>4 DEF NeedsFirst
  <2>6. PassKnows'
    BY <2>1, <2>4, <2>5 DEF PassKnows
  <2> QED BY <1>3, <2>4, <2>6, NothingTried
<1>5. CASE ~ (step.len > 1 /\ data # <<>>) /\ step.pass > 1 /\ ~ step.changed
  <2>1. step' = Stage("finalize", 0)
    BY <1>5 DEF AfterDeletion
  <2>2. "finalize" \in Stages /\ 0 \in Nat
    BY DEF Stages
  <2>3. step' \in StepRecords /\ step'.stage = "finalize"
    BY <2>1, <2>2, StageIs
  <2>4. NeedsFirst(Len(data))'
    BY <1>1, <1>2, <1>5 DEF NeedsFirst
  <2>5. PassKnows'
    BY <2>3, <2>4 DEF PassKnows
  <2> QED BY <1>3, <2>3, <2>5, NothingTried
<1>6. CASE ~ (step.len > 1 /\ data # <<>>) /\ ~ (step.pass > 1 /\ ~ step.changed)
  <2>1. step' = [Stage("alphabet", 0) EXCEPT !.syms = ToSet(data) \ {Zero}]
    BY <1>6 DEF AfterDeletion
  <2>2. "alphabet" \in Stages /\ 0 \in Nat
    BY DEF Stages
  <2>3. ToSet(data) \ {Zero} \subseteq Symbols
    BY <1>1, ElementOfSeq DEF ToSet
  <2>4. /\ step' \in StepRecords /\ step'.stage = "alphabet" /\ step'.changed = step.changed
    <3> DEFINE s == Stage("alphabet", 0)
    <3>2. PICK name \in Stages, n \in Nat : name = "alphabet" /\ n = 0
      BY <2>2
    <3>3. /\ Stage(name, n) \in StepRecords /\ Stage(name, n).stage = name
          /\ Stage(name, n).changed = step.changed
      BY StageIs
    <3>0. /\ Stage("alphabet", 0) \in StepRecords /\ Stage("alphabet", 0).stage = "alphabet"
          /\ Stage("alphabet", 0).changed = step.changed
      BY <3>2, <3>3
    <3> HIDE DEF s
    <3>1. s \in StepRecords /\ s.stage = "alphabet" /\ s.changed = step.changed
      BY <3>0 DEF s
    <3>4. step' = [s EXCEPT !.syms = ToSet(data) \ {Zero}]
      BY <2>1 DEF s
    <3> QED BY <2>3, <3>1, <3>4 DEF StepRecords
  <2>5. ~ step'.changed => NeedsFirst(Len(data))'
    BY <1>1, <1>2, <1>6, <2>4 DEF NeedsFirst
  <2>6. PassKnows'
    BY <2>4, <2>5 DEF PassKnows
  <2> QED BY <1>3, <2>4, <2>6, NothingTried
<1> QED BY <1>4, <1>5, <1>6

\* A change makes another pass necessary.
LEMMA ReplaceSymbolKeeps == ASSUME MinimizerInv, ReplaceSymbol PROVE MinimizerInv'
<1>1. /\ data \in Seq(Symbols) /\ tmp \in Seq(Symbols) /\ step \in StepRecords
      /\ step.stage = "alphabet" /\ UNCHANGED <<tmp, tminMode, outFile>>
      /\ Len(data) \in Nat /\ DOMAIN data = 1 .. Len(data)
  BY LenProperties DEF MinimizerInv, MinimizerTypeOK, ReplaceSymbol
<1>2. PICK c \in step.syms, kept \in BOOLEAN :
         LET plain == [i \in DOMAIN data |-> IF data[i] = c THEN Zero ELSE data[i]]
         IN  /\ Tried(plain, kept)
             /\ data' = (IF kept THEN plain ELSE data)
             /\ step' = [step EXCEPT !.syms = @ \ {c}, !.changed = @ \/ kept]
  BY DEF ReplaceSymbol
<1> DEFINE plain == [i \in DOMAIN data |-> IF data[i] = c THEN Zero ELSE data[i]]
<1>3. plain \in Seq(Symbols)
  <2>1. \A i \in DOMAIN data : data[i] \in Symbols
    BY <1>1, ElementOfSeq
  <2>2. plain \in [1 .. Len(data) -> Symbols]
    BY <1>1, <2>1, MinimizerAssumption
  <2> QED BY <1>1, <2>2, SeqDef
<1>4. /\ Tried(plain, kept) /\ data' = (IF kept THEN plain ELSE data)
      /\ step' = [step EXCEPT !.syms = @ \ {c}, !.changed = @ \/ kept]
  BY <1>2
<1> HIDE DEF plain
<1>5. /\ step' \in StepRecords /\ step'.stage = "alphabet"
      /\ ~ step'.changed => ~ step.changed /\ ~ kept
  <2>1. step.syms \ {c} \subseteq Symbols /\ (step.changed \/ kept) \in BOOLEAN
    BY <1>1 DEF StepRecords
  <2> QED BY <1>1, <1>4, <2>1 DEF StepRecords
<1>6. ~ step'.changed => NeedsFirst(Len(data))'
  <2> SUFFICES ASSUME ~ step'.changed PROVE NeedsFirst(Len(data))'
    OBVIOUS
  <2>1. NeedsFirst(Len(data)) /\ data' = data /\ verdicts \subseteq verdicts'
    BY <1>1, <1>4, <1>5 DEF MinimizerInv, PassKnows, Tried
  <2> QED BY <2>1 DEF NeedsFirst
<1>7. PassKnows'
  BY <1>5, <1>6 DEF PassKnows
<1> QED BY <1>1, <1>3, <1>4, <1>5, <1>7, InputTried

\* The characters start with the file as it is.
LEMMA AfterAlphabetKeeps == ASSUME MinimizerInv, AfterAlphabet PROVE MinimizerInv'
<1>1. /\ data \in Seq(Symbols) /\ step.stage = "alphabet" /\ tmp' = data
      /\ UNCHANGED <<data, verdicts, tminMode, outFile>> /\ step' = Stage("characters", 0)
  BY DEF MinimizerInv, MinimizerTypeOK, AfterAlphabet
<1>2. "characters" \in Stages /\ 0 \in Nat
  BY DEF Stages
<1>3. step' \in StepRecords /\ step'.stage = "characters" /\ step'.changed = step.changed
  BY <1>1, <1>2, StageIs
<1>4. ~ step'.changed => NeedsFirst(Len(data))'
  BY <1>1, <1>3 DEF MinimizerInv, PassKnows, NeedsFirst
<1>5. PassKnows'
  BY <1>1, <1>3, <1>4 DEF PassKnows
<1>6. outFile' \in {outFile, data} /\ UNCHANGED <<data, verdicts, tminMode>> /\ tmp' \in Seq(Symbols)
  BY <1>1
<1> QED BY <1>3, <1>5, <1>6, NothingTried

\* tmp_buf and in_data change together.
LEMMA ReplaceCharacterKeeps == ASSUME MinimizerInv, ReplaceCharacter PROVE MinimizerInv'
<1>1. /\ data \in Seq(Symbols) /\ tmp = data /\ step \in StepRecords
      /\ step.stage = "characters" /\ UNCHANGED <<tminMode, outFile>>
      /\ Len(data) \in Nat /\ step.pos < Len(data)
  BY LenProperties DEF MinimizerInv, MinimizerTypeOK, PassKnows, ReplaceCharacter
<1>2. PICK i \in 1 .. Len(data) : i = step.pos + 1
  <2>1. step.pos + 1 \in 1 .. Len(data)
    BY <1>1 DEF StepRecords
  <2> QED BY <2>1
<1>3. CASE tmp[i] = Zero
  <2>1. step' = [step EXCEPT !.pos = i] /\ UNCHANGED <<data, verdicts, tmp>>
    BY <1>2, <1>3 DEF ReplaceCharacter
  <2>2. step' \in StepRecords /\ step'.stage = "characters" /\ step'.changed = step.changed
    BY <1>1, <2>1 DEF StepRecords
  <2>3. ~ step'.changed => NeedsFirst(Len(data))'
    BY <1>1, <2>1, <2>2 DEF MinimizerInv, PassKnows, NeedsFirst
  <2>4. PassKnows'
    BY <1>1, <2>1, <2>2, <2>3 DEF PassKnows
  <2>5. outFile' \in {outFile, data} /\ UNCHANGED <<data, verdicts, tminMode>> /\ tmp' \in Seq(Symbols)
    BY <1>1, <2>1
  <2> QED BY <2>2, <2>4, <2>5, NothingTried
<1>4. CASE tmp[i] # Zero
  <2>1. PICK plain \in Seq(Symbols) : plain = [data EXCEPT ![i] = Zero]
    BY <1>1, ExceptSeq, MinimizerAssumption
  <2>2. PICK kept \in BOOLEAN :
           /\ Tried(plain, kept) /\ tmp' = (IF kept THEN plain ELSE tmp)
           /\ data' = (IF kept THEN plain ELSE data)
           /\ step' = [step EXCEPT !.pos = i, !.changed = @ \/ kept]
    BY <1>1, <1>2, <1>4, <2>1 DEF ReplaceCharacter
  <2>3. /\ step' \in StepRecords /\ step'.stage = "characters"
        /\ ~ step'.changed => ~ step.changed /\ ~ kept
    <3>1. i \in Nat /\ (step.changed \/ kept) \in BOOLEAN
      BY <1>1 DEF StepRecords
    <3>2. CASE kept
      BY <1>1, <2>2, <3>1, <3>2 DEF StepRecords
    <3>3. CASE ~ kept
      BY <1>1, <2>2, <3>1, <3>3 DEF StepRecords
    <3> QED BY <3>2, <3>3
  <2>4. ~ step'.changed => NeedsFirst(Len(data))'
    <3> SUFFICES ASSUME ~ step'.changed PROVE NeedsFirst(Len(data))'
      OBVIOUS
    <3>1. NeedsFirst(Len(data)) /\ data' = data /\ verdicts \subseteq verdicts'
      BY <1>1, <2>2, <2>3 DEF MinimizerInv, PassKnows, Tried
    <3> QED BY <3>1 DEF NeedsFirst
  <2>5. tmp' = data' /\ tmp' \in Seq(Symbols)
    BY <1>1, <2>1, <2>2
  <2>6. PassKnows'
    BY <2>3, <2>4, <2>5 DEF PassKnows
  <2> QED BY <1>1, <2>2, <2>3, <2>5, <2>6, InputTried
<1> QED BY <1>3, <1>4

\* The file is written as it is.
LEMMA FinishKeeps == ASSUME MinimizerInv, Finalize \/ AbortByUser PROVE MinimizerInv'
<1>1. /\ data \in Seq(Symbols) /\ tmp \in Seq(Symbols) /\ outFile' = data
      /\ UNCHANGED <<data, verdicts, tmp, tminMode>>
  BY DEF MinimizerInv, MinimizerTypeOK, Finalize, AbortByUser
<1>2. PICK name \in {"done", "aborted"} :
         step' = Stage(name, 0) /\ (name = "done" => Finalize)
  BY DEF Finalize, AbortByUser
<1>3. name \in Stages /\ 0 \in Nat
  BY DEF Stages
<1>4. step' \in StepRecords /\ step'.stage = name
  BY <1>2, <1>3, StageIs
<1>5. name = "done" => NeedsFirst(Len(data))'
  BY <1>1, <1>2 DEF Finalize, Settled, MinimizerInv, PassKnows, NeedsFirst
<1>6. PassKnows'
  BY <1>2, <1>4, <1>5 DEF PassKnows
<1> QED BY <1>1, <1>4, <1>6, NothingTried

\* Every step of afl-tmin keeps the invariant.
LEMMA MinimizerStep == MinimizerInv /\ [MinimizerNext]_minimizerVars => MinimizerInv'
<1> SUFFICES ASSUME MinimizerInv, [MinimizerNext]_minimizerVars PROVE MinimizerInv'
  OBVIOUS
<1>1. CASE UNCHANGED minimizerVars
  BY <1>1 DEF minimizerVars, MinimizerInv, MinimizerTypeOK, OneVerdict, PassKnows, NeedsFirst
<1> QED BY <1>1, NormalizeKeeps, NextPassKeeps, DeleteKeeps, AfterDeletionKeeps, ReplaceSymbolKeeps,
           AfterAlphabetKeeps, ReplaceCharacterKeeps, FinishKeeps DEF MinimizerNext

\* When the last pass is over, each byte has been found to be needed.
LEMMA InvIsMinimal == MinimizerInv => MinimalAndSame
<1> SUFFICES ASSUME MinimizerInv PROVE MinimalAndSame
  OBVIOUS
<1>1. ASSUME step.stage = "done", NEW i \in DOMAIN data
      PROVE  /\ <<Without(data, i - 1, 1), TRUE>> \notin verdicts
             /\ \E v \in verdicts : v[1] = Without(data, i - 1, 1)
  <2>1. i <= Len(data)
    BY LenProperties DEF MinimizerInv, MinimizerTypeOK
  <2>2. <<Without(data, i - 1, 1), FALSE>> \in verdicts
    BY <1>1, <2>1 DEF MinimizerInv, PassKnows, NeedsFirst
  <2> DEFINE v == <<Without(data, i - 1, 1), FALSE>>
             w == <<Without(data, i - 1, 1), TRUE>>
  <2>3. v[1] = w[1] /\ v[2] = FALSE /\ w[2] = TRUE /\ v[1] = Without(data, i - 1, 1)
    OBVIOUS
  <2> HIDE DEF v, w
  <2>4. v \in verdicts
    BY <2>2 DEF v
  <2>5. w \notin verdicts
    BY <2>3, <2>4 DEF MinimizerInv, OneVerdict
  <2> QED BY <2>3, <2>4, <2>5 DEF w
<1> QED BY <1>1 DEF MinimalAndSame, MinimizerInv

\* afl-tmin (minimize, main): whatever the file, the target and the moment of a stop,
\* what is written behaves like the original; and when minimize() comes to its end,
\* the file without any single one of its bytes has been tried and does not.
THEOREM MinimizedStaysMinimal == MinimizerSpec => [](MinimizerTypeOK /\ MinimalAndSame)
<1>1. (\E input \in Inputs, m \in Modes : MinimizerInit(input, m)) => MinimizerInv
  BY MinimizerStarts
<1>2. MinimizerInv => MinimizerTypeOK /\ MinimalAndSame
  BY InvIsMinimal DEF MinimizerInv
<1> QED BY <1>1, <1>2, MinimizerStep, PTL DEF MinimizerSpec

----------------------------------------------------------------------------
(* Loops *)

\* What each round of a loop keeps holds after each of them.
LEMMA RoundsKeep ==
    ASSUME NEW n \in Nat, NEW f, NEW S, f[0] \in S[0],
           \A i \in 1 .. n : f[i - 1] \in S[i - 1] => f[i] \in S[i]
    PROVE  \A i \in 0 .. n : f[i] \in S[i]
<1> DEFINE T == {k \in Nat : k <= n => f[k] \in S[k]}
<1>1. 0 \in T
  OBVIOUS
<1>2. ASSUME NEW k \in Nat, k \in T PROVE k + 1 \in T
  <2> SUFFICES ASSUME k + 1 <= n PROVE f[k + 1] \in S[k + 1]
    OBVIOUS
  <2>1. f[k] \in S[k] /\ k + 1 \in 1 .. n /\ (k + 1) - 1 = k
    BY <1>2
  <2> QED BY <2>1
<1>3. Nat \subseteq T
  <2> HIDE DEF T
  <2> QED BY <1>1, <1>2, SetInduction
<1> QED BY <1>3

\* f is what a loop of n rounds has after each of them, and it is one of S then.
Rounds(f, n, S, base, g) ==
    /\ f = [i \in 0 .. n |-> IF i = 0 THEN base ELSE g[<<f[i - 1], i>>]]
    /\ \A i \in 0 .. n : f[i] \in S[i]

\* There is a loop of n rounds, if each round gives the next what it needs.
LEMMA RoundsExist ==
    ASSUME NEW n \in Nat, NEW S, NEW g, NEW base \in S[0],
           \A i \in 1 .. n : \A x \in S[i - 1] : g[<<x, i>>] \in S[i]
    PROVE  \E f : Rounds(f, n, S, base, g)
<1> DEFINE Loop(f, k) == /\ f = [i \in 0 .. k |-> IF i = 0 THEN base ELSE g[<<f[i - 1], i>>]]
                         /\ \A i \in 0 .. k : f[i] \in S[i]
           T == {k \in Nat : k <= n => \E f : Loop(f, k)}
<1>1. 0 \in T
  <2> DEFINE f == [i \in 0 .. 0 |-> base]
  <2>1. Loop(f, 0)
    OBVIOUS
  <2> QED BY <2>1
<1>2. ASSUME NEW k \in Nat, k \in T PROVE k + 1 \in T
  <2> SUFFICES ASSUME k + 1 <= n PROVE \E f : Loop(f, k + 1)
    OBVIOUS
  <2>1. PICK f : Loop(f, k)
    BY <1>2
  <2> DEFINE h == [i \in 0 .. (k + 1) |-> IF i \in 0 .. k THEN f[i] ELSE g[<<f[k], k + 1>>]]
  <2>2. \A i \in 0 .. k : f[i] = (IF i = 0 THEN base ELSE g[<<f[i - 1], i>>]) /\ f[i] \in S[i]
    BY <2>1
  <2>3. g[<<f[k], k + 1>>] \in S[k + 1]
    <3>1. k \in 0 .. k /\ k + 1 \in 1 .. n /\ (k + 1) - 1 = k
      OBVIOUS
    <3>2. f[k] \in S[k]
      BY <2>2, <3>1
    <3>3. \A x \in S[(k + 1) - 1] : g[<<x, k + 1>>] \in S[k + 1]
      BY <3>1
    <3> QED BY <3>1, <3>2, <3>3
  <2>4. \A i \in 0 .. (k + 1) : h[i] \in S[i]
    <3> SUFFICES ASSUME NEW i \in 0 .. (k + 1) PROVE h[i] \in S[i]
      OBVIOUS
    <3>1. CASE i \in 0 .. k
      BY <2>2, <3>1
    <3>2. CASE i = k + 1
      BY <2>3, <3>2
    <3> QED BY <3>1, <3>2
  <2>5. ASSUME NEW i \in 0 .. (k + 1) PROVE h[i] = IF i = 0 THEN base ELSE g[<<h[i - 1], i>>]
    <3>1. CASE i \in 0 .. k
      <4>1. h[i] = f[i] /\ (i # 0 => h[i - 1] = f[i - 1])
        BY <3>1
      <4> QED BY <2>2, <3>1, <4>1
    <3>2. CASE i = k + 1
      <4>1. h[i] = g[<<f[k], k + 1>>] /\ h[k] = f[k] /\ i # 0 /\ i - 1 = k
        BY <3>2
      <4> QED BY <3>2, <4>1
    <3> QED BY <3>1, <3>2
  <2>6. h = [i \in 0 .. (k + 1) |-> IF i = 0 THEN base ELSE g[<<h[i - 1], i>>]]
    <3>1. h = [i \in 0 .. (k + 1) |-> h[i]]
      OBVIOUS
    <3> HIDE DEF h
    <3> QED BY <2>5, <3>1
  <2> HIDE DEF h
  <2> QED BY <2>4, <2>6
<1>3. n \in T
  <2> HIDE DEF T
  <2> QED BY <1>1, <1>2, SetInduction
<1> QED BY <1>3 DEF Rounds

----------------------------------------------------------------------------
(* Messages *)

Lists ==
    [head : Nodes, tail : Nodes, size : Nat, next : [Nodes -> 0 .. NodeCount],
     val : [Nodes -> Nat], pool : Seq(Nodes)]

OnceEach(p) == \A i, j \in 1 .. Len(p) : p[i] = p[j] => i = j

\* The nodes p are the list l of the values vals, the other nodes are in its pool.
Linked(l, p, vals) ==
    /\ l \in Lists /\ p \in Seq(Nodes) /\ vals \in Seq(Nat)
    /\ Len(p) = Len(vals) + 1 /\ l.size = Len(vals)
    /\ l.head = p[1] /\ l.tail = p[Len(p)] /\ l.next[l.tail] = NoNode
    /\ \A i \in 1 .. Len(vals) : l.next[p[i]] = p[i + 1] /\ l.val[p[i]] = vals[i]
    /\ OnceEach(p) /\ OnceEach(l.pool)
    /\ \A i \in 1 .. Len(p), j \in 1 .. Len(l.pool) : p[i] # l.pool[j]
    /\ Len(l.pool) + Len(p) = NodeCount

\* A new list has its tail only.
LEMMA EmptyLinked == Linked(EmptyList, <<1>>, <<>>)
<1> DEFINE pool == [i \in 1 .. (NodeCount - 1) |-> NodeCount + 1 - i]
<1>1. NodeCount \in Nat /\ NodeCount >= 1
  BY MessagesAssumption
<1>2. pool \in Seq(Nodes) /\ Len(pool) = NodeCount - 1
  <2>1. NodeCount - 1 \in Nat /\ \A i \in 1 .. (NodeCount - 1) : NodeCount + 1 - i \in Nodes
    BY <1>1 DEF Nodes
  <2>2. pool \in [1 .. (NodeCount - 1) -> Nodes]
    BY <2>1
  <2> QED BY <2>1, <2>2
<1>3. OnceEach(pool)
  BY <1>1, <1>2 DEF OnceEach
<1>4. \A j \in 1 .. (NodeCount - 1) : pool[j] # 1
  BY <1>1
<1>5. EmptyList \in Lists
  BY <1>1, <1>2 DEF EmptyList, Lists, Nodes, NoNode
<1>6. /\ EmptyList.head = 1 /\ EmptyList.tail = 1 /\ EmptyList.size = 0 /\ EmptyList.pool = pool
      /\ EmptyList.next[1] = NoNode
  BY <1>1 DEF EmptyList, Nodes
<1> HIDE DEF pool
<1>7. <<1>> \in Seq(Nodes) /\ Len(<<1>>) = 1 /\ <<1>>[1] = 1 /\ OnceEach(<<1>>)
  BY <1>1 DEF OnceEach, Nodes
<1>8. <<>> \in Seq(Nat) /\ Len(<<>>) = 0
  OBVIOUS
<1> QED BY <1>1, <1>2, <1>3, <1>4, <1>5, <1>6, <1>7, <1>8 DEF Linked

LEMMA ListFields ==
    ASSUME NEW l \in Lists
    PROVE  /\ l.head \in Nodes /\ l.tail \in Nodes /\ l.size \in Nat /\ l.pool \in Seq(Nodes)
           /\ l.next \in [Nodes -> 0 .. NodeCount] /\ l.val \in [Nodes -> Nat]
           /\ l = [head |-> l.head, tail |-> l.tail, size |-> l.size, next |-> l.next, val |-> l.val,
                   pool |-> l.pool]
  BY DEF Lists

LEMMA LinkedSizes ==
    ASSUME NEW l, NEW p, NEW vals, Linked(l, p, vals)
    PROVE  /\ l \in Lists /\ p \in Seq(Nodes) /\ vals \in Seq(Nat) /\ l.pool \in Seq(Nodes)
           /\ Len(p) \in Nat /\ Len(vals) \in Nat /\ Len(l.pool) \in Nat /\ NodeCount \in Nat
           /\ Len(p) = Len(vals) + 1 /\ Len(l.pool) + Len(p) = NodeCount
           /\ \A i \in 1 .. Len(p) : p[i] \in Nodes
<1>1. l \in Lists /\ p \in Seq(Nodes) /\ vals \in Seq(Nat)
  BY DEF Linked
<1>2. l.pool \in Seq(Nodes)
  BY <1>1, ListFields
<1>3. Len(p) = Len(vals) + 1 /\ Len(l.pool) + Len(p) = NodeCount
  BY DEF Linked
<1> QED BY <1>1, <1>2, <1>3, LenProperties, ElementOfSeq, MessagesAssumption

LEMMA PushLinked ==
    ASSUME NEW l, NEW p, NEW vals, Linked(l, p, vals), Len(p) < NodeCount, NEW v \in Nat
    PROVE  Linked(kl_pushp(l, v), Append(p, Last(l.pool)), Append(vals, v))
<1> DEFINE n == Len(p)
           m == Len(l.pool)
           r == kl_pushp(l, v)
           q == Last(l.pool)
           p2 == Append(p, q)
           w == Append(vals, v)
<1>1. /\ n \in Nat /\ m \in Nat /\ n >= 1 /\ m >= 1 /\ n + m = NodeCount /\ Len(vals) = n - 1
      /\ p \in Seq(Nodes) /\ vals \in Seq(Nat) /\ l.pool \in Seq(Nodes) /\ l \in Lists
      /\ NodeCount \in Nat
  <2>1. Len(p) \in Nat /\ Len(l.pool) \in Nat /\ Len(vals) \in Nat
    BY LinkedSizes
  <2> QED BY <2>1, LinkedSizes
<1>2. q = l.pool[m] /\ q \in Nodes /\ \A i \in 1 .. n : p[i] \in Nodes /\ p[i] # q
  BY <1>1, ElementOfSeq DEF Linked, Last
<1>3. /\ Front(l.pool) \in Seq(Nodes) /\ Len(Front(l.pool)) = m - 1
      /\ \A i \in 1 .. (m - 1) : Front(l.pool)[i] = l.pool[i]
  <2>1. \A i \in 1 .. m : l.pool[i] \in Nodes
    BY <1>1, ElementOfSeq
  <2>2. /\ SubSeq(l.pool, 1, m - 1) \in Seq(Nodes)
        /\ Len(SubSeq(l.pool, 1, m - 1)) = m - 1
        /\ \A i \in 1 .. (m - 1) : SubSeq(l.pool, 1, m - 1)[i] = l.pool[i]
    BY <1>1, <2>1, SubSeqProperties
  <2> QED BY <2>2 DEF Front
<1>4. /\ p2 \in Seq(Nodes) /\ Len(p2) = n + 1 /\ \A i \in 1 .. n : p2[i] = p[i]
      /\ p2[n + 1] = q
  BY <1>1, <1>2, AppendProperties
<1>5. /\ w \in Seq(Nat) /\ Len(w) = n /\ \A i \in 1 .. (n - 1) : w[i] = vals[i]
      /\ w[n] = v
  BY <1>1, AppendProperties
<1>6. l.tail = p[n] /\ l.head = p[1] /\ l.size = n - 1
  BY <1>1 DEF Linked
<1>7. /\ r.next = [l.next EXCEPT ![p[n]] = q, ![q] = NoNode]
      /\ r.val = [l.val EXCEPT ![p[n]] = v] /\ r.tail = q /\ r.head = p[1]
      /\ r.size = n /\ r.pool = Front(l.pool)
      /\ r \in Lists
  <2> DEFINE f == l.next
             g == l.val
             t == l.tail
  <2>1. /\ f \in [Nodes -> 0 .. NodeCount] /\ g \in [Nodes -> Nat] /\ t \in Nodes /\ l.head \in Nodes
        /\ l.head = p[1] /\ t = p[n] /\ l.size = n - 1
    BY <1>1, <1>6, ListFields
  <2>2. /\ r = [head |-> l.head, tail |-> q, size |-> l.size + 1, pool |-> Front(l.pool),
                next |-> [f EXCEPT ![t] = q, ![q] = NoNode], val |-> [g EXCEPT ![t] = v]]
    BY DEF kl_pushp
  <2> HIDE DEF f, g, t, r
  <2>3. q \in 0 .. NodeCount /\ NoNode \in 0 .. NodeCount
    BY <1>1, <1>2 DEF Nodes, NoNode
  <2>4. [f EXCEPT ![t] = q, ![q] = NoNode] \in [Nodes -> 0 .. NodeCount] /\ [g EXCEPT ![t] = v] \in [Nodes -> Nat]
    <3> HIDE DEF q
    <3> QED BY <2>1, <2>3
  <2>5. (n - 1) + 1 = n /\ n \in Nat /\ Front(l.pool) \in Seq(Nodes)
    BY <1>1, <1>3
  <2>6. r \in Lists
    <3> HIDE DEF q
    <3> QED BY <1>2, <2>1, <2>2, <2>4, <2>5 DEF Lists
  <2> HIDE DEF q
  <2> QED BY <2>1, <2>2, <2>5, <2>6 DEF f, g, t
<1> HIDE DEF r, q, p2, w, n, m
<1>8. r.next[q] = NoNode
  BY <1>1, <1>2, <1>7, ListFields
<1>9. ASSUME NEW i \in 1 .. n PROVE r.next[p2[i]] = p2[i + 1] /\ r.val[p2[i]] = w[i]
  <2>0. /\ p[i] \in Nodes /\ p[i] # q /\ p[n] \in Nodes /\ p2[i] = p[i]
        /\ l.next \in [Nodes -> 0 .. NodeCount] /\ l.val \in [Nodes -> Nat]
    <3>1. n \in 1 .. n
      BY <1>1
    <3> QED BY <1>1, <1>2, <1>4, <3>1, ListFields
  <2>1. CASE i = n
    BY <1>1, <1>4, <1>5, <1>7, <2>0, <2>1
  <2>2. CASE i # n
    <3>1. i \in 1 .. (n - 1) /\ i + 1 \in 1 .. n
      BY <1>1, <2>2
    <3>2. p[i] # p[n]
      BY <1>1, <2>2 DEF Linked, OnceEach, n
    <3>3. l.next[p[i]] = p[i + 1] /\ l.val[p[i]] = vals[i]
      BY <1>1, <3>1 DEF Linked
    <3>4. p2[i + 1] = p[i + 1] /\ w[i] = vals[i]
      BY <1>4, <1>5, <3>1
    <3> QED BY <1>2, <1>7, <2>0, <3>2, <3>3, <3>4
  <2> QED BY <2>1, <2>2
<1>10. OnceEach(p2)
  <2> SUFFICES ASSUME NEW i \in 1 .. (n + 1), NEW j \in 1 .. (n + 1), p2[i] = p2[j] PROVE i = j
    BY <1>4 DEF OnceEach
  <2>1. (i \in 1 .. n \/ i = n + 1) /\ (j \in 1 .. n \/ j = n + 1)
    BY <1>1
  <2>2. \A a, b \in 1 .. n : p[a] = p[b] => a = b
    BY DEF Linked, OnceEach, n
  <2> QED BY <1>2, <1>4, <2>1, <2>2
<1>11. OnceEach(r.pool) /\ \A i \in 1 .. (n + 1), j \in 1 .. (m - 1) : p2[i] # r.pool[j]
  <2>1. \A a, b \in 1 .. m : l.pool[a] = l.pool[b] => a = b
    BY DEF Linked, OnceEach, m
  <2>2. \A i \in 1 .. n, j \in 1 .. m : p[i] # l.pool[j]
    BY DEF Linked, n, m
  <2>3. \A j \in 1 .. (m - 1) : j \in 1 .. m /\ j # m /\ r.pool[j] = l.pool[j]
    BY <1>1, <1>3, <1>7
  <2>4. OnceEach(r.pool)
    BY <1>1, <1>3, <1>7, <2>1, <2>3 DEF OnceEach
  <2>5. ASSUME NEW i \in 1 .. (n + 1), NEW j \in 1 .. (m - 1) PROVE p2[i] # r.pool[j]
    <3>1. m \in 1 .. m /\ (i \in 1 .. n \/ i = n + 1)
      BY <1>1
    <3> QED BY <1>2, <1>4, <2>1, <2>2, <2>3, <3>1
  <2> QED BY <2>4, <2>5
<1>12. Len(r.pool) = m - 1
  BY <1>3, <1>7
<1>13. Linked(r, p2, w)
  <2>1. Len(p2) = Len(w) + 1 /\ r.size = Len(w) /\ r.tail = p2[Len(p2)] /\ r.head = p2[1]
    BY <1>1, <1>4, <1>5, <1>7
  <2>2. Len(r.pool) + Len(p2) = NodeCount
    BY <1>1, <1>4, <1>12
  <2>3. \A i \in 1 .. Len(w) : r.next[p2[i]] = p2[i + 1] /\ r.val[p2[i]] = w[i]
    BY <1>5, <1>9
  <2>4. \A i \in 1 .. Len(p2), j \in 1 .. Len(r.pool) : p2[i] # r.pool[j]
    BY <1>4, <1>11, <1>12
  <2>5. r.next[r.tail] = NoNode /\ r \in Lists /\ p2 \in Seq(Nodes) /\ w \in Seq(Nat)
    BY <1>4, <1>5, <1>7, <1>8
  <2>6. OnceEach(p2) /\ OnceEach(r.pool)
    BY <1>10, <1>11
  <2> QED BY <2>1, <2>2, <2>3, <2>4, <2>5, <2>6 DEF Linked
<1> QED BY <1>13 DEF r, p2, w, q

\* A part of a sequence with the element that follows it.
LEMMA OneMore ==
    ASSUME NEW T, NEW s \in Seq(T), NEW m \in Nat, m < Len(s)
    PROVE  Append(SubSeq(s, 1, m), s[m + 1]) = SubSeq(s, 1, m + 1)
<1>1. Len(s) \in Nat /\ \A i \in 1 .. Len(s) : s[i] \in T
  BY LenProperties, ElementOfSeq
<1>2. 1 \in 1 .. Len(s) /\ m + 1 \in 1 .. Len(s) /\ m + 1 - 1 = m /\ s[m + 1] \in T
  BY <1>1
<1>3. SubSeq(s, 1, m + 1) = SubSeq(s, 1, m) \o <<s[m + 1]>>
  BY <1>2, SubSeqRecursiveSecond
<1>4. SubSeq(s, 1, m) \in Seq(T)
  <2>1. m \in Int /\ \A i \in 1 .. m : s[i] \in T
    BY <1>1
  <2> QED BY <2>1, SubSeqProperties
<1>5. Append(SubSeq(s, 1, m), s[m + 1]) = SubSeq(s, 1, m) \o <<s[m + 1]>>
  BY <1>2, <1>4, AppendIsConcat
<1> QED BY <1>3, <1>5

\* Going along the nodes of a list from one to another finds those between them.
LEMMA ChainIs ==
    ASSUME NEW l, NEW p \in Seq(Nodes), Len(p) >= 1, Len(p) <= NodeCount, OnceEach(p),
           \A i \in 1 .. (Len(p) - 1) : l.next[p[i]] = p[i + 1]
    PROVE  Chain(l, p[1], p[Len(p)]) = SubSeq(p, 1, Len(p) - 1)
<1> DEFINE k == Len(p) - 1
           a == p[1]
           b == p[Len(p)]
           m(i) == IF i <= k THEN i + 1 ELSE k + 1
           z == [i \in 0 .. NodeCount |-> SubSeq(p, 1, m(i))]
           Walks(f) == f = [i \in 0 .. NodeCount |->
                               IF i = 0 THEN <<a>>
                               ELSE LET w == f[i - 1]
                                    IN IF Last(w) \in {b, NoNode} THEN w ELSE Append(w, l.next[Last(w)])]
           chain == CHOOSE f : Walks(f)
<1>1. /\ k \in Nat /\ Len(p) = k + 1 /\ NodeCount \in Nat /\ k < NodeCount
      /\ \A i \in 1 .. (k + 1) : p[i] \in Nodes /\ p[i] # NoNode
  <2>1. Len(p) \in Nat /\ NodeCount \in Nat /\ \A i \in 1 .. Len(p) : p[i] \in Nodes
    BY LenProperties, ElementOfSeq, MessagesAssumption
  <2>2. \A n \in Nodes : n # NoNode
    BY <2>1 DEF Nodes, NoNode
  <2> QED BY <2>1, <2>2
<1>2. \A n \in 1 .. (k + 1) : Len(SubSeq(p, 1, n)) = n /\ Last(SubSeq(p, 1, n)) = p[n]
  <2> SUFFICES ASSUME NEW n \in 1 .. (k + 1)
               PROVE  Len(SubSeq(p, 1, n)) = n /\ Last(SubSeq(p, 1, n)) = p[n]
    OBVIOUS
  <2>1. n \in Int /\ 1 <= n /\ \A i \in 1 .. n : p[i] \in Nodes
    BY <1>1
  <2>2. /\ Len(SubSeq(p, 1, n)) = IF 1 <= n THEN n - 1 + 1 ELSE 0
        /\ \A i \in 1 .. n - 1 + 1 : SubSeq(p, 1, n)[i] = p[1 + i - 1]
    BY <2>1, SubSeqProperties
  <2> QED BY <2>1, <2>2 DEF Last
<1> HIDE DEF k, a, b
<1>3. ASSUME NEW i \in 1 .. NodeCount, NEW w, w = SubSeq(p, 1, m(i - 1))
      PROVE  SubSeq(p, 1, m(i)) = IF Last(w) \in {b, NoNode} THEN w ELSE Append(w, l.next[Last(w)])
  <2>1. PICK n \in 1 .. (k + 1) : n = m(i - 1) /\ m(i) = (IF n = k + 1 THEN n ELSE n + 1)
    BY <1>1
  <2>2. Last(w) = p[n] /\ p[n] # NoNode
    BY <1>1, <1>2, <1>3, <2>1
  <2>3. CASE n = k + 1
    <3>1. p[n] = b
      BY <1>1, <2>3 DEF b
    <3> QED BY <1>3, <2>1, <2>2, <2>3, <3>1
  <2>4. CASE n # k + 1
    <3>1. n \in Nat /\ n < Len(p) /\ n \in 1 .. Len(p) /\ Len(p) \in 1 .. Len(p) /\ n \in 1 .. (Len(p) - 1)
      BY <1>1, <2>4
    <3>2. p[n] # b
      BY <3>1 DEF b, OnceEach
    <3>3. l.next[p[n]] = p[n + 1]
      BY <3>1
    <3>4. Append(SubSeq(p, 1, n), p[n + 1]) = SubSeq(p, 1, n + 1)
      BY <3>1, OneMore
    <3> QED BY <1>3, <2>1, <2>2, <2>4, <3>2, <3>3, <3>4
  <2> QED BY <2>3, <2>4
<1>4. SubSeq(p, 1, m(0)) = <<a>>
  <2>1. m(0) = 1 /\ 1 \in 1 .. (k + 1)
    BY <1>1
  <2>2. p[1] \in Nodes /\ 1 \in Int /\ \A i \in 1 .. 1 : p[i] \in Nodes
    BY <1>1, <2>1
  <2>3. /\ SubSeq(p, 1, 1) \in Seq(Nodes) /\ Len(SubSeq(p, 1, 1)) = 1
        /\ \A i \in 1 .. 1 : SubSeq(p, 1, 1)[i] = p[1 + i - 1]
    BY <2>2, SubSeqProperties
  <2>4. <<a>> \in Seq(Nodes) /\ Len(<<a>>) = 1 /\ \A i \in 1 .. 1 : SubSeq(p, 1, 1)[i] = <<a>>[i]
    BY <2>2, <2>3 DEF a
  <2>5. SubSeq(p, 1, 1) = <<a>>
    BY <2>3, <2>4, SeqEqual
  <2> QED BY <2>1, <2>5
<1>5. Walks(z)
  <2>1. \A i \in 0 .. NodeCount : z[i] = SubSeq(p, 1, m(i))
    OBVIOUS
  <2>2. \A i \in 1 .. NodeCount : i - 1 \in 0 .. NodeCount
    BY <1>1
  <2> HIDE DEF m
  <2>3. ASSUME NEW i \in 0 .. NodeCount
        PROVE  z[i] = IF i = 0 THEN <<a>>
                      ELSE LET w == z[i - 1]
                           IN IF Last(w) \in {b, NoNode} THEN w ELSE Append(w, l.next[Last(w)])
    <3>1. CASE i = 0
      BY <1>4, <2>1, <3>1
    <3>2. CASE i # 0
      <4>1. i \in 1 .. NodeCount
        BY <3>2
      <4>2. z[i - 1] = SubSeq(p, 1, m(i - 1)) /\ z[i] = SubSeq(p, 1, m(i))
        BY <2>1, <2>2, <4>1
      <4> HIDE DEF z
      <4> QED BY <1>3, <3>2, <4>1, <4>2
    <3> QED BY <3>1, <3>2
  <2>4. z = [i \in 0 .. NodeCount |-> z[i]]
    OBVIOUS
  <2> HIDE DEF z
  <2> QED BY <2>3, <2>4
<1>6. Walks(chain)
  <2> HIDE DEF Walks, z
  <2> QED BY <1>5
<1>7. \A i \in 0 .. NodeCount : chain[i] = SubSeq(p, 1, m(i))
  <2> DEFINE S == [i \in 0 .. NodeCount |-> {SubSeq(p, 1, m(i))}]
  <2>1. chain[0] = <<a>>
    <3> HIDE DEF chain
    <3>1. 0 \in 0 .. NodeCount
      BY <1>1
    <3> QED BY <1>6, <3>1
  <2>2. \A i \in 1 .. NodeCount :
           chain[i] = LET w == chain[i - 1]
                     IN IF Last(w) \in {b, NoNode} THEN w ELSE Append(w, l.next[Last(w)])
    <3> HIDE DEF chain
    <3>1. \A i \in 1 .. NodeCount : i \in 0 .. NodeCount /\ i # 0
      BY <1>1
    <3> QED BY <1>6, <3>1
  <2> HIDE DEF chain, m
  <2>3. chain[0] \in S[0]
    <3>1. 0 \in 0 .. NodeCount
      BY <1>1
    <3> QED BY <1>4, <2>1, <3>1
  <2>4. \A i \in 1 .. NodeCount : chain[i - 1] \in S[i - 1] => chain[i] \in S[i]
    <3> SUFFICES ASSUME NEW i \in 1 .. NodeCount, chain[i - 1] \in S[i - 1] PROVE chain[i] \in S[i]
      OBVIOUS
    <3>1. i - 1 \in 0 .. NodeCount /\ i \in 0 .. NodeCount
      BY <1>1
    <3>2. chain[i - 1] = SubSeq(p, 1, m(i - 1))
      BY <3>1
    <3>3. chain[i] = SubSeq(p, 1, m(i))
      BY <1>3, <2>2, <3>2
    <3> QED BY <3>1, <3>3
  <2>5. \A i \in 0 .. NodeCount : chain[i] \in S[i]
    <3> HIDE DEF S
    <3> QED BY <1>1, <2>3, <2>4, RoundsKeep
  <2> QED BY <2>5
<1>8. chain[NodeCount] = p
  <2>1. NodeCount \in 0 .. NodeCount /\ m(NodeCount) = Len(p)
    BY <1>1
  <2>2. SubSeq(p, 1, Len(p)) = p
    BY SubSeqFull
  <2> HIDE DEF chain, m
  <2> QED BY <1>7, <2>1, <2>2
<1>9. Last(p) = b /\ Front(p) = SubSeq(p, 1, Len(p) - 1)
  BY DEF Last, Front, b
<1>10. Chain(l, a, b) = LET all == chain[NodeCount] IN IF Last(all) = b THEN Front(all) ELSE all
  BY DEF Chain
<1> HIDE DEF chain
<1> QED BY <1>8, <1>9, <1>10 DEF a, b

\* So a list has the messages that its nodes hold, in their order.
LEMMA ContentsAre ==
    ASSUME NEW l, NEW p, NEW vals, Linked(l, p, vals)
    PROVE  /\ Chain(l, l.head, l.tail) = SubSeq(p, 1, Len(vals))
           /\ Contents(l) = vals
<1>1. /\ p \in Seq(Nodes) /\ vals \in Seq(Nat) /\ Len(p) \in Nat /\ Len(vals) \in Nat /\ NodeCount \in Nat
      /\ Len(p) = Len(vals) + 1 /\ Len(p) >= 1 /\ Len(p) <= NodeCount /\ Len(p) - 1 = Len(vals)
      /\ \A i \in 1 .. Len(p) : p[i] \in Nodes
  BY LinkedSizes
<1>2. /\ OnceEach(p) /\ l.head = p[1] /\ l.tail = p[Len(p)]
      /\ \A i \in 1 .. Len(vals) : l.next[p[i]] = p[i + 1] /\ l.val[p[i]] = vals[i]
  BY DEF Linked
<1>3. Chain(l, l.head, l.tail) = SubSeq(p, 1, Len(vals))
  <2>1. Chain(l, p[1], p[Len(p)]) = SubSeq(p, 1, Len(p) - 1)
    BY <1>1, <1>2, ChainIs
  <2> QED BY <1>1, <1>2, <2>1
<1>4. /\ SubSeq(p, 1, Len(vals)) \in Seq(Nodes) /\ Len(SubSeq(p, 1, Len(vals))) = Len(vals)
      /\ \A i \in 1 .. Len(vals) : SubSeq(p, 1, Len(vals))[i] = p[i]
  <2>1. 1 \in Int /\ Len(vals) \in Int /\ \A i \in 1 .. Len(vals) : p[i] \in Nodes
    BY <1>1
  <2>2. /\ SubSeq(p, 1, Len(vals)) \in Seq(Nodes)
        /\ Len(SubSeq(p, 1, Len(vals))) = IF 1 <= Len(vals) THEN Len(vals) - 1 + 1 ELSE 0
        /\ \A i \in 1 .. Len(vals) - 1 + 1 : SubSeq(p, 1, Len(vals))[i] = p[1 + i - 1]
    BY <2>1, SubSeqProperties
  <2> QED BY <1>1, <2>2
<1> DEFINE c == SubSeq(p, 1, Len(vals))
<1>5. DOMAIN c = 1 .. Len(vals) /\ \A i \in DOMAIN c : l.val[c[i]] = vals[i]
  BY <1>1, <1>2, <1>4
<1>6. vals = [i \in 1 .. Len(vals) |-> vals[i]]
  BY <1>1
<1> HIDE DEF c
<1>7. Contents(l) = [i \in DOMAIN c |-> l.val[c[i]]]
  BY <1>3 DEF Contents, c
<1>8. [i \in DOMAIN c |-> l.val[c[i]]] = [i \in 1 .. Len(vals) |-> vals[i]]
  BY <1>5
<1> QED BY <1>3, <1>6, <1>7, <1>8

LEMMA AppendedNode ==
    ASSUME NEW a \in Seq(Nodes), NEW b \in Seq(Nodes), NEW e \in Nodes
    PROVE  Append(a \o b, e) = a \o Append(b, e)
<1>1. a \o b \in Seq(Nodes) /\ <<e>> \in Seq(Nodes)
  BY ConcatProperties
<1>2. Append(a \o b, e) = (a \o b) \o <<e>> /\ Append(b, e) = b \o <<e>>
  BY <1>1, AppendIsConcat
<1>3. (a \o b) \o <<e>> = a \o (b \o <<e>>)
  BY <1>1, ConcatAssociative
<1> QED BY <1>2, <1>3

LEMMA AppendedValue ==
    ASSUME NEW a \in Seq(Nat), NEW b \in Seq(Nat), NEW e \in Nat
    PROVE  Append(a \o b, e) = a \o Append(b, e)
<1>1. a \o b \in Seq(Nat) /\ <<e>> \in Seq(Nat)
  BY ConcatProperties
<1>2. Append(a \o b, e) = (a \o b) \o <<e>> /\ Append(b, e) = b \o <<e>>
  BY <1>1, AppendIsConcat
<1>3. (a \o b) \o <<e>> = a \o (b \o <<e>>)
  BY <1>1, ConcatAssociative
<1> QED BY <1>2, <1>3

LEMMA ShiftIs ==
    ASSUME NEW x \in Lists, x.next[x.head] \in Nodes, x.size >= 1
    PROVE  /\ kl_shift(x) \in Lists
           /\ kl_shift(x).head = x.next[x.head] /\ kl_shift(x).tail = x.tail
           /\ kl_shift(x).size = x.size - 1 /\ kl_shift(x).next = x.next
           /\ kl_shift(x).pool = Append(x.pool, x.head)
<1> DEFINE y == x.next[x.head]
           s == x.size - 1
           pool == Append(x.pool, x.head)
<1>1. y \in Nodes /\ s \in Nat
  BY ListFields
<1>2. pool \in Seq(Nodes)
  BY ListFields, AppendProperties
<1>3. kl_shift(x) = [x EXCEPT !.head = y, !.size = s, !.pool = pool]
  BY DEF kl_shift, kmp_free
<1> HIDE DEF y, s, pool
<1>4. /\ kl_shift(x) \in Lists
      /\ kl_shift(x).head = y /\ kl_shift(x).tail = x.tail
      /\ kl_shift(x).size = s /\ kl_shift(x).next = x.next
      /\ kl_shift(x).pool = pool
  BY <1>1, <1>2, <1>3 DEF Lists
<1> QED BY <1>4 DEF y, s, pool

\* Deleting a list puts its nodes behind those of the pool.
LEMMA DeleteGives ==
    ASSUME NEW l, NEW p, NEW vals, Linked(l, p, vals)
    PROVE  delete_kl_messages(l).pool = l.pool \o p
<1> DEFINE n == Len(vals)
           m(i) == IF i <= n THEN i ELSE n
           S == [i \in 0 .. NodeCount |->
                    {x \in Lists : /\ x.head = p[m(i) + 1] /\ x.tail = l.tail /\ x.next = l.next
                                   /\ x.size = n - m(i) /\ x.pool = l.pool \o SubSeq(p, 1, m(i))}]
           Round(x) == IF x.next[x.head] = NoNode THEN x ELSE kl_shift(x)
           g == [y \in Lists \X (1 .. NodeCount) |-> Round(y[1])]
           Rests(f) == f = [i \in 0 .. NodeCount |->
                               IF i = 0 THEN l
                               ELSE LET k == f[i - 1] IN IF k.next[k.head] = NoNode THEN k ELSE kl_shift(k)]
           rest == CHOOSE f : Rests(f)
<1>1. /\ l \in Lists /\ p \in Seq(Nodes) /\ l.pool \in Seq(Nodes) /\ n \in Nat /\ NodeCount \in Nat
      /\ Len(p) = n + 1 /\ n < NodeCount
      /\ \A i \in 1 .. (n + 1) : p[i] \in Nodes /\ p[i] # NoNode
  <2>1. \A x \in Nodes : x # NoNode
    BY MessagesAssumption DEF Nodes, NoNode
  <2> QED BY <2>1, LinkedSizes
<1>2. /\ l.head = p[1] /\ l.tail = p[n + 1] /\ l.next[p[n + 1]] = NoNode /\ l.size = n
      /\ \A i \in 1 .. n : l.next[p[i]] = p[i + 1]
  BY <1>1 DEF Linked
<1> HIDE DEF n
<1>3. ASSUME NEW i \in 1 .. NodeCount, NEW x \in S[i - 1] PROVE Round(x) \in S[i]
  <2>1. i \in 0 .. NodeCount /\ i - 1 \in 0 .. NodeCount /\ m(i - 1) \in 0 .. n /\ m(i) \in 0 .. n
    BY <1>1
  <2>2. PICK j \in 0 .. n : j = m(i - 1) /\ m(i) = (IF j = n THEN n ELSE j + 1)
    BY <1>1
  <2>3. /\ x \in Lists /\ x.head = p[j + 1] /\ x.tail = l.tail /\ x.next = l.next
        /\ x.size = n - j /\ x.pool = l.pool \o SubSeq(p, 1, j)
    BY <2>1, <2>2
  <2>4. CASE j = n
    <3>1. Round(x) = x /\ m(i) = j
      BY <1>2, <2>2, <2>3, <2>4
    <3> HIDE DEF Round, m
    <3> QED BY <2>1, <2>3, <3>1
  <2>5. CASE j # n
    <3>1. j + 1 \in 1 .. n /\ j + 2 \in 1 .. (n + 1) /\ j \in Nat /\ j < Len(p) /\ m(i) = j + 1
          /\ (j + 1) + 1 = j + 2
      BY <1>1, <2>2, <2>5
    <3>2. x.next[x.head] = p[j + 2] /\ p[j + 2] \in Nodes /\ p[j + 2] # NoNode /\ p[j + 1] \in Nodes
      <4>1. j + 1 \in 1 .. (n + 1)
        BY <1>1, <3>1
      <4>2. p[j + 1] \in Nodes /\ p[j + 2] \in Nodes /\ p[j + 2] # NoNode
        BY <1>1, <3>1, <4>1
      <4>3. l.next[p[j + 1]] = p[j + 2]
        BY <1>2, <3>1
      <4> QED BY <2>3, <4>2, <4>3
    <3>3. Round(x) = kl_shift(x) /\ x.size >= 1 /\ x.size - 1 = n - (j + 1)
      <4>1. x.size >= 1 /\ x.size - 1 = n - (j + 1)
        BY <1>1, <2>3, <3>1
      <4> QED BY <3>2, <4>1
    <3>4. SubSeq(p, 1, j) \in Seq(Nodes)
      <4>1. \A q \in 1 .. j : p[q] \in Nodes
        BY <1>1, <3>1
      <4> QED BY <3>1, <4>1, SubSeqProperties
    <3>5. Append(x.pool, x.head) = l.pool \o SubSeq(p, 1, j + 1)
      <4>1. Append(l.pool \o SubSeq(p, 1, j), p[j + 1]) = l.pool \o Append(SubSeq(p, 1, j), p[j + 1])
        <5>1. l.pool \in Seq(Nodes) /\ SubSeq(p, 1, j) \in Seq(Nodes) /\ p[j + 1] \in Nodes
          BY <1>1, <3>2, <3>4
        <5> QED BY <5>1, AppendedNode
      <4>2. Append(SubSeq(p, 1, j), p[j + 1]) = SubSeq(p, 1, j + 1)
        BY <1>1, <3>1, OneMore
      <4> QED BY <2>3, <4>1, <4>2
    <3>6. /\ kl_shift(x) \in Lists /\ kl_shift(x).head = p[j + 2] /\ kl_shift(x).tail = l.tail
          /\ kl_shift(x).size = n - (j + 1) /\ kl_shift(x).next = l.next
          /\ kl_shift(x).pool = l.pool \o SubSeq(p, 1, j + 1)
      BY <2>3, <3>2, <3>3, <3>5, ShiftIs
    <3> HIDE DEF Round, m
    <3> QED BY <2>1, <3>1, <3>3, <3>6
  <2> QED BY <2>4, <2>5
<1>4. l \in S[0]
  <2>1. 0 \in 0 .. NodeCount /\ m(0) = 0 /\ l.size = n - 0
    BY <1>1, <1>2
  <2>2. SubSeq(p, 1, 0) = <<>> /\ l.pool \o <<>> = l.pool
    BY <1>1, SubSeqEmpty, ConcatEmptySeq
  <2> HIDE DEF m
  <2> QED BY <1>1, <1>2, <2>1, <2>2
<1>5. \A i \in 0 .. NodeCount : S[i] \subseteq Lists
  OBVIOUS
<1> HIDE DEF S
<1>6. \E f : Rests(f)
  <2>1. \A i \in 1 .. NodeCount : \A x \in S[i - 1] : g[<<x, i>>] = Round(x)
    <3> SUFFICES ASSUME NEW i \in 1 .. NodeCount, NEW x \in S[i - 1] PROVE g[<<x, i>>] = Round(x)
      OBVIOUS
    <3>1. x \in Lists
      <4>1. i - 1 \in 0 .. NodeCount
        BY <1>1
      <4> QED BY <1>5, <4>1
    <3>2. <<x, i>> \in Lists \X (1 .. NodeCount) /\ <<x, i>>[1] = x
      BY <3>1
    <3> HIDE DEF Round
    <3> QED BY <3>2
  <2> HIDE DEF g, Round
  <2>2. \A i \in 1 .. NodeCount : \A x \in S[i - 1] : g[<<x, i>>] \in S[i]
    BY <1>3, <2>1
  <2>8. PICK f : Rounds(f, NodeCount, S, l, g)
    BY <1>1, <1>4, <2>2, RoundsExist
  <2>3. /\ f = [i \in 0 .. NodeCount |-> IF i = 0 THEN l ELSE g[<<f[i - 1], i>>]]
        /\ \A i \in 0 .. NodeCount : f[i] \in S[i]
    BY <2>8 DEF Rounds
  <2>4. ASSUME NEW i \in 0 .. NodeCount PROVE f[i] = IF i = 0 THEN l ELSE Round(f[i - 1])
    <3>1. f[i] = IF i = 0 THEN l ELSE g[<<f[i - 1], i>>]
      BY <2>3
    <3>2. CASE i = 0
      BY <3>1, <3>2
    <3>3. CASE i # 0
      <4>1. i \in 1 .. NodeCount /\ i - 1 \in 0 .. NodeCount
        BY <1>1, <3>3
      <4>2. f[i - 1] \in S[i - 1]
        BY <2>3, <4>1
      <4> QED BY <2>1, <3>1, <3>3, <4>1, <4>2
    <3> QED BY <3>2, <3>3
  <2>5. f = [i \in 0 .. NodeCount |-> f[i]]
    BY <2>3
  <2>6. f = [i \in 0 .. NodeCount |-> IF i = 0 THEN l ELSE Round(f[i - 1])]
    BY <2>4, <2>5
  <2>7. Rests(f)
    BY <2>6 DEF Round
  <2> QED BY <2>7
<1>7. Rests(rest)
  <2> HIDE DEF Rests
  <2> QED BY <1>6
<1>8. \A i \in 0 .. NodeCount : rest[i] \in S[i]
  <2>1. rest[0] = l
    <3> HIDE DEF rest
    <3>1. 0 \in 0 .. NodeCount
      BY <1>1
    <3> QED BY <1>7, <3>1
  <2>2. \A i \in 1 .. NodeCount : rest[i] = Round(rest[i - 1])
    <3> HIDE DEF rest
    <3>1. \A i \in 1 .. NodeCount : i \in 0 .. NodeCount /\ i # 0
      BY <1>1
    <3> QED BY <1>7, <3>1
  <2> HIDE DEF rest, Round
  <2>3. \A i \in 1 .. NodeCount : rest[i - 1] \in S[i - 1] => rest[i] \in S[i]
    BY <1>3, <2>2
  <2> QED BY <1>1, <1>4, <2>1, <2>3, RoundsKeep
<1>9. rest[NodeCount].tail = p[n + 1] /\ rest[NodeCount].pool = l.pool \o SubSeq(p, 1, n)
  <2>1. NodeCount \in 0 .. NodeCount /\ m(NodeCount) = n
    BY <1>1
  <2> HIDE DEF rest, m
  <2>2. rest[NodeCount] \in S[NodeCount]
    BY <1>8, <2>1
  <2> QED BY <1>2, <2>1, <2>2 DEF S
<1>10. delete_kl_messages(l).pool = Append(rest[NodeCount].pool, rest[NodeCount].tail)
  BY DEF delete_kl_messages
<1> HIDE DEF rest
<1>11. SubSeq(p, 1, n) \in Seq(Nodes) /\ p[n + 1] \in Nodes
  <2>1. n \in Int /\ n + 1 \in 1 .. (n + 1) /\ \A q \in 1 .. n : p[q] \in Nodes
    BY <1>1
  <2> QED BY <1>1, <2>1, SubSeqProperties
<1>12. Append(l.pool \o SubSeq(p, 1, n), p[n + 1]) = l.pool \o Append(SubSeq(p, 1, n), p[n + 1])
  <2>1. l.pool \in Seq(Nodes) /\ SubSeq(p, 1, n) \in Seq(Nodes) /\ p[n + 1] \in Nodes
    BY <1>1, <1>11
  <2> QED BY <2>1, AppendedNode
<1>13. Append(SubSeq(p, 1, n), p[n + 1]) = SubSeq(p, 1, n + 1)
  BY <1>1, OneMore
<1>14. SubSeq(p, 1, n + 1) = p
  BY <1>1, SubSeqFull
<1> QED BY <1>9, <1>10, <1>12, <1>13, <1>14

\* As many nodes as there are, none of them twice, are all nodes.
LEMMA AllOfThem ==
    ASSUME NEW s \in Seq(Nodes), OnceEach(s), Len(s) = NodeCount
    PROVE  ToSet(s) = Nodes
<1>1. NodeCount \in Nat /\ s \in [1 .. NodeCount -> Nodes] /\ Nodes = 1 .. NodeCount
  BY MessagesAssumption, LenProperties, ElementOfSeq DEF Nodes
<1>2. IsFiniteSet(Nodes)
  <2>1. 1 \in Int /\ NodeCount \in Int
    BY <1>1
  <2> QED BY <1>1, <2>1, FS_Interval
<1>3. s \in Injection(1 .. NodeCount, Nodes)
  BY <1>1 DEF Injection, IsInjective, OnceEach
<1>4. s \in Surjection(1 .. NodeCount, Nodes)
  BY <1>1, <1>2, <1>3, FS_Injection
<1>5. \A x \in Nodes : \E i \in 1 .. NodeCount : s[i] = x
  BY <1>4 DEF Surjection
<1>6. DOMAIN s = 1 .. NodeCount /\ \A i \in 1 .. NodeCount : s[i] \in Nodes
  BY <1>1
<1> QED BY <1>5, <1>6 DEF ToSet

----------------------------------------------------------------------------
(* Pushing *)

\* kl_init and the pushes of all messages give the list of the messages.
LEMMA ConstructLinked ==
    ASSUME NEW msgs \in Seq(Nat), Len(msgs) < NodeCount
    PROVE  \E p : Linked(construct_kl_messages(msgs), p, msgs)
<1> DEFINE n == Len(msgs)
           S == [i \in 0 .. n |-> {x \in Lists : \E p : Linked(x, p, SubSeq(msgs, 1, i))}]
           g == [y \in Lists \X (1 .. n) |-> kl_pushp(y[1], msgs[y[2]])]
           Loop(f) == f = [i \in 0 .. n |-> IF i = 0 THEN EmptyList ELSE kl_pushp(f[i - 1], msgs[i])]
           pushed == CHOOSE f : Loop(f)
<1>1. /\ n \in Nat /\ NodeCount \in Nat /\ n < NodeCount
      /\ \A i \in 1 .. n : msgs[i] \in Nat
  BY LenProperties, ElementOfSeq, MessagesAssumption
<1>2. EmptyList \in S[0]
  <2>1. SubSeq(msgs, 1, 0) = <<>>
    BY SubSeqEmpty
  <2>2. EmptyList \in Lists /\ \E p : Linked(EmptyList, p, <<>>)
    BY EmptyLinked, LinkedSizes
  <2>3. 0 \in 0 .. n
    BY <1>1
  <2> QED BY <2>1, <2>2, <2>3
<1>3. ASSUME NEW i \in 1 .. n, NEW x \in S[i - 1] PROVE x \in Lists /\ kl_pushp(x, msgs[i]) \in S[i]
  <2>1. i \in 0 .. n /\ i - 1 \in 0 .. n /\ i - 1 \in Nat /\ i - 1 < n /\ i - 1 + 1 = i /\ msgs[i] \in Nat
    BY <1>1
  <2>2. PICK p : Linked(x, p, SubSeq(msgs, 1, i - 1))
    BY <2>1
  <2>3. Len(SubSeq(msgs, 1, i - 1)) = i - 1
    <3>1. i - 1 \in Int /\ \A j \in 1 .. (i - 1) : msgs[j] \in Nat
      BY <1>1
    <3>2. Len(SubSeq(msgs, 1, i - 1)) = IF 1 <= i - 1 THEN (i - 1) - 1 + 1 ELSE 0
      BY <3>1, SubSeqProperties
    <3> QED BY <2>1, <3>2
  <2>4. Len(p) < NodeCount
    <3>1. Len(p) = Len(SubSeq(msgs, 1, i - 1)) + 1
      BY <2>2, LinkedSizes
    <3> QED BY <1>1, <2>1, <2>3, <3>1
  <2>5. Append(SubSeq(msgs, 1, i - 1), msgs[i]) = SubSeq(msgs, 1, i)
    BY <2>1, OneMore
  <2>6. Linked(kl_pushp(x, msgs[i]), Append(p, Last(x.pool)), SubSeq(msgs, 1, i))
    BY <2>1, <2>2, <2>4, <2>5, PushLinked
  <2>7. kl_pushp(x, msgs[i]) \in Lists
    BY <2>6, LinkedSizes
  <2>8. x \in Lists
    BY <2>1
  <2> QED BY <2>1, <2>6, <2>7, <2>8
<1> HIDE DEF S, n
<1>4. \E f : Loop(f)
  <2>1. \A i \in 1 .. n : \A x \in S[i - 1] : g[<<x, i>>] = kl_pushp(x, msgs[i])
    BY <1>3
  <2> HIDE DEF g
  <2>2. \A i \in 1 .. n : \A x \in S[i - 1] : g[<<x, i>>] \in S[i]
    BY <1>3, <2>1
  <2>3. PICK f : Rounds(f, n, S, EmptyList, g)
    BY <1>1, <1>2, <2>2, RoundsExist
  <2>4. /\ f = [i \in 0 .. n |-> IF i = 0 THEN EmptyList ELSE g[<<f[i - 1], i>>]]
        /\ \A i \in 0 .. n : f[i] \in S[i]
    BY <2>3 DEF Rounds
  <2>5. ASSUME NEW i \in 0 .. n PROVE f[i] = IF i = 0 THEN EmptyList ELSE kl_pushp(f[i - 1], msgs[i])
    <3>1. f[i] = IF i = 0 THEN EmptyList ELSE g[<<f[i - 1], i>>]
      BY <2>4
    <3>2. CASE i = 0
      BY <3>1, <3>2
    <3>3. CASE i # 0
      <4>1. i \in 1 .. n /\ i - 1 \in 0 .. n
        BY <1>1, <3>3
      <4>2. f[i - 1] \in S[i - 1]
        BY <2>4, <4>1
      <4> QED BY <2>1, <3>1, <3>3, <4>1, <4>2
    <3> QED BY <3>2, <3>3
  <2>6. f = [i \in 0 .. n |-> f[i]]
    BY <2>4
  <2> QED BY <2>5, <2>6
<1>5. Loop(pushed)
  <2> HIDE DEF Loop
  <2> QED BY <1>4
<1>6. pushed[n] \in S[n]
  <2> HIDE DEF pushed
  <2>1. pushed[0] = EmptyList
    <3>1. 0 \in 0 .. n
      BY <1>1
    <3> QED BY <1>5, <3>1
  <2>2. \A i \in 1 .. n : pushed[i] = kl_pushp(pushed[i - 1], msgs[i])
    <3>1. \A i \in 1 .. n : i \in 0 .. n /\ i # 0
      BY <1>1
    <3> QED BY <1>5, <3>1
  <2>3. \A i \in 1 .. n : pushed[i - 1] \in S[i - 1] => pushed[i] \in S[i]
    BY <1>3, <2>2
  <2>4. \A i \in 0 .. n : pushed[i] \in S[i]
    BY <1>1, <1>2, <2>1, <2>3, RoundsKeep
  <2> QED BY <1>1, <2>4
<1>7. construct_kl_messages(msgs) = pushed[n]
  BY DEF construct_kl_messages, n
<1>8. SubSeq(msgs, 1, n) = msgs
  BY SubSeqFull DEF n
<1> HIDE DEF pushed
<1>9. n \in 0 .. n
  BY <1>1
<1> QED BY <1>6, <1>7, <1>8, <1>9 DEF S

\* Pushed behind a list of the nodes p, the list begins with p as before, and
\* M2_next is still the node with the number k of p, or the tail.
Extended(r, p, q, vals, k) ==
    /\ Linked(r.list, q, vals) /\ Len(q) >= Len(p) /\ r.m2Next \in Nodes
    /\ \A i \in 1 .. Len(p) : q[i] = p[i]
    /\ r.m2Next = IF k = Len(p) THEN r.list.tail ELSE p[k]

LEMMA PushedBeforeExtends ==
    ASSUME NEW r, NEW p, NEW q, NEW vals, NEW k \in 1 .. Len(p), Len(p) \in Nat, Extended(r, p, q, vals, k),
           Len(q) < NodeCount, NEW v \in Nat
    PROVE  Extended(PushedBefore(r, v), p, Append(q, Last(r.list.pool)), Append(vals, v), k)
<1> DEFINE l == kl_pushp(r.list, v)
           e == Last(r.list.pool)
           q2 == Append(q, e)
           n == Len(q)
           vals2 == Append(vals, v)
<1>1. Linked(r.list, q, vals)
  BY DEF Extended
<1>2. Linked(l, q2, vals2)
  BY <1>1, PushLinked
<1>3. /\ n \in Nat /\ q \in Seq(Nodes) /\ r.list \in Lists /\ vals \in Seq(Nat) /\ n = Len(vals) + 1
      /\ n >= Len(p)
  BY <1>1, LinkedSizes DEF Extended
<1>4. e \in Nodes
  <2>1. r.list.pool \in Seq(Nodes) /\ Len(r.list.pool) \in Nat /\ Len(r.list.pool) >= 1
    BY <1>1, LinkedSizes
  <2>2. Len(r.list.pool) \in 1 .. Len(r.list.pool)
    BY <2>1
  <2> QED BY <2>1, <2>2, ElementOfSeq DEF Last
<1>5. Len(q2) = n + 1 /\ (\A i \in 1 .. n : q2[i] = q[i]) /\ Len(vals2) = n
  BY <1>3, <1>4, AppendProperties
<1>6. r.list.tail = q[n]
  BY <1>1 DEF Linked
<1> HIDE DEF l, q2, e, n, vals2
<1>7. /\ l.tail = q2[n + 1] /\ l.tail \in Nodes /\ OnceEach(q2)
      /\ \A i \in 1 .. n : l.next[q2[i]] = q2[i + 1]
  <2>1. l.tail = q2[n + 1] /\ OnceEach(q2) /\ \A i \in 1 .. n : l.next[q2[i]] = q2[i + 1]
    BY <1>2, <1>5 DEF Linked
  <2>2. l.tail \in Nodes
    BY <1>2, LinkedSizes, ListFields
  <2> QED BY <2>1, <2>2
<1>8. \A i \in 1 .. Len(p) : q2[i] = p[i] /\ i \in 1 .. n
  <2>1. \A i \in 1 .. Len(p) : i \in 1 .. n /\ q[i] = p[i]
    BY <1>3 DEF Extended
  <2> QED BY <1>5, <2>1
<1>9. PushedBefore(r, v) = [list |-> l, m2Next |-> IF l.next[r.m2Next] = l.tail THEN l.tail ELSE r.m2Next]
  BY DEF PushedBefore, l
<1>10. CASE k = Len(p)
  <2>1. r.m2Next = q2[n] /\ n \in 1 .. n
    BY <1>3, <1>5, <1>6, <1>10 DEF Extended
  <2>2. l.next[r.m2Next] = l.tail
    BY <1>7, <2>1
  <2>3. PushedBefore(r, v).list = l /\ PushedBefore(r, v).m2Next = l.tail
    BY <1>9, <2>2
  <2>4. Len(q2) >= Len(p)
    BY <1>3, <1>5
  <2>5. Extended(PushedBefore(r, v), p, q2, vals2, k)
    BY <1>2, <1>7, <1>8, <1>10, <2>3, <2>4 DEF Extended
  <2> QED BY <2>5 DEF q2, e, vals2
<1>11. CASE k # Len(p)
  <2>1. k \in 1 .. n /\ k + 1 \in 1 .. n /\ k + 1 \in 1 .. (n + 1) /\ n + 1 \in 1 .. (n + 1) /\ k + 1 # n + 1
    BY <1>3, <1>11
  <2>2. r.m2Next = p[k] /\ p[k] = q2[k] /\ r.m2Next \in Nodes
    BY <1>8, <1>11 DEF Extended
  <2>3. l.next[r.m2Next] = q2[k + 1] /\ q2[k + 1] # l.tail
    BY <1>5, <1>7, <2>1, <2>2 DEF OnceEach
  <2>4. PushedBefore(r, v).list = l /\ PushedBefore(r, v).m2Next = p[k]
    BY <1>9, <2>2, <2>3
  <2>5. Len(q2) >= Len(p)
    BY <1>3, <1>5
  <2>6. Extended(PushedBefore(r, v), p, q2, vals2, k)
    BY <1>2, <1>8, <1>11, <2>2, <2>4, <2>5 DEF Extended
  <2> QED BY <2>6 DEF q2, e, vals2
<1> QED BY <1>10, <1>11

LEMMA PushedAllExtends ==
    ASSUME NEW l, NEW p, NEW vals, Linked(l, p, vals), NEW k \in 1 .. Len(p), NEW msgs \in Seq(Nat),
           Len(p) + Len(msgs) <= NodeCount
    PROVE  \E q : Extended(PushedAll(l, p[k], msgs), p, q, vals \o msgs, k)
<1> DEFINE n == Len(msgs)
           Vals(i) == vals \o SubSeq(msgs, 1, i)
           Rs == [list : Lists, m2Next : Nodes]
           S == [i \in 0 .. n |-> {r \in Rs : \E q : Extended(r, p, q, Vals(i), k)}]
           base == [list |-> l, m2Next |-> p[k]]
           g == [y \in Rs \X (1 .. n) |-> PushedBefore(y[1], msgs[y[2]])]
           Loop(f) == f = [i \in 0 .. n |-> IF i = 0 THEN base ELSE PushedBefore(f[i - 1], msgs[i])]
           pushed == CHOOSE f : Loop(f)
<1>1. /\ n \in Nat /\ NodeCount \in Nat /\ Len(p) \in Nat /\ Len(p) + n <= NodeCount
      /\ vals \in Seq(Nat) /\ Len(vals) + 1 = Len(p) /\ Len(vals) \in Nat
      /\ \A i \in 1 .. n : msgs[i] \in Nat
  BY LinkedSizes, LenProperties, ElementOfSeq
<1>2. base \in S[0]
  <2>1. Vals(0) = vals
    BY <1>1, SubSeqEmpty, ConcatEmptySeq
  <2>2. l \in Lists /\ p[k] \in Nodes
    BY LinkedSizes
  <2>3. base \in Rs /\ base.list = l /\ base.m2Next = p[k] /\ base.m2Next \in Nodes
    BY <2>2
  <2>4. l.tail = p[Len(p)]
    BY DEF Linked
  <2>5. p[k] = IF k = Len(p) THEN l.tail ELSE p[k]
    BY <2>4
  <2>6. 0 \in 0 .. n /\ Len(p) >= Len(p)
    BY <1>1
  <2> HIDE DEF base
  <2>7. Extended(base, p, p, vals, k)
    BY <2>3, <2>5, <2>6 DEF Extended
  <2> QED BY <2>1, <2>3, <2>6, <2>7
<1>3. ASSUME NEW i \in 1 .. n, NEW r \in S[i - 1] PROVE r \in Rs /\ PushedBefore(r, msgs[i]) \in S[i]
  <2>1. i \in 0 .. n /\ i - 1 \in 0 .. n /\ i - 1 \in Nat /\ i - 1 < n /\ i - 1 + 1 = i /\ msgs[i] \in Nat
    BY <1>1
  <2>2. r \in Rs
    BY <2>1
  <2>3. PICK q : Extended(r, p, q, Vals(i - 1), k)
    BY <2>1
  <2>4. SubSeq(msgs, 1, i - 1) \in Seq(Nat) /\ Len(SubSeq(msgs, 1, i - 1)) = i - 1
    <3>1. i - 1 \in Int /\ \A j \in 1 .. (i - 1) : msgs[j] \in Nat
      BY <1>1
    <3>2. /\ SubSeq(msgs, 1, i - 1) \in Seq(Nat)
          /\ Len(SubSeq(msgs, 1, i - 1)) = IF 1 <= i - 1 THEN (i - 1) - 1 + 1 ELSE 0
      BY <3>1, SubSeqProperties
    <3> QED BY <2>1, <3>2
  <2>5. Len(Vals(i - 1)) = Len(vals) + (i - 1)
    BY <1>1, <2>4, ConcatProperties
  <2>6. Append(Vals(i - 1), msgs[i]) = Vals(i)
    <3>1. Append(SubSeq(msgs, 1, i - 1), msgs[i]) = SubSeq(msgs, 1, i)
      BY <2>1, OneMore
    <3>2. Append(vals \o SubSeq(msgs, 1, i - 1), msgs[i]) = vals \o Append(SubSeq(msgs, 1, i - 1), msgs[i])
      <4>1. vals \in Seq(Nat) /\ SubSeq(msgs, 1, i - 1) \in Seq(Nat) /\ msgs[i] \in Nat
        BY <1>1, <2>1, <2>4
      <4> QED BY <4>1, AppendedValue
    <3> QED BY <3>1, <3>2
  <2> HIDE DEF Vals
  <2>7. Linked(r.list, q, Vals(i - 1))
    BY <2>3 DEF Extended
  <2>8. Len(q) < NodeCount
    <3>1. Len(q) = Len(Vals(i - 1)) + 1
      BY <2>7, LinkedSizes
    <3> QED BY <1>1, <2>1, <2>5, <3>1
  <2>9. PICK q2 : Extended(PushedBefore(r, msgs[i]), p, q2, Vals(i), k)
    BY <1>1, <2>1, <2>3, <2>6, <2>8, PushedBeforeExtends
  <2>10. PushedBefore(r, msgs[i]) \in Rs
    <3>1. PushedBefore(r, msgs[i]).list \in Lists /\ PushedBefore(r, msgs[i]).m2Next \in Nodes
      BY <2>9, LinkedSizes DEF Extended
    <3>2. PushedBefore(r, msgs[i])
          = [list |-> PushedBefore(r, msgs[i]).list, m2Next |-> PushedBefore(r, msgs[i]).m2Next]
      BY DEF PushedBefore
    <3> DEFINE s == PushedBefore(r, msgs[i])
    <3> HIDE DEF s
    <3> QED BY <3>1, <3>2
  <2> QED BY <2>1, <2>2, <2>9, <2>10
<1> HIDE DEF S, n, base
<1>4. \E f : Loop(f)
  <2>1. \A i \in 1 .. n : \A r \in S[i - 1] : g[<<r, i>>] = PushedBefore(r, msgs[i])
    <3> HIDE DEF Rs
    <3> QED BY <1>3
  <2> HIDE DEF g
  <2>2. \A i \in 1 .. n : \A r \in S[i - 1] : g[<<r, i>>] \in S[i]
    BY <1>3, <2>1
  <2>3. PICK f : Rounds(f, n, S, base, g)
    BY <1>1, <1>2, <2>2, RoundsExist
  <2>4. /\ f = [i \in 0 .. n |-> IF i = 0 THEN base ELSE g[<<f[i - 1], i>>]]
        /\ \A i \in 0 .. n : f[i] \in S[i]
    BY <2>3 DEF Rounds
  <2>5. ASSUME NEW i \in 0 .. n PROVE f[i] = IF i = 0 THEN base ELSE PushedBefore(f[i - 1], msgs[i])
    <3>1. f[i] = IF i = 0 THEN base ELSE g[<<f[i - 1], i>>]
      BY <2>4
    <3>2. CASE i = 0
      BY <3>1, <3>2
    <3>3. CASE i # 0
      <4>1. i \in 1 .. n /\ i - 1 \in 0 .. n
        BY <1>1, <3>3
      <4>2. f[i - 1] \in S[i - 1]
        BY <2>4, <4>1
      <4> QED BY <2>1, <3>1, <3>3, <4>1, <4>2
    <3> QED BY <3>2, <3>3
  <2>6. f = [i \in 0 .. n |-> f[i]]
    BY <2>4
  <2> QED BY <2>5, <2>6
<1>5. Loop(pushed)
  <2> HIDE DEF Loop
  <2> QED BY <1>4
<1>6. pushed[n] \in S[n]
  <2> HIDE DEF pushed
  <2>1. pushed[0] = base
    <3>1. 0 \in 0 .. n
      BY <1>1
    <3> QED BY <1>5, <3>1
  <2>2. \A i \in 1 .. n : pushed[i] = PushedBefore(pushed[i - 1], msgs[i])
    <3>1. \A i \in 1 .. n : i \in 0 .. n /\ i # 0
      BY <1>1
    <3> QED BY <1>5, <3>1
  <2>3. \A i \in 1 .. n : pushed[i - 1] \in S[i - 1] => pushed[i] \in S[i]
    BY <1>3, <2>2
  <2>4. \A i \in 0 .. n : pushed[i] \in S[i]
    BY <1>1, <1>2, <2>1, <2>3, RoundsKeep
  <2> QED BY <1>1, <2>4
<1>7. PushedAll(l, p[k], msgs) = pushed[n]
  BY DEF PushedAll, n, base
<1>8. SubSeq(msgs, 1, n) = msgs
  BY SubSeqFull DEF n
<1> HIDE DEF pushed
<1>9. n \in 0 .. n
  BY <1>1
<1> QED BY <1>6, <1>7, <1>8, <1>9 DEF S

----------------------------------------------------------------------------
(* Splicing *)

\* How n + 1 of z nodes become a list of their own, when f says which node is
\* linked behind which: m are their numbers in their new order, w those of the
\* b other nodes.
NodeOrder(n, b, z, m, f, w) ==
    /\ n \in Nat /\ b \in Nat /\ z \in Nat /\ n + 1 + b = z
    /\ m \in [1 .. (n + 1) -> 1 .. z] /\ m[n + 1] = z
    /\ \A i \in 1 .. n : m[i] \in 1 .. (z - 1) /\ f[m[i]] = m[i + 1]
    /\ \A i, j \in 1 .. (n + 1) : m[i] = m[j] => i = j
    /\ w \in [1 .. b -> 1 .. z] /\ \A i, j \in 1 .. b : w[i] = w[j] => i = j
    /\ \A i \in 1 .. (n + 1), j \in 1 .. b : m[i] # w[j]

\* l2 is the list l of the nodes q linked so, with the other nodes in its pool.
Relinked(n, b, z, m, f, w, l, q, vals, l2, vals2, old) ==
    /\ Linked(l, q, vals) /\ Len(vals) = z - 1
    /\ vals2 \in Seq(Nat) /\ Len(vals2) = n
    /\ \A i \in 1 .. n : vals2[i] = vals[m[i]]
    /\ l2 \in Lists /\ l2.tail = l.tail /\ l2.val = l.val /\ l2.next[l.tail] = NoNode
    /\ l2.head = q[m[1]] /\ l2.size = n
    /\ \A j \in 1 .. (z - 1) : l2.next[q[j]] = q[f[j]]
    /\ old \in Seq(Nodes) /\ Len(old) = b /\ l2.pool = l.pool \o old
    /\ \A i \in 1 .. b : old[i] = q[w[i]]

LEMMA RelinkedIsLinked ==
    ASSUME NEW n, NEW b, NEW z, NEW m, NEW f, NEW w, NodeOrder(n, b, z, m, f, w),
           NEW l, NEW q, NEW vals, NEW l2, NEW vals2, NEW old,
           Relinked(n, b, z, m, f, w, l, q, vals, l2, vals2, old)
    PROVE  Linked(l2, [i \in 1 .. (n + 1) |-> q[m[i]]], vals2)
<1> DEFINE p2 == [i \in 1 .. (n + 1) |-> q[m[i]]]
           s == Len(l.pool)
<1>0. /\ Linked(l, q, vals) /\ Len(vals) = z - 1
      /\ vals2 \in Seq(Nat) /\ Len(vals2) = n
      /\ l2 \in Lists /\ l2.tail = l.tail /\ l2.val = l.val /\ l2.next[l.tail] = NoNode
      /\ l2.head = q[m[1]] /\ l2.size = n
      /\ old \in Seq(Nodes) /\ Len(old) = b /\ l2.pool = l.pool \o old
  BY DEF Relinked
<1>1. /\ n \in Nat /\ b \in Nat /\ z \in Nat /\ n + 1 + b = z
      /\ \A i \in 1 .. n : m[i] \in 1 .. (z - 1) /\ f[m[i]] = m[i + 1]
      /\ \A i \in 1 .. (n + 1) : m[i] \in 1 .. z
      /\ \A i, j \in 1 .. (n + 1) : m[i] = m[j] => i = j
      /\ \A j \in 1 .. b : w[j] \in 1 .. z
      /\ \A i, j \in 1 .. b : w[i] = w[j] => i = j
      /\ \A i \in 1 .. (n + 1), j \in 1 .. b : m[i] # w[j]
      /\ m[n + 1] = z
  BY DEF NodeOrder
<1>2. /\ s \in Nat /\ l \in Lists /\ q \in Seq(Nodes) /\ l.pool \in Seq(Nodes)
      /\ Len(q) = z /\ s + z = NodeCount /\ NodeCount \in Nat
  <2>1. /\ s \in Nat /\ l \in Lists /\ q \in Seq(Nodes) /\ l.pool \in Seq(Nodes) /\ NodeCount \in Nat
        /\ Len(q) = Len(vals) + 1 /\ s + Len(q) = NodeCount
    BY <1>0, LinkedSizes
  <2> HIDE DEF s
  <2> QED BY <1>0, <1>1, <2>1
<1>3. /\ \A i, j \in 1 .. z : q[i] = q[j] => i = j
      /\ \A i, j \in 1 .. s : l.pool[i] = l.pool[j] => i = j
      /\ \A i \in 1 .. z, j \in 1 .. s : q[i] # l.pool[j]
      /\ \A i \in 1 .. (z - 1) : l.val[q[i]] = vals[i]
      /\ l.tail = q[z]
  BY <1>0, <1>2 DEF Linked, OnceEach
<1>4. \A i \in 1 .. z : q[i] \in Nodes
  BY <1>2, ElementOfSeq
<1>5. /\ \A i \in 1 .. n : vals2[i] = vals[m[i]]
      /\ \A j \in 1 .. (z - 1) : l2.next[q[j]] = q[f[j]]
      /\ \A i \in 1 .. b : old[i] = q[w[i]]
  BY DEF Relinked
<1> DEFINE pool == l.pool
           pool2 == l2.pool
<1>6. /\ Len(pool2) = s + b /\ pool2 \in Seq(Nodes)
      /\ \A j \in 1 .. s : pool2[j] = pool[j]
      /\ \A j \in 1 .. b : pool2[s + j] = old[j]
  <2>1. pool \in Seq(Nodes) /\ old \in Seq(Nodes) /\ Len(pool) = s /\ Len(old) = b /\ pool2 = pool \o old
    BY <1>0, <1>2
  <2> HIDE DEF pool, pool2, s
  <2>2. Len(pool \o old) = s + b /\ pool \o old \in Seq(Nodes)
    BY <2>1, ConcatProperties
  <2>3. \A j \in 1 .. (s + b) : (pool \o old)[j] = IF j <= s THEN pool[j] ELSE old[j - s]
    BY <2>1, ConcatProperties
  <2>4. \A j \in 1 .. b : s + j \in 1 .. (s + b) /\ ~(s + j <= s) /\ (s + j) - s = j
    BY <1>1, <1>2
  <2>5. \A j \in 1 .. s : j \in 1 .. (s + b) /\ j <= s
    BY <1>1, <1>2
  <2> QED BY <2>1, <2>2, <2>3, <2>4, <2>5
<1>7. /\ \A i, j \in 1 .. s : pool[i] = pool[j] => i = j
      /\ \A i \in 1 .. z, j \in 1 .. s : q[i] # pool[j]
  BY <1>3
<1> HIDE DEF s, pool, pool2
<1>8. p2 \in Seq(Nodes) /\ Len(p2) = n + 1 /\ \A i \in 1 .. (n + 1) : p2[i] = q[m[i]]
  <2>1. p2 \in [1 .. (n + 1) -> Nodes]
    BY <1>1, <1>4
  <2> QED BY <1>1, <2>1
<1> HIDE DEF p2
<1>9. OnceEach(p2)
  <2> SUFFICES ASSUME NEW i \in 1 .. (n + 1), NEW j \in 1 .. (n + 1), p2[i] = p2[j] PROVE i = j
    BY <1>8 DEF OnceEach
  <2>1. q[m[i]] = q[m[j]] /\ m[i] \in 1 .. z /\ m[j] \in 1 .. z
    BY <1>1, <1>8
  <2>2. m[i] = m[j]
    BY <1>3, <2>1
  <2> QED BY <1>1, <2>2
<1>10. ASSUME NEW j \in 1 .. (s + b)
       PROVE  (j \in 1 .. s /\ pool2[j] = pool[j])
              \/ (j - s \in 1 .. b /\ pool2[j] = q[w[j - s]] /\ w[j - s] \in 1 .. z)
  <2>1. CASE j <= s
    BY <1>1, <1>2, <1>6, <2>1
  <2>2. CASE j > s
    <3>1. j - s \in 1 .. b /\ s + (j - s) = j
      BY <1>1, <1>2, <2>2
    <3>2. w[j - s] \in 1 .. z /\ old[j - s] = q[w[j - s]]
      BY <1>1, <1>5, <3>1
    <3>3. pool2[s + (j - s)] = old[j - s]
      BY <1>6, <3>1
    <3>4. pool2[j] = old[j - s]
      BY <3>1, <3>3
    <3> QED BY <3>1, <3>2, <3>4
  <2>3. j <= s \/ j > s
    BY <1>1, <1>2
  <2> QED BY <2>1, <2>2, <2>3
<1>11. OnceEach(pool2)
  <2> SUFFICES ASSUME NEW i \in 1 .. (s + b), NEW j \in 1 .. (s + b), pool2[i] = pool2[j] PROVE i = j
    BY <1>6 DEF OnceEach
  <2>0. \/ j \in 1 .. s /\ pool2[j] = pool[j]
        \/ j - s \in 1 .. b /\ pool2[j] = q[w[j - s]] /\ w[j - s] \in 1 .. z
    BY <1>10
  <2>1. CASE i \in 1 .. s /\ pool2[i] = pool[i]
    BY <1>7, <2>0, <2>1
  <2>2. CASE i - s \in 1 .. b /\ pool2[i] = q[w[i - s]] /\ w[i - s] \in 1 .. z
    <3>1. j - s \in 1 .. b /\ pool2[j] = q[w[j - s]] /\ w[j - s] \in 1 .. z
      BY <1>7, <2>0, <2>2
    <3>2. w[i - s] = w[j - s]
      BY <1>3, <2>2, <3>1
    <3>3. i - s = j - s
      BY <1>1, <2>2, <3>1, <3>2
    <3> QED BY <1>2, <3>3
  <2> QED BY <1>10, <2>1, <2>2
<1>12. \A i \in 1 .. (n + 1), j \in 1 .. (s + b) : p2[i] # pool2[j]
  <2> SUFFICES ASSUME NEW i \in 1 .. (n + 1), NEW j \in 1 .. (s + b) PROVE p2[i] # pool2[j]
    OBVIOUS
  <2>1. p2[i] = q[m[i]] /\ m[i] \in 1 .. z /\ \A h \in 1 .. b : m[i] # w[h]
    BY <1>1, <1>8
  <2>2. CASE j \in 1 .. s /\ pool2[j] = pool[j]
    BY <1>7, <2>1, <2>2
  <2>3. CASE j - s \in 1 .. b /\ pool2[j] = q[w[j - s]] /\ w[j - s] \in 1 .. z
    BY <1>3, <2>1, <2>3
  <2> QED BY <1>10, <2>2, <2>3
<1>13. \A i \in 1 .. n : l2.next[p2[i]] = p2[i + 1] /\ l2.val[p2[i]] = vals2[i]
  <2> SUFFICES ASSUME NEW i \in 1 .. n PROVE l2.next[p2[i]] = p2[i + 1] /\ l2.val[p2[i]] = vals2[i]
    OBVIOUS
  <2>1. i \in 1 .. (n + 1) /\ i + 1 \in 1 .. (n + 1) /\ m[i] \in 1 .. (z - 1) /\ f[m[i]] = m[i + 1]
    BY <1>1
  <2>2. p2[i] = q[m[i]] /\ p2[i + 1] = q[m[i + 1]]
    BY <1>8, <2>1
  <2>3. l2.next[q[m[i]]] = q[f[m[i]]]
    BY <1>5, <2>1
  <2>4. l.val[q[m[i]]] = vals[m[i]] /\ vals2[i] = vals[m[i]]
    BY <1>3, <1>5, <2>1
  <2>5. l2.val = l.val
    BY <1>0
  <2> QED BY <2>1, <2>2, <2>3, <2>4, <2>5
<1>14. l2.head = p2[1] /\ l2.tail = p2[Len(p2)] /\ Len(pool2) + Len(p2) = NodeCount
  <2>1. 1 \in 1 .. (n + 1) /\ n + 1 \in 1 .. (n + 1)
    BY <1>1
  <2>2. p2[1] = q[m[1]] /\ p2[n + 1] = q[z]
    BY <1>1, <1>8, <2>1
  <2>3. Len(pool2) + Len(p2) = NodeCount
    BY <1>1, <1>2, <1>6, <1>8
  <2> QED BY <1>0, <1>3, <1>8, <2>2, <2>3
<1>15. Linked(l2, p2, vals2)
  <2>1. l2.next[l2.tail] = NoNode /\ Len(p2) = Len(vals2) + 1 /\ l2.size = Len(vals2)
    BY <1>0, <1>8
  <2>2. pool2 = l2.pool
    BY DEF pool2
  <2> QED BY <1>0, <1>6, <1>8, <1>9, <1>11, <1>12, <1>13, <1>14, <2>1, <2>2 DEF Linked
<1> QED BY <1>15 DEF p2

\* In a list of a messages of M1, b of the old M2, c of M3 and k of the new M2
\* at its end: the number of the node that the code links behind each node, and
\* the numbers of the nodes when the new M2 is between M1 and M3.
Follows(a, b, c, k) ==
    [j \in 1 .. (a + b + c + k) |->
        IF j = a + b + c THEN a + b + c + k + 1
        ELSE IF j = a + b + c + k THEN IF c = 0 THEN a + b + c + k + 1 ELSE a + b + 1
        ELSE IF j = a THEN a + b + c + 1 ELSE j + 1]

Moved(a, b, c, k) ==
    [i \in 1 .. (a + k + c + 1) |->
        IF i <= a THEN i ELSE IF i <= a + k THEN b + c + i ELSE IF i <= a + k + c THEN i - k + b ELSE i + b]

LEMMA MovedInOrder ==
    ASSUME NEW a \in Nat, NEW b \in Nat, NEW c \in Nat, NEW k \in Nat, b >= 1, k >= 1
    PROVE  NodeOrder(a + k + c, b, a + b + c + k + 1, Moved(a, b, c, k), Follows(a, b, c, k), [i \in 1 .. b |-> a + i])
<1> DEFINE n == a + k + c
           z == a + b + c + k + 1
           m == Moved(a, b, c, k)
           f == Follows(a, b, c, k)
           w == [i \in 1 .. b |-> a + i]
<1>1. n \in Nat /\ z \in Nat /\ n + 1 + b = z /\ n + 1 = a + k + c + 1 /\ z - 1 = a + b + c + k
  OBVIOUS
<1>2. /\ DOMAIN m = 1 .. (n + 1)
      /\ m = [i \in 1 .. (n + 1) |-> m[i]]
      /\ \A i \in 1 .. (n + 1) :
            m[i] = IF i <= a THEN i ELSE IF i <= a + k THEN b + c + i ELSE IF i <= a + k + c THEN i - k + b ELSE i + b
  BY DEF Moved
<1>3. \A j \in 1 .. (z - 1) :
        f[j] = IF j = a + b + c THEN z
               ELSE IF j = a + b + c + k THEN IF c = 0 THEN z ELSE a + b + 1
               ELSE IF j = a THEN a + b + c + 1 ELSE j + 1
  BY <1>1 DEF Follows
<1>4. \A i \in 1 .. b : w[i] = a + i
  OBVIOUS
<1>5. w \in [1 .. b -> 1 .. z] /\ \A i, j \in 1 .. b : w[i] = w[j] => i = j
  OBVIOUS
<1> HIDE DEF m, f, w
<1>6. \A i \in 1 .. (n + 1) : m[i] \in 1 .. z
  <2> SUFFICES ASSUME NEW i \in 1 .. (n + 1) PROVE m[i] \in 1 .. z
    OBVIOUS
  <2>1. m[i] = IF i <= a THEN i ELSE IF i <= a + k THEN b + c + i ELSE IF i <= a + k + c THEN i - k + b ELSE i + b
    BY <1>2
  <2>2. CASE i <= a
    BY <2>1, <2>2
  <2>3. CASE i > a /\ i <= a + k
    BY <2>1, <2>3
  <2>4. CASE i > a + k /\ i <= a + k + c
    BY <2>1, <2>4
  <2>5. CASE i > a + k + c
    BY <2>1, <2>5
  <2> QED BY <2>2, <2>3, <2>4, <2>5
<1>7. \A i \in 1 .. n : m[i] \in 1 .. (z - 1) /\ f[m[i]] = m[i + 1]
  <2> SUFFICES ASSUME NEW i \in 1 .. n PROVE m[i] \in 1 .. (z - 1) /\ f[m[i]] = m[i + 1]
    OBVIOUS
  <2>1. i \in 1 .. (n + 1) /\ i + 1 \in 1 .. (n + 1)
    OBVIOUS
  <2>2. /\ m[i] = IF i <= a THEN i ELSE IF i <= a + k THEN b + c + i ELSE i - k + b
        /\ m[i + 1] = IF i + 1 <= a THEN i + 1 ELSE IF i + 1 <= a + k THEN b + c + i + 1
                      ELSE IF i + 1 <= a + k + c THEN i + 1 - k + b ELSE i + 1 + b
    <3>1. PICK h \in 1 .. (n + 1) : h = i + 1
      BY <2>1
    <3>2. /\ m[i] = IF i <= a THEN i ELSE IF i <= a + k THEN b + c + i
                     ELSE IF i <= a + k + c THEN i - k + b ELSE i + b
          /\ m[h] = IF h <= a THEN h ELSE IF h <= a + k THEN b + c + h
                     ELSE IF h <= a + k + c THEN h - k + b ELSE h + b
      BY <1>2, <2>1
    <3> QED BY <3>1, <3>2
  <2>3. m[i] \in 1 .. (z - 1)
    BY <2>2
  <2>4. PICK j \in 1 .. (z - 1) : j = m[i]
    BY <2>3
  <2>5. f[j] = IF j = a + b + c THEN z
               ELSE IF j = a + b + c + k THEN IF c = 0 THEN z ELSE a + b + 1
               ELSE IF j = a THEN a + b + c + 1 ELSE j + 1
    BY <1>3
  <2>6. f[j] = m[i + 1]
    BY <2>2, <2>4, <2>5
  <2> QED BY <2>3, <2>4, <2>6
<1>8. \A i, j \in 1 .. (n + 1) : m[i] = m[j] => i = j
  <2> SUFFICES ASSUME NEW i \in 1 .. (n + 1), NEW j \in 1 .. (n + 1), m[i] = m[j] PROVE i = j
    OBVIOUS
  <2>1. PICK x \in 1 .. z : x = m[i] /\ x = m[j]
    BY <1>6
  <2>2. /\ x = IF i <= a THEN i ELSE IF i <= a + k THEN b + c + i ELSE IF i <= a + k + c THEN i - k + b ELSE i + b
        /\ x = IF j <= a THEN j ELSE IF j <= a + k THEN b + c + j ELSE IF j <= a + k + c THEN j - k + b ELSE j + b
    BY <1>2, <2>1
  <2> HIDE DEF z
  <2> QED BY <2>2
<1>9. \A i \in 1 .. (n + 1), j \in 1 .. b : m[i] # w[j]
  <2> SUFFICES ASSUME NEW i \in 1 .. (n + 1), NEW j \in 1 .. b PROVE m[i] # w[j]
    OBVIOUS
  <2>1. /\ m[i] = IF i <= a THEN i ELSE IF i <= a + k THEN b + c + i ELSE IF i <= a + k + c THEN i - k + b ELSE i + b
        /\ w[j] = a + j
    BY <1>2, <1>4
  <2> QED BY <2>1
<1>10. m[n + 1] = z
  <2>1. n + 1 \in 1 .. (n + 1) /\ ~(n + 1 <= a) /\ ~(n + 1 <= a + k) /\ ~(n + 1 <= a + k + c) /\ n + 1 + b = z
    OBVIOUS
  <2>2. m[n + 1] = n + 1 + b
    <3> HIDE DEF n
    <3> QED BY <1>2, <2>1
  <2> QED BY <2>1, <2>2
<1>11. m \in [1 .. (n + 1) -> 1 .. z]
  BY <1>2, <1>6
<1> HIDE DEF n, z
<1>12. NodeOrder(n, b, z, m, f, w)
  BY <1>1, <1>5, <1>7, <1>8, <1>9, <1>10, <1>11 DEF NodeOrder
<1> QED BY <1>12 DEF n, z, m, f, w

LEMMA LastMessageIs ==
    ASSUME NEW l, NEW p, NEW vals, Linked(l, p, vals), Len(vals) >= 1
    PROVE  get_last_message(l) = p[Len(vals)]
<1>1. Chain(l, l.head, l.tail) = SubSeq(p, 1, Len(vals))
  BY ContentsAre
<1>2. p \in Seq(Nodes) /\ Len(vals) \in Nat /\ Len(p) = Len(vals) + 1 /\ \A i \in 1 .. Len(p) : p[i] \in Nodes
  BY LinkedSizes
<1> DEFINE n == Len(vals)
<1>3. n \in Int /\ 1 <= n /\ \A i \in 1 .. n : p[i] \in Nodes
  BY <1>2
<1> HIDE DEF n
<1>4. /\ Len(SubSeq(p, 1, n)) = IF 1 <= n THEN n - 1 + 1 ELSE 0
      /\ \A i \in 1 .. n - 1 + 1 : SubSeq(p, 1, n)[i] = p[1 + i - 1]
  BY <1>3, SubSeqProperties
<1>5. Last(SubSeq(p, 1, n)) = p[n]
  BY <1>3, <1>4 DEF Last
<1> QED BY <1>1, <1>5 DEF get_last_message, n

\* The messages of three parts, by their numbers.
LEMMA ThreeParts ==
    ASSUME NEW x \in Seq(Nat), NEW y \in Seq(Nat), NEW z \in Seq(Nat)
    PROVE  /\ x \o y \o z \in Seq(Nat) /\ Len(x) \in Nat /\ Len(y) \in Nat /\ Len(z) \in Nat
           /\ Len(x \o y \o z) = Len(x) + Len(y) + Len(z)
           /\ \A i \in 1 .. Len(x) : (x \o y \o z)[i] = x[i]
           /\ \A i \in 1 .. Len(y) : (x \o y \o z)[Len(x) + i] = y[i]
           /\ \A i \in 1 .. Len(z) : (x \o y \o z)[Len(x) + Len(y) + i] = z[i]
<1> DEFINE a == Len(x)
           b == Len(y)
           c == Len(z)
           u == x \o y
           v == u \o z
<1>1. a \in Nat /\ b \in Nat /\ c \in Nat
  BY LenProperties
<1>2. u \in Seq(Nat) /\ Len(u) = a + b
  BY ConcatProperties
<1>3. \A i \in 1 .. (a + b) : u[i] = IF i <= a THEN x[i] ELSE y[i - a]
  BY ConcatProperties
<1> HIDE DEF u, a, b, c
<1>4. v \in Seq(Nat) /\ Len(v) = a + b + c
  BY <1>2, ConcatProperties DEF c
<1>5. \A i \in 1 .. (a + b + c) : v[i] = IF i <= a + b THEN u[i] ELSE z[i - (a + b)]
  <2>1. \A i \in 1 .. (Len(u) + Len(z)) : v[i] = IF i <= Len(u) THEN u[i] ELSE z[i - Len(u)]
    BY <1>2, ConcatProperties
  <2> HIDE DEF v
  <2> QED BY <1>2, <2>1 DEF c
<1> HIDE DEF v
<1>6. \A i \in 1 .. a : v[i] = x[i]
  <2> SUFFICES ASSUME NEW i \in 1 .. a PROVE v[i] = x[i]
    OBVIOUS
  <2>1. i \in 1 .. (a + b) /\ i \in 1 .. (a + b + c) /\ i <= a /\ i <= a + b
    BY <1>1
  <2> QED BY <1>3, <1>5, <2>1
<1>7. \A i \in 1 .. b : v[a + i] = y[i]
  <2> SUFFICES ASSUME NEW i \in 1 .. b PROVE v[a + i] = y[i]
    OBVIOUS
  <2>1. /\ a + i \in 1 .. (a + b) /\ a + i \in 1 .. (a + b + c) /\ ~(a + i <= a) /\ a + i <= a + b
        /\ (a + i) - a = i
    BY <1>1
  <2>2. v[a + i] = u[a + i]
    BY <1>5, <2>1
  <2>3. u[a + i] = y[(a + i) - a]
    BY <1>3, <2>1
  <2> QED BY <2>1, <2>2, <2>3
<1>8. \A i \in 1 .. c : v[a + b + i] = z[i]
  <2> SUFFICES ASSUME NEW i \in 1 .. c PROVE v[a + b + i] = z[i]
    OBVIOUS
  <2>1. a + b + i \in 1 .. (a + b + c) /\ ~(a + b + i <= a + b) /\ (a + b + i) - (a + b) = i
    BY <1>1
  <2>2. v[a + b + i] = z[(a + b + i) - (a + b)]
    BY <1>5, <2>1
  <2> QED BY <2>1, <2>2
<1> QED BY <1>1, <1>4, <1>6, <1>7, <1>8 DEF v, u, a, b, c

\* The new messages take the place of the old.
Replaces(x1, x2, x3, msgs) ==
    LET m == Moved(Len(x1), Len(x2), Len(x3), Len(msgs))
    IN \A i \in 1 .. (Len(x1) + Len(msgs) + Len(x3)) :
          (x1 \o msgs \o x3)[i] = (x1 \o x2 \o x3 \o msgs)[m[i]]

LEMMA MovedValues ==
    ASSUME NEW x1 \in Seq(Nat), NEW x2 \in Seq(Nat), NEW x3 \in Seq(Nat), NEW msgs \in Seq(Nat)
    PROVE  Replaces(x1, x2, x3, msgs)
<1> DEFINE a == Len(x1)
           b == Len(x2)
           c == Len(x3)
           k == Len(msgs)
           u == x1 \o x2 \o x3
           x == u \o msgs
           v == x1 \o msgs \o x3
           m == Moved(a, b, c, k)
<1>1. /\ a \in Nat /\ b \in Nat /\ c \in Nat /\ k \in Nat
      /\ u \in Seq(Nat) /\ Len(u) = a + b + c
      /\ \A i \in 1 .. a : u[i] = x1[i]
      /\ \A i \in 1 .. c : u[a + b + i] = x3[i]
  <2>1. k \in Nat
    BY LenProperties
  <2> QED BY <2>1, ThreeParts
<1>2. /\ \A i \in 1 .. a : v[i] = x1[i]
      /\ \A i \in 1 .. k : v[a + i] = msgs[i]
      /\ \A i \in 1 .. c : v[a + k + i] = x3[i]
  BY ThreeParts
<1> HIDE DEF u, v, a, b, c, k
<1>3. \A i \in 1 .. (a + b + c + k) : x[i] = IF i <= a + b + c THEN u[i] ELSE msgs[i - (a + b + c)]
  <2>1. \A i \in 1 .. (Len(u) + Len(msgs)) : x[i] = IF i <= Len(u) THEN u[i] ELSE msgs[i - Len(u)]
    BY <1>1, ConcatProperties
  <2> HIDE DEF x
  <2> QED BY <1>1, <2>1 DEF k
<1> HIDE DEF x
<1>4. \A i \in 1 .. (a + k + c) :
         m[i] = IF i <= a THEN i ELSE IF i <= a + k THEN b + c + i ELSE i - k + b
  <2> SUFFICES ASSUME NEW i \in 1 .. (a + k + c)
               PROVE  m[i] = IF i <= a THEN i ELSE IF i <= a + k THEN b + c + i ELSE i - k + b
    OBVIOUS
  <2>1. i \in 1 .. (a + k + c + 1) /\ i <= a + k + c
    BY <1>1
  <2> QED BY <1>1, <2>1 DEF Moved
<1> HIDE DEF m
<1>5. ASSUME NEW i \in 1 .. (a + k + c) PROVE v[i] = x[m[i]]
  <2>1. CASE i <= a
    <3>1. i \in 1 .. a /\ i \in 1 .. (a + b + c + k) /\ i <= a + b + c
      BY <1>1, <2>1
    <3>2. m[i] = i
      BY <1>4, <2>1
    <3>3. x[i] = u[i]
      BY <1>3, <3>1
    <3>4. u[i] = x1[i] /\ v[i] = x1[i]
      BY <1>1, <1>2, <3>1
    <3> QED BY <3>2, <3>3, <3>4
  <2>2. CASE i > a /\ i <= a + k
    <3>1. PICK j \in 1 .. k : i = a + j
      <4>1. i - a \in 1 .. k /\ i = a + (i - a)
        BY <1>1, <2>2
      <4> QED BY <4>1
    <3>2. PICK h \in 1 .. (a + b + c + k) : h = b + c + i /\ ~(h <= a + b + c) /\ h - (a + b + c) = j
      BY <1>1, <3>1
    <3>3. m[i] = h
      BY <1>1, <1>4, <2>2, <3>2
    <3>4. x[h] = msgs[j]
      BY <1>3, <3>2
    <3>5. v[i] = msgs[j]
      BY <1>2, <3>1
    <3> QED BY <3>3, <3>4, <3>5
  <2>3. CASE i > a + k
    <3>1. PICK j \in 1 .. c : i = a + k + j
      <4>1. i - (a + k) \in 1 .. c /\ i = a + k + (i - (a + k))
        BY <1>1, <2>3
      <4> QED BY <4>1
    <3>2. PICK h \in 1 .. (a + b + c + k) : h = i - k + b /\ h <= a + b + c /\ h = a + b + j
      BY <1>1, <3>1
    <3>3. m[i] = h
      <4>1. ~(i <= a) /\ ~(i <= a + k)
        BY <1>1, <2>3
      <4>2. m[i] = i - k + b
        BY <1>4, <4>1
      <4> QED BY <3>2, <4>2
    <3>4. x[h] = u[h]
      BY <1>3, <3>2
    <3>5. u[h] = x3[j]
      BY <1>1, <3>2
    <3>6. v[i] = x3[j]
      BY <1>2, <3>1
    <3> QED BY <3>3, <3>4, <3>5, <3>6
  <2> QED BY <1>1, <2>1, <2>2, <2>3
<1> QED BY <1>5 DEF Replaces, a, b, c, k, u, v, x, m

\* The next nodes that common_fuzz_stuff gives the nodes of the list.
Links(f, lastOld, lastNew, prev, tail, next0) ==
    [n \in Nodes |-> IF n = lastOld THEN tail ELSE IF n = lastNew THEN next0
                     ELSE IF n = prev THEN f[lastOld] ELSE f[n]]

\* The nodes q are a list with the next nodes f before they are linked anew.
Pushed(a, b, c, k, q, f) ==
    /\ a \in Nat /\ b \in Nat /\ c \in Nat /\ k \in Nat /\ b >= 1 /\ k >= 1
    /\ q \in Seq(Nodes) /\ OnceEach(q) /\ Len(q) = a + b + c + k + 1 /\ Len(q) <= NodeCount
    /\ \A j \in 1 .. (a + b + c + k) : f[q[j]] = q[j + 1]
    /\ f[q[a + b + c + k + 1]] = NoNode

\* And g are their next nodes after that.
Followed(a, b, c, k, q, g) ==
    /\ \A j \in 1 .. (a + b + c + k) : g[q[j]] = q[Follows(a, b, c, k)[j]]
    /\ g[q[a + b + c + k + 1]] = NoNode

LEMMA LinksFollow ==
    ASSUME NEW a, NEW b, NEW c, NEW k, NEW q, NEW f, Pushed(a, b, c, k, q, f)
    PROVE  Followed(a, b, c, k, q,
                    Links(f, q[a + b + c], q[a + b + c + k], IF a = 0 THEN NoNode ELSE q[a],
                          q[a + b + c + k + 1], q[IF c = 0 THEN a + b + c + k + 1 ELSE a + b + 1]))
<1> DEFINE o == a + b + c
           y == a + b + c + k
           z == a + b + c + k + 1
           t == IF c = 0 THEN z ELSE a + b + 1
           prev == IF a = 0 THEN NoNode ELSE q[a]
           F == Follows(a, b, c, k)
           g == Links(f, q[o], q[y], prev, q[z], q[t])
<1>0. /\ a \in Nat /\ b \in Nat /\ c \in Nat /\ k \in Nat /\ b >= 1 /\ k >= 1
      /\ q \in Seq(Nodes) /\ OnceEach(q) /\ Len(q) = z
  BY DEF Pushed
<1>1. /\ o \in 1 .. z /\ y \in 1 .. z /\ z \in 1 .. z /\ t \in 1 .. z /\ y \in Nat /\ o < y /\ y < z /\ a < o
      /\ \A j \in 1 .. y : j \in 1 .. z
  BY <1>0
<1>2. \A i \in 1 .. z : q[i] \in Nodes /\ q[i] # NoNode
  <2>1. \A n \in Nodes : n # NoNode
    BY MessagesAssumption DEF Nodes, NoNode
  <2> QED BY <1>0, <2>1, ElementOfSeq
<1>3. \A i, j \in 1 .. z : q[i] = q[j] => i = j
  BY <1>0 DEF OnceEach
<1>4. \A j \in 1 .. y : F[j] = IF j = o THEN z ELSE IF j = y THEN t ELSE IF j = a THEN o + 1 ELSE j + 1
  BY <1>0, <1>1 DEF Follows
<1>5. \A n \in Nodes : g[n] = IF n = q[o] THEN q[z] ELSE IF n = q[y] THEN q[t] ELSE IF n = prev THEN f[q[o]] ELSE f[n]
  BY DEF Links
<1>6. \A j \in 1 .. y : f[q[j]] = q[j + 1]
  BY DEF Pushed
<1>7. f[q[z]] = NoNode
  BY DEF Pushed
<1>8. \A j \in 1 .. z : q[j] = prev <=> (j = a /\ a # 0)
  <2>1. CASE a = 0
    BY <1>2, <2>1
  <2>2. CASE a # 0
    <3>1. a \in 1 .. z
      BY <1>0, <2>2
    <3> QED BY <1>3, <2>2, <3>1
  <2> QED BY <2>1, <2>2
<1>9. o \in 1 .. y /\ y \in 1 .. y
  BY <1>0
<1> HIDE DEF o, y, z, t, prev, F, g
<1>10. ASSUME NEW j \in 1 .. y PROVE g[q[j]] = q[F[j]]
  <2>0. j \in 1 .. z /\ q[j] \in Nodes
    BY <1>1, <1>2
  <2>1. CASE j = o
    <3>1. F[j] = z /\ g[q[j]] = q[z]
      BY <1>4, <1>5, <2>0, <2>1
    <3> QED BY <3>1
  <2>2. CASE j = y
    <3>1. F[j] = t /\ q[j] # q[o]
      BY <1>1, <1>3, <1>4, <2>0, <2>2
    <3>2. g[q[j]] = q[t]
      BY <1>5, <2>0, <2>2, <3>1
    <3> QED BY <3>1, <3>2
  <2>3. CASE j # o /\ j # y
    <3>1. q[j] # q[o] /\ q[j] # q[y]
      BY <1>1, <1>3, <2>0, <2>3
    <3>2. g[q[j]] = IF q[j] = prev THEN f[q[o]] ELSE f[q[j]]
      BY <1>5, <2>0, <3>1
    <3>3. CASE j = a
      <4>1. q[j] = prev
        BY <1>8, <2>0, <3>3
      <4>2. F[j] = o + 1 /\ f[q[o]] = q[o + 1]
        BY <1>4, <1>6, <1>9, <2>3, <3>3
      <4> QED BY <3>2, <4>1, <4>2
    <3>4. CASE j # a
      <4>1. q[j] # prev
        BY <1>8, <2>0, <3>4
      <4>2. F[j] = j + 1 /\ f[q[j]] = q[j + 1]
        BY <1>4, <1>6, <2>3, <3>4
      <4> QED BY <3>2, <4>1, <4>2
    <3> QED BY <3>3, <3>4
  <2> QED BY <2>1, <2>2, <2>3
<1>11. g[q[z]] = NoNode
  <2>1. z # o /\ z # y /\ z # a /\ q[z] \in Nodes
    BY <1>1, <1>2
  <2>2. q[z] # q[o] /\ q[z] # q[y] /\ q[z] # prev
    BY <1>1, <1>3, <1>8, <2>1
  <2> QED BY <1>5, <1>7, <2>1, <2>2
<1>12. Followed(a, b, c, k, q, g)
  BY <1>10, <1>11 DEF Followed, y, z, F
<1> QED BY <1>12 DEF g, o, y, z, t, prev

FreedNodes(old, a, b, q) == old \in Seq(Nodes) /\ Len(old) = b /\ \A i \in 1 .. b : old[i] = q[a + i]

\* Along these links, the nodes from the first of the old M2 up to M2_next are
\* those of the old M2.
LEMMA OldNodes ==
    ASSUME NEW a, NEW b, NEW c, NEW k, NEW q, NEW f, Pushed(a, b, c, k, q, f),
           NEW l, Followed(a, b, c, k, q, l.next)
    PROVE  FreedNodes(Chain(l, q[a + 1], q[IF c = 0 THEN a + b + c + k + 1 ELSE a + b + 1]), a, b, q)
<1> DEFINE y == a + b + c + k
           z == a + b + c + k + 1
           t == IF c = 0 THEN z ELSE a + b + 1
           F == Follows(a, b, c, k)
           s == [i \in 1 .. (b + 1) |-> IF i <= b THEN q[a + i] ELSE q[t]]
<1>0. /\ a \in Nat /\ b \in Nat /\ c \in Nat /\ k \in Nat /\ b >= 1 /\ k >= 1
      /\ q \in Seq(Nodes) /\ OnceEach(q) /\ Len(q) = z /\ z <= NodeCount
  BY DEF Pushed
<1>1. /\ t \in 1 .. z /\ b + 1 \in Nat /\ b + 1 <= z /\ z \in Nat /\ NodeCount \in Nat
      /\ \A i \in 1 .. b : a + i \in 1 .. z /\ a + i # t /\ a + i \in 1 .. y
  BY <1>0, MessagesAssumption
<1>2. \A i \in 1 .. z : q[i] \in Nodes
  BY <1>0, ElementOfSeq
<1>3. \A i, j \in 1 .. z : q[i] = q[j] => i = j
  BY <1>0 DEF OnceEach
<1>4. \A i \in 1 .. b : F[a + i] = IF i < b THEN a + i + 1 ELSE t
  <2> SUFFICES ASSUME NEW i \in 1 .. b PROVE F[a + i] = IF i < b THEN a + i + 1 ELSE t
    OBVIOUS
  <2>1. PICK j \in 1 .. y : j = a + i
    BY <1>1
  <2>2. F[j] = IF j = a + b + c THEN z ELSE IF j = y THEN t ELSE IF j = a THEN a + b + c + 1 ELSE j + 1
    BY <1>0 DEF Follows
  <2>3. (IF j = a + b + c THEN z ELSE IF j = y THEN t ELSE IF j = a THEN a + b + c + 1 ELSE j + 1)
        = IF i < b THEN a + i + 1 ELSE t
    BY <1>0, <2>1
  <2> QED BY <2>1, <2>2, <2>3
<1>5. \A j \in 1 .. y : l.next[q[j]] = q[F[j]]
  BY DEF Followed
<1>6. Len(q) = z /\ z <= NodeCount
  BY <1>0
<1> HIDE DEF y, z, t, F
<1>7. s \in [1 .. (b + 1) -> Nodes]
  <2>1. q[t] \in Nodes /\ \A i \in 1 .. b : q[a + i] \in Nodes
    BY <1>1, <1>2
  <2>2. \A i \in 1 .. (b + 1) : i <= b => i \in 1 .. b
    BY <1>0
  <2> QED BY <2>1, <2>2
<1>8. s \in Seq(Nodes) /\ Len(s) = b + 1 /\ Len(s) >= 1 /\ Len(s) <= NodeCount /\ Len(s) - 1 = b
  BY <1>0, <1>1, <1>6, <1>7
<1>9. (\A i \in 1 .. b : s[i] = q[a + i]) /\ s[b + 1] = q[t]
  <2>1. \A i \in 1 .. b : i \in 1 .. (b + 1) /\ i <= b
    BY <1>0
  <2>2. b + 1 \in 1 .. (b + 1) /\ ~(b + 1 <= b)
    BY <1>0
  <2> QED BY <2>1, <2>2
<1> HIDE DEF s
<1>10. OnceEach(s)
  <2> SUFFICES ASSUME NEW i \in 1 .. (b + 1), NEW j \in 1 .. (b + 1), s[i] = s[j] PROVE i = j
    BY <1>8 DEF OnceEach
  <2>1. (i \in 1 .. b \/ i = b + 1) /\ (j \in 1 .. b \/ j = b + 1)
    BY <1>0
  <2>2. CASE i \in 1 .. b /\ j \in 1 .. b
    <3>1. q[a + i] = q[a + j] /\ a + i \in 1 .. z /\ a + j \in 1 .. z
      BY <1>1, <1>9, <2>2
    <3>2. a + i = a + j
      BY <1>3, <3>1
    <3> QED BY <1>0, <3>2
  <2>3. CASE i \in 1 .. b /\ j = b + 1
    BY <1>1, <1>3, <1>9, <2>3
  <2>4. CASE i = b + 1 /\ j \in 1 .. b
    BY <1>1, <1>3, <1>9, <2>4
  <2> QED BY <2>1, <2>2, <2>3, <2>4
<1>11. ASSUME NEW i \in 1 .. b PROVE l.next[s[i]] = s[i + 1]
  <2>1. l.next[q[a + i]] = q[F[a + i]] /\ s[i] = q[a + i]
    BY <1>1, <1>5, <1>9
  <2>2. CASE i < b
    <3>1. i + 1 \in 1 .. b /\ a + (i + 1) = a + i + 1
      BY <1>0, <2>2
    <3>2. s[i + 1] = q[a + i + 1]
      BY <1>9, <3>1
    <3> QED BY <1>4, <2>1, <2>2, <3>2
  <2>3. CASE i = b
    <3>1. F[a + i] = t /\ s[i + 1] = q[t]
      BY <1>4, <1>9, <2>3
    <3> QED BY <2>1, <3>1
  <2>4. i < b \/ i = b
    BY <1>0
  <2> QED BY <2>2, <2>3, <2>4
<1>12. Chain(l, s[1], s[Len(s)]) = SubSeq(s, 1, Len(s) - 1)
  <2>1. \A i \in 1 .. (Len(s) - 1) : l.next[s[i]] = s[i + 1]
    BY <1>8, <1>11
  <2> QED BY <1>8, <1>10, <2>1, ChainIs
<1>13. Chain(l, q[a + 1], q[t]) = SubSeq(s, 1, b)
  <2>1. 1 \in 1 .. b
    BY <1>0
  <2> QED BY <1>8, <1>9, <1>12, <2>1
<1>14. SubSeq(s, 1, b) \in Seq(Nodes) /\ Len(SubSeq(s, 1, b)) = b /\ \A i \in 1 .. b : SubSeq(s, 1, b)[i] = s[i]
  <2>1. b \in Int /\ \A i \in 1 .. b : s[i] \in Nodes
    BY <1>0, <1>7
  <2>2. /\ SubSeq(s, 1, b) \in Seq(Nodes)
        /\ Len(SubSeq(s, 1, b)) = IF 1 <= b THEN b - 1 + 1 ELSE 0
        /\ \A i \in 1 .. b - 1 + 1 : SubSeq(s, 1, b)[i] = s[1 + i - 1]
    BY <2>1, SubSeqProperties
  <2> QED BY <1>0, <2>2
<1>15. FreedNodes(Chain(l, q[a + 1], q[t]), a, b, q)
  BY <1>9, <1>13, <1>14 DEF FreedNodes
<1> QED BY <1>15 DEF t, z

\* The list l of the nodes p has the messages x1, x2 and x3, prev is the last
\* node of x1 and next0 the node that follows x2.
Around(l, p, x1, x2, x3, prev, next0) ==
    /\ x1 \in Seq(Nat) /\ x2 \in Seq(Nat) /\ x3 \in Seq(Nat) /\ Len(x2) >= 1
    /\ Linked(l, p, x1 \o x2 \o x3)
    /\ prev = IF Len(x1) = 0 THEN NoNode ELSE p[Len(x1)]
    /\ next0 = p[Len(x1) + Len(x2) + 1]

\* Splicing replaces x2 and leaves the rest as it is.
LEMMA SpliceKeepsAround ==
    ASSUME NEW l0, NEW p, NEW x1, NEW x2, NEW x3, NEW prev, NEW next0,
           Around(l0, p, x1, x2, x3, prev, next0),
           NEW msgs \in Seq(Nat), Len(msgs) >= 1, Len(p) + Len(msgs) <= NodeCount
    PROVE  LET r == Spliced(l0, prev, next0, msgs)
           IN \E p2 : Around(r.list, p2, x1, msgs, x3, prev, r.m2Next)
<1>0. PICK a \in Nat, b \in Nat, c \in Nat, k \in Nat :
         a = Len(x1) /\ b = Len(x2) /\ c = Len(x3) /\ k = Len(msgs)
  BY LenProperties DEF Around
<1> DEFINE y == a + b + c + k
           z == a + b + c + k + 1
           t == IF c = 0 THEN z ELSE a + b + 1
           u == x1 \o x2 \o x3
           x == u \o msgs
           r == PushedAll(l0, next0, msgs)
           l == r.list
           lastOld == get_last_message(l0)
           lastNew == get_last_message(l)
           first == l.next[lastOld]
           g == [n \in Nodes |-> IF n = lastOld THEN l.tail ELSE IF n = lastNew THEN r.m2Next
                                 ELSE IF n = prev THEN first ELSE l.next[n]]
           linked == [l EXCEPT !.head = IF prev = NoNode THEN first ELSE @, !.next = g]
           oldStart == IF prev = NoNode THEN l.head ELSE l.next[prev]
           old == Chain(linked, oldStart, r.m2Next)
           l2 == [linked EXCEPT !.pool = @ \o old, !.size = @ - Len(old)]
           v == x1 \o msgs \o x3
           n == a + k + c
           m == Moved(a, b, c, k)
           F == Follows(a, b, c, k)
<1>1. /\ a \in Nat /\ b \in Nat /\ c \in Nat /\ k \in Nat /\ b >= 1 /\ k >= 1
      /\ x1 \in Seq(Nat) /\ x2 \in Seq(Nat) /\ x3 \in Seq(Nat) /\ msgs \in Seq(Nat)
      /\ Linked(l0, p, u) /\ Len(u) = a + b + c /\ u \in Seq(Nat) /\ v \in Seq(Nat) /\ Len(v) = n
  <2>1. x1 \in Seq(Nat) /\ x2 \in Seq(Nat) /\ x3 \in Seq(Nat) /\ b >= 1 /\ Linked(l0, p, u)
    BY <1>0 DEF Around
  <2>2. Len(u) = a + b + c /\ u \in Seq(Nat) /\ v \in Seq(Nat) /\ Len(v) = n
    BY <1>0, <2>1, ThreeParts
  <2> QED BY <1>0, <2>1, <2>2
<1>2. prev = (IF a = 0 THEN NoNode ELSE p[a]) /\ next0 = p[a + b + 1]
  BY <1>0 DEF Around
<1>3. Spliced(l0, prev, next0, msgs) = [list |-> l2, m2Next |-> r.m2Next]
  BY DEF Spliced
<1>4. Len(p) = a + b + c + 1 /\ NodeCount \in Nat /\ p \in Seq(Nodes)
  <2> HIDE DEF u
  <2> QED BY <1>1, LinkedSizes
<1>5. PICK q : Extended(r, p, q, x, a + b + 1)
  <2>1. a + b + 1 \in 1 .. Len(p)
    BY <1>1, <1>4
  <2> HIDE DEF u, r
  <2>2. \E q : Extended(PushedAll(l0, p[a + b + 1], msgs), p, q, u \o msgs, a + b + 1)
    BY <1>1, <2>1, PushedAllExtends
  <2> QED BY <1>2, <2>2 DEF r
<1> HIDE DEF r
<1>6. /\ Linked(l, q, x) /\ x \in Seq(Nat) /\ Len(x) = y /\ q \in Seq(Nodes) /\ Len(q) = z /\ z <= NodeCount
      /\ l \in Lists
  <2>1. Linked(l, q, x)
    BY <1>5 DEF Extended
  <2>2. x \in Seq(Nat) /\ Len(x) = y
    <3> HIDE DEF u
    <3>1. u \o msgs \in Seq(Nat) /\ Len(u \o msgs) = Len(u) + Len(msgs)
      BY <1>1, ConcatProperties
    <3> QED BY <1>0, <1>1, <3>1
  <2>3. q \in Seq(Nodes) /\ Len(q) = Len(x) + 1 /\ l \in Lists /\ Len(l.pool) \in Nat /\ Len(l.pool) + Len(q) = NodeCount
    <3> HIDE DEF x, l
    <3> QED BY <2>1, LinkedSizes
  <2>4. Len(q) = z
    BY <2>2, <2>3
  <2>5. z <= NodeCount
    <3> DEFINE rest == Len(l.pool)
    <3>1. z \in Nat
      BY <1>1
    <3>2. rest \in Nat /\ rest + Len(q) = NodeCount
      BY <2>3
    <3> HIDE DEF rest, z
    <3> QED BY <1>4, <2>4, <3>1, <3>2
  <2> QED BY <2>1, <2>2, <2>3, <2>4, <2>5
<1> HIDE DEF u, x, v, l, g, linked, old
<1>7. /\ OnceEach(q) /\ l.head = q[1] /\ l.tail = q[z] /\ l.next[q[z]] = NoNode /\ l.size = y
      /\ \A j \in 1 .. y : l.next[q[j]] = q[j + 1]
  <2> HIDE DEF y, z
  <2> QED BY <1>6 DEF Linked
<1>8. \A i \in 1 .. (a + b + c + 1) : q[i] = p[i]
  BY <1>4, <1>5 DEF Extended
<1>9. lastOld = q[a + b + c]
  <2>1. Len(u) >= 1
    BY <1>1
  <2>2. lastOld = p[Len(u)]
    <3> HIDE DEF lastOld
    <3> QED BY <1>1, <2>1, LastMessageIs DEF lastOld
  <2>3. a + b + c \in 1 .. (a + b + c + 1)
    BY <1>1
  <2> QED BY <1>1, <1>8, <2>2, <2>3
<1>10. lastNew = q[y]
  <2>1. Len(x) >= 1
    BY <1>1, <1>6
  <2>2. lastNew = q[Len(x)]
    BY <1>6, <2>1, LastMessageIs
  <2> QED BY <1>6, <2>2
<1>11. r.m2Next = q[t]
  <2>1. r.m2Next = IF a + b + 1 = Len(p) THEN l.tail ELSE p[a + b + 1]
    BY <1>5 DEF Extended, l
  <2>2. a + b + 1 \in 1 .. (a + b + c + 1) /\ (a + b + 1 = a + b + c + 1 <=> c = 0)
    BY <1>1
  <2> QED BY <1>4, <1>7, <1>8, <2>1, <2>2
<1>12. prev = IF a = 0 THEN NoNode ELSE q[a]
  <2>1. a # 0 => a \in 1 .. (a + b + c + 1)
    BY <1>1
  <2> QED BY <1>2, <1>8, <2>1
<1>13. first = q[a + b + c + 1]
  <2>1. a + b + c \in 1 .. y
    BY <1>1
  <2> QED BY <1>7, <1>9, <2>1
<1>14. g = Links(l.next, q[a + b + c], q[y], prev, q[z], q[t])
  BY <1>7, <1>9, <1>10, <1>11 DEF g, Links
<1>15. Followed(a, b, c, k, q, g) /\ (\A j \in 1 .. y : g[q[j]] = q[F[j]]) /\ g[q[z]] = NoNode
  <2> DEFINE f == l.next
  <2>1. \A j \in 1 .. y : f[q[j]] = q[j + 1]
    BY <1>7
  <2>2. f[q[z]] = NoNode /\ g = Links(f, q[a + b + c], q[y], IF a = 0 THEN NoNode ELSE q[a], q[z], q[t])
    BY <1>7, <1>12, <1>14
  <2>3. Len(q) = a + b + c + k + 1
    BY <1>6
  <2>4. Pushed(a, b, c, k, q, f)
    <3> HIDE DEF f
    <3> QED BY <1>1, <1>6, <1>7, <2>1, <2>2, <2>3 DEF Pushed
  <2> HIDE DEF f
  <2>5. Followed(a, b, c, k, q, g)
    BY <2>2, <2>4, LinksFollow
  <2> QED BY <2>5 DEF Followed
<1>16. \A i \in 1 .. z : q[i] \in Nodes /\ q[i] # NoNode
  <2>1. \A e \in Nodes : e # NoNode
    BY MessagesAssumption DEF Nodes, NoNode
  <2> QED BY <1>6, <2>1, ElementOfSeq
<1>17. oldStart = q[a + 1]
  <2>1. a # 0 => a \in 1 .. y /\ a \in 1 .. z
    BY <1>1
  <2>2. CASE a = 0
    BY <1>7, <1>12, <2>2
  <2>3. CASE a # 0
    BY <1>7, <1>12, <1>16, <2>1, <2>3
  <2> QED BY <2>2, <2>3
<1>18. /\ linked.next = g /\ linked.head = q[IF a = 0 THEN a + b + c + 1 ELSE 1] /\ linked.tail = q[z]
       /\ linked.size = y /\ linked.val = l.val /\ linked.pool = l.pool /\ linked \in Lists
  <2>1. g \in [Nodes -> 0 .. NodeCount]
    <3>1. Nodes \subseteq 0 .. NodeCount /\ q[z] \in Nodes /\ q[t] \in Nodes /\ q[a + b + c + 1] \in Nodes
      <4>1. z \in 1 .. z /\ t \in 1 .. z /\ a + b + c + 1 \in 1 .. z
        BY <1>1
      <4> QED BY <1>4, <1>16, <4>1, SMTT(60) DEF Nodes
    <3>2. l.next \in [Nodes -> 0 .. NodeCount]
      BY <1>6, ListFields
    <3> HIDE DEF z, t, first, lastOld, lastNew
    <3> QED BY <1>7, <1>11, <1>13, <3>1, <3>2 DEF g
  <2>2. q[1] \in Nodes /\ q[a + b + c + 1] \in Nodes
    <3>1. 1 \in 1 .. z /\ a + b + c + 1 \in 1 .. z
      BY <1>1
    <3> QED BY <1>16, <3>1
  <2>3. prev = NoNode <=> a = 0
    <3>1. a # 0 => a \in 1 .. z
      BY <1>1
    <3> QED BY <1>12, <1>16, <3>1
  <2> DEFINE h == IF prev = NoNode THEN first ELSE l.head
  <2>4. h = q[IF a = 0 THEN a + b + c + 1 ELSE 1] /\ h \in Nodes
    BY <1>7, <1>13, <2>2, <2>3
  <2>5. linked = [l EXCEPT !.head = h, !.next = g]
    BY DEF linked
  <2> HIDE DEF h, first
  <2>6. /\ linked.next = g /\ linked.head = h /\ linked.tail = l.tail
        /\ linked.size = l.size /\ linked.val = l.val /\ linked.pool = l.pool /\ linked \in Lists
    BY <1>6, <2>1, <2>4, <2>5 DEF Lists
  <2> QED BY <1>7, <2>4, <2>6
<1>19. old \in Seq(Nodes) /\ Len(old) = b /\ \A i \in 1 .. b : old[i] = q[a + i]
  <2>1. old = Chain(linked, q[a + 1], q[t])
    BY <1>11, <1>17 DEF old
  <2>2. Followed(a, b, c, k, q, linked.next)
    BY <1>15, <1>18
  <2>3. Len(q) = a + b + c + k + 1 /\ Len(q) <= NodeCount
    BY <1>6
  <2> DEFINE f == l.next
  <2>4. (\A j \in 1 .. y : f[q[j]] = q[j + 1]) /\ f[q[z]] = NoNode
    BY <1>7
  <2> HIDE DEF f
  <2>5. Pushed(a, b, c, k, q, f)
    BY <1>1, <1>6, <1>7, <2>3, <2>4 DEF Pushed
  <2> DEFINE o == Chain(linked, q[a + 1], q[t])
  <2>6. FreedNodes(o, a, b, q)
    BY <2>2, <2>5, OldNodes
  <2> HIDE DEF o
  <2>7. old = o
    BY <2>1 DEF o
  <2> QED BY <2>6, <2>7 DEF FreedNodes
<1>20. /\ l2.next = g /\ l2.head = q[IF a = 0 THEN a + b + c + 1 ELSE 1] /\ l2.tail = q[z]
       /\ l2.size = n /\ l2.val = l.val /\ l2.pool = l.pool \o old /\ l2 \in Lists
  <2> DEFINE pool == l.pool \o old
             s == linked.size - Len(old)
  <2>1. s = n /\ s \in Nat
    BY <1>1, <1>18, <1>19
  <2>2. pool \in Seq(Nodes)
    <3>1. l.pool \in Seq(Nodes)
      BY <1>6, ListFields
    <3> QED BY <1>19, <3>1, ConcatProperties
  <2>3. l2 = [linked EXCEPT !.pool = pool, !.size = s]
    BY <1>18
  <2> HIDE DEF pool, s, l2
  <2>4. /\ l2.next = linked.next /\ l2.head = linked.head /\ l2.tail = linked.tail
        /\ l2.size = s /\ l2.val = linked.val /\ l2.pool = pool /\ l2 \in Lists
    BY <1>18, <2>1, <2>2, <2>3 DEF Lists
  <2> QED BY <1>18, <2>1, <2>4 DEF pool
<1> HIDE DEF l2, m, F
<1>21. NodeOrder(n, b, z, m, F, [i \in 1 .. b |-> a + i])
  <2> QED BY <1>1, MovedInOrder DEF m, F
<1>22. m[1] = (IF a = 0 THEN a + b + c + 1 ELSE 1) /\ (a # 0 => m[a] = a) /\ m[a + k + 1] = t
  <2>1. 1 \in 1 .. (a + k + c + 1) /\ a + k + 1 \in 1 .. (a + k + c + 1) /\ (a # 0 => a \in 1 .. (a + k + c + 1))
    BY <1>1
  <2>2. \A i \in 1 .. (a + k + c + 1) :
           m[i] = IF i <= a THEN i ELSE IF i <= a + k THEN b + c + i ELSE IF i <= a + k + c THEN i - k + b ELSE i + b
    BY DEF m, Moved
  <2>3. m[1] = IF 1 <= a THEN 1 ELSE IF 1 <= a + k THEN b + c + 1 ELSE IF 1 <= a + k + c THEN 1 - k + b ELSE 1 + b
    BY <2>1, <2>2
  <2>4. m[a + k + 1] = IF a + k + 1 <= a THEN a + k + 1 ELSE IF a + k + 1 <= a + k THEN b + c + (a + k + 1)
                       ELSE IF a + k + 1 <= a + k + c THEN (a + k + 1) - k + b ELSE (a + k + 1) + b
    BY <2>1, <2>2
  <2>5. a # 0 => m[a] = a
    BY <1>1, <2>1, <2>2, SMTT(60)
  <2>6. m[1] = IF a = 0 THEN a + b + c + 1 ELSE 1
    BY <1>1, <2>3
  <2>7. m[a + k + 1] = t
    BY <1>1, <2>4
  <2> QED BY <2>5, <2>6, <2>7
<1>23. Relinked(n, b, z, m, F, [i \in 1 .. b |-> a + i], l, q, x, l2, v, old)
  <2>1. \A i \in 1 .. n : v[i] = x[m[i]]
    <3> SUFFICES ASSUME NEW i \in 1 .. n PROVE v[i] = x[m[i]]
      OBVIOUS
    <3>1. i \in 1 .. (Len(x1) + Len(msgs) + Len(x3)) /\ m = Moved(Len(x1), Len(x2), Len(x3), Len(msgs))
      BY <1>0 DEF m
    <3>2. x1 \in Seq(Nat) /\ x2 \in Seq(Nat) /\ x3 \in Seq(Nat) /\ msgs \in Seq(Nat)
      BY <1>1
    <3>3. (x1 \o msgs \o x3)[i] = (x1 \o x2 \o x3 \o msgs)[Moved(Len(x1), Len(x2), Len(x3), Len(msgs))[i]]
      <4>1. Replaces(x1, x2, x3, msgs)
        BY <3>2, MovedValues
      <4> QED BY <3>1, <4>1 DEF Replaces
    <3> QED BY <3>1, <3>3 DEF v, x, u
  <2>2. y = z - 1 /\ \A i \in 1 .. b : old[i] = q[[j \in 1 .. b |-> a + j][i]]
    BY <1>1, <1>19
  <2>3. \A j \in 1 .. (z - 1) : l2.next[q[j]] = q[F[j]]
    BY <1>15, <1>20, <2>2
  <2> HIDE DEF n, y, z
  <2> QED BY <1>1, <1>6, <1>7, <1>15, <1>19, <1>20, <1>22, <2>1, <2>2, <2>3 DEF Relinked
<1> DEFINE p2 == [i \in 1 .. (n + 1) |-> q[m[i]]]
<1>24. Linked(l2, p2, v)
  <2> HIDE DEF n, z
  <2> QED BY <1>21, <1>23, RelinkedIsLinked
<1>25. /\ prev = IF a = 0 THEN NoNode ELSE p2[a]
       /\ r.m2Next = p2[a + k + 1]
  <2>1. a + k + 1 \in 1 .. (n + 1) /\ (a # 0 => a \in 1 .. (n + 1))
    BY <1>1
  <2>2. p2[a + k + 1] = q[t]
    BY <1>22, <2>1
  <2>3. a # 0 => p2[a] = q[a]
    BY <1>22, <2>1
  <2> HIDE DEF p2
  <2> QED BY <1>11, <1>12, <2>2, <2>3
<1> HIDE DEF p2
<1>26. Around(l2, p2, x1, msgs, x3, prev, r.m2Next)
  BY <1>0, <1>1, <1>24, <1>25 DEF Around, v
<1> QED BY <1>3, <1>26

----------------------------------------------------------------------------
(* The list of a seed *)

\* What is sent is an arrangement around M2, and it is never too long for the
\* nodes: the prefix and the suffix are of the seed, M2 is a mutated buffer.
MessagesSound ==
    /\ m1 \in Seq(Nat) /\ m2 \in Seq(Nat) /\ m3 \in Seq(Nat)
    /\ Len(m1) + Len(m3) <= MaxMessages - 1 /\ Len(m2) <= MaxMessages
    /\ list = NoList \/ \E p : Around(list, p, m1, m2, m3, m2Prev, m2Next)

\* A sequence is its three cuts.
LEMMA ThreeCuts ==
    ASSUME NEW s \in Seq(Nat), NEW i \in 0 .. Len(s), NEW j \in i .. Len(s)
    PROVE  /\ SubSeq(s, 1, i) \in Seq(Nat) /\ SubSeq(s, i + 1, j) \in Seq(Nat)
           /\ SubSeq(s, j + 1, Len(s)) \in Seq(Nat)
           /\ Len(SubSeq(s, 1, i)) = i /\ Len(SubSeq(s, i + 1, j)) = j - i
           /\ Len(SubSeq(s, j + 1, Len(s))) = Len(s) - j
           /\ SubSeq(s, 1, i) \o SubSeq(s, i + 1, j) \o SubSeq(s, j + 1, Len(s)) = s
<1> DEFINE n == Len(s)
           x == SubSeq(s, 1, i)
           y == SubSeq(s, i + 1, j)
           z == SubSeq(s, j + 1, n)
           w == x \o y \o z
<1>1. n \in Nat /\ i \in Nat /\ j \in Nat /\ i <= j /\ j <= n /\ \A h \in 1 .. n : s[h] \in Nat
  BY LenProperties, ElementOfSeq
<1> HIDE DEF n
<1>2. x \in Seq(Nat) /\ Len(x) = i /\ \A h \in 1 .. i : x[h] = s[h]
  <2>1. 1 \in Int /\ i \in Int /\ \A h \in 1 .. i : s[h] \in Nat
    BY <1>1
  <2>2. /\ x \in Seq(Nat) /\ Len(x) = IF 1 <= i THEN i - 1 + 1 ELSE 0
        /\ \A h \in 1 .. i - 1 + 1 : x[h] = s[1 + h - 1]
    BY <2>1, SubSeqProperties
  <2> HIDE DEF x
  <2> QED BY <1>1, <2>2
<1>3. y \in Seq(Nat) /\ Len(y) = j - i /\ \A h \in 1 .. (j - i) : y[h] = s[i + h]
  <2>1. i + 1 \in Int /\ j \in Int /\ \A h \in (i + 1) .. j : s[h] \in Nat
    BY <1>1
  <2>2. /\ y \in Seq(Nat) /\ Len(y) = IF i + 1 <= j THEN j - (i + 1) + 1 ELSE 0
        /\ \A h \in 1 .. j - (i + 1) + 1 : y[h] = s[(i + 1) + h - 1]
    BY <2>1, SubSeqProperties
  <2> HIDE DEF y
  <2>3. j - (i + 1) + 1 = j - i /\ \A h \in 1 .. (j - i) : (i + 1) + h - 1 = i + h
    BY <1>1
  <2> QED BY <1>1, <2>2, <2>3
<1>4. z \in Seq(Nat) /\ Len(z) = n - j /\ \A h \in 1 .. (n - j) : z[h] = s[j + h]
  <2>1. j + 1 \in Int /\ n \in Int /\ \A h \in (j + 1) .. n : s[h] \in Nat
    BY <1>1
  <2>2. /\ z \in Seq(Nat) /\ Len(z) = IF j + 1 <= n THEN n - (j + 1) + 1 ELSE 0
        /\ \A h \in 1 .. n - (j + 1) + 1 : z[h] = s[(j + 1) + h - 1]
    BY <2>1, SubSeqProperties
  <2> HIDE DEF z
  <2>3. n - (j + 1) + 1 = n - j /\ \A h \in 1 .. (n - j) : (j + 1) + h - 1 = j + h
    BY <1>1
  <2> QED BY <1>1, <2>2, <2>3
<1> HIDE DEF x, y, z
<1>5. /\ w \in Seq(Nat) /\ Len(w) = Len(x) + Len(y) + Len(z)
      /\ \A h \in 1 .. Len(x) : w[h] = x[h]
      /\ \A h \in 1 .. Len(y) : w[Len(x) + h] = y[h]
      /\ \A h \in 1 .. Len(z) : w[Len(x) + Len(y) + h] = z[h]
  <2>1. x \in Seq(Nat) /\ y \in Seq(Nat) /\ z \in Seq(Nat)
    BY <1>2, <1>3, <1>4
  <2>2. w \in Seq(Nat) /\ Len(w) = Len(x) + Len(y) + Len(z)
    BY <2>1, ThreeParts
  <2>3. \A h \in 1 .. Len(x) : w[h] = x[h]
    BY <2>1, ThreeParts, Zenon
  <2>4. \A h \in 1 .. Len(y) : w[Len(x) + h] = y[h]
    BY <2>1, ThreeParts, Zenon
  <2>5. \A h \in 1 .. Len(z) : w[Len(x) + Len(y) + h] = z[h]
    BY <2>1, ThreeParts, Zenon
  <2> QED BY <2>2, <2>3, <2>4, <2>5
<1> HIDE DEF w
<1>6. Len(w) = n
  BY <1>1, <1>2, <1>3, <1>4, <1>5
<1>7. ASSUME NEW h \in 1 .. n PROVE w[h] = s[h]
  <2>1. CASE h <= i
    <3>1. h \in 1 .. i
      BY <1>1, <2>1
    <3> QED BY <1>2, <1>5, <3>1
  <2>2. CASE h > i /\ h <= j
    <3>1. PICK e \in 1 .. (j - i) : h = i + e
      <4>1. h - i \in 1 .. (j - i) /\ h = i + (h - i)
        BY <1>1, <2>2
      <4> QED BY <4>1
    <3>2. w[i + e] = y[e]
      BY <1>2, <1>3, <1>5
    <3> QED BY <1>3, <3>1, <3>2
  <2>3. CASE h > j
    <3>1. PICK e \in 1 .. (n - j) : h = j + e
      <4>1. h - j \in 1 .. (n - j) /\ h = j + (h - j)
        BY <1>1, <2>3
      <4> QED BY <4>1
    <3>2. Len(x) + Len(y) = j
      BY <1>1, <1>2, <1>3
    <3>3. w[j + e] = z[e]
      BY <1>4, <1>5, <3>2
    <3> QED BY <1>4, <3>1, <3>3
  <2> QED BY <1>1, <2>1, <2>2, <2>3
<1>8. w = s
  <2>1. Len(s) = n
    BY DEF n
  <2> QED BY <1>5, <1>6, <1>7, <2>1, SeqEqual
<1> QED BY <1>2, <1>3, <1>4, <1>8 DEF n, x, y, z, w

LEMMA LimitedLength ==
    ASSUME NEW msgs \in MutatedMessages
    PROVE  Limited(msgs) \in Seq(Nat) /\ Len(Limited(msgs)) \in 1 .. MaxMessages
<1>1. PICK k \in 1 .. MaxMessages : msgs = [i \in 1 .. k |-> MaxMessages + i]
  BY DEF MutatedMessages
<1>2. MaxMessages \in Nat /\ MaxSeedRegions \in Nat /\ k \in Nat /\ k <= MaxMessages /\ k >= 1
  BY MessagesAssumption
<1>3. msgs \in Seq(Nat) /\ Len(msgs) = k
  <2>1. msgs \in [1 .. k -> Nat]
    BY <1>1, <1>2
  <2> QED BY <1>2, <2>1
<1>4. CASE k <= MaxSeedRegions
  BY <1>2, <1>3, <1>4 DEF Limited
<1>5. CASE k > MaxSeedRegions
  <2> DEFINE n == MaxSeedRegions
             c == SubSeq(msgs, 1, n)
  <2>1. n \in 0 .. Len(msgs) /\ Len(msgs) \in n .. Len(msgs) /\ Len(msgs) \in 1 .. Len(msgs)
    BY <1>2, <1>3, <1>5
  <2>2. c \in Seq(Nat) /\ Len(c) = n
    BY <1>3, <2>1, ThreeCuts
  <2>3. Last(msgs) \in Nat
    BY <1>3, <2>1, ElementOfSeq DEF Last
  <2>4. Limited(msgs) = Append(c, Last(msgs))
    BY <1>2, <1>3, <1>5 DEF Limited
  <2>5. Append(c, Last(msgs)) \in Seq(Nat) /\ Len(Append(c, Last(msgs))) = n + 1
    BY <2>2, <2>3, AppendProperties
  <2> QED BY <1>2, <1>5, <2>4, <2>5
<1> QED BY <1>2, <1>4, <1>5

LEMMA OpenSeedKeeps ==
    ASSUME OpenSeed PROVE MessagesSound'
<1> DEFINE Opened(msgs, start, count) ==
              LET l == construct_kl_messages(msgs)
                  nodes == Append(Chain(l, l.head, l.tail), l.tail)
              IN /\ list' = l
                 /\ m2Prev' = IF start = 0 THEN NoNode ELSE nodes[start]
                 /\ m2Next' = nodes[start + count + 1]
                 /\ m1' = SubSeq(msgs, 1, start)
                 /\ m2' = SubSeq(msgs, start + 1, start + count)
                 /\ m3' = SubSeq(msgs, start + count + 1, Len(msgs))
<1>open1. PICK msgs \in SeedMessages :
         \E start \in 0 .. (Len(msgs) - 1) : \E count \in 1 .. (Len(msgs) - start) : Opened(msgs, start, count)
  BY DEF OpenSeed
<1>open2. PICK start \in 0 .. (Len(msgs) - 1) : \E count \in 1 .. (Len(msgs) - start) : Opened(msgs, start, count)
  BY <1>open1
<1>1. PICK count \in 1 .. (Len(msgs) - start) : Opened(msgs, start, count)
  BY <1>open2
<1> DEFINE l == construct_kl_messages(msgs)
           nodes == Append(Chain(l, l.head, l.tail), l.tail)
           k == Len(msgs)
           x1 == SubSeq(msgs, 1, start)
           x2 == SubSeq(msgs, start + 1, start + count)
           x3 == SubSeq(msgs, start + count + 1, k)
<1>2. /\ list' = l /\ m2Prev' = (IF start = 0 THEN NoNode ELSE nodes[start])
      /\ m2Next' = nodes[start + count + 1] /\ m1' = x1 /\ m2' = x2 /\ m3' = x3
  BY <1>1
<1>3. msgs \in Seq(Nat) /\ k \in 1 .. MaxMessages
  <2>1. PICK h \in 1 .. MaxMessages : msgs = [i \in 1 .. h |-> i]
    BY DEF SeedMessages
  <2>2. msgs \in [1 .. h -> Nat] /\ h \in Nat
    BY <2>1
  <2> QED BY <2>1, <2>2
<1>4. /\ MaxMessages \in Nat /\ NodeCount \in Nat /\ k \in Nat /\ k < NodeCount
      /\ start \in 0 .. k /\ start + count \in start .. k /\ start \in Nat /\ count \in Nat /\ count >= 1
  BY <1>3, MessagesAssumption
<1>5. PICK p : Linked(l, p, msgs)
  BY <1>3, <1>4, ConstructLinked
<1>6. /\ x1 \in Seq(Nat) /\ x2 \in Seq(Nat) /\ x3 \in Seq(Nat)
      /\ Len(x1) = start /\ Len(x2) = count /\ Len(x3) = k - (start + count)
      /\ x1 \o x2 \o x3 = msgs
  <2>1. (start + count) - start = count
    BY <1>4
  <2> DEFINE e == start + count
  <2>2. e \in start .. k
    BY <1>4
  <2> HIDE DEF e
  <2>3. /\ SubSeq(msgs, 1, start) \in Seq(Nat) /\ SubSeq(msgs, start + 1, e) \in Seq(Nat)
        /\ SubSeq(msgs, e + 1, Len(msgs)) \in Seq(Nat)
        /\ Len(SubSeq(msgs, 1, start)) = start /\ Len(SubSeq(msgs, start + 1, e)) = e - start
        /\ Len(SubSeq(msgs, e + 1, Len(msgs))) = Len(msgs) - e
        /\ SubSeq(msgs, 1, start) \o SubSeq(msgs, start + 1, e) \o SubSeq(msgs, e + 1, Len(msgs)) = msgs
    BY <1>3, <1>4, <2>2, ThreeCuts
  <2> QED BY <2>1, <2>3 DEF e
<1>7. nodes = p
  <2>1. p \in Seq(Nodes) /\ Len(p) = k + 1
    BY <1>5, LinkedSizes
  <2>2. l.tail = p[Len(p)]
    BY <1>5 DEF Linked
  <2>3. Chain(l, l.head, l.tail) = SubSeq(p, 1, k)
    BY <1>5, ContentsAre
  <2>4. nodes = Append(SubSeq(p, 1, k), p[k + 1])
    BY <2>1, <2>2, <2>3
  <2>5. Append(SubSeq(p, 1, k), p[k + 1]) = SubSeq(p, 1, k + 1)
    BY <1>4, <2>1, OneMore
  <2>6. SubSeq(p, 1, k + 1) = p
    BY <2>1, SubSeqFull
  <2> QED BY <2>4, <2>5, <2>6
<1> HIDE DEF l, nodes, x1, x2, x3, k
<1>8. Around(l, p, x1, x2, x3, m2Prev', m2Next')
  BY <1>2, <1>4, <1>5, <1>6, <1>7 DEF Around
<1>9. \E o : Around(list', o, m1', m2', m3', m2Prev', m2Next')
  BY <1>2, <1>8
<1>10. Len(m1') + Len(m3') <= MaxMessages - 1 /\ Len(m2') <= MaxMessages
  BY <1>2, <1>3, <1>4, <1>6
<1> QED BY <1>2, <1>6, <1>9, <1>10 DEF MessagesSound

LEMMA MutateM2Keeps ==
    ASSUME MessagesSound, MutateM2 PROVE MessagesSound'
<1>1. PICK msgs \in MutatedMessages :
         LET r == Spliced(list, m2Prev, m2Next, Limited(msgs))
         IN list' = r.list /\ m2Next' = r.m2Next /\ m2' = Limited(msgs)
  BY DEF MutateM2
<1> DEFINE new == Limited(msgs)
           r == Spliced(list, m2Prev, m2Next, new)
<1>2. /\ list' = r.list /\ m2Next' = r.m2Next /\ m2' = new
      /\ m2Prev' = m2Prev /\ m1' = m1 /\ m3' = m3 /\ list # NoList
  BY <1>1 DEF MutateM2
<1>3. new \in Seq(Nat) /\ Len(new) \in 1 .. MaxMessages
  BY LimitedLength
<1> HIDE DEF new
<1>4. PICK p : Around(list, p, m1, m2, m3, m2Prev, m2Next)
  BY <1>2 DEF MessagesSound
<1>5. Len(p) + Len(new) <= NodeCount
  <2>1. /\ m1 \in Seq(Nat) /\ m2 \in Seq(Nat) /\ m3 \in Seq(Nat)
        /\ Len(m1) + Len(m3) <= MaxMessages - 1 /\ Len(m2) <= MaxMessages
    BY DEF MessagesSound
  <2> DEFINE a == Len(m1)
             b == Len(m2)
             c == Len(m3)
             k == Len(new)
  <2>2. a \in Nat /\ b \in Nat /\ c \in Nat /\ Len(m1 \o m2 \o m3) = a + b + c
    BY <2>1, ThreeParts
  <2>3. Len(p) = Len(m1 \o m2 \o m3) + 1
    <3>1. Linked(list, p, m1 \o m2 \o m3)
      BY <1>4 DEF Around
    <3> QED BY <3>1, LinkedSizes
  <2>4. Len(p) = a + b + c + 1 /\ a + c <= MaxMessages - 1 /\ b <= MaxMessages /\ k \in 1 .. MaxMessages
    BY <1>3, <2>1, <2>2, <2>3
  <2> HIDE DEF a, b, c, k
  <2>5. a + b + c + 1 + k <= NodeCount
    BY <2>2, <2>4, MessagesAssumption
  <2> QED BY <2>4, <2>5 DEF k
<1>6. \E o : Around(r.list, o, m1, new, m3, m2Prev, r.m2Next)
  <2>1. Len(new) >= 1
    BY <1>3
  <2> QED BY <1>3, <1>4, <1>5, <2>1, SpliceKeepsAround
<1> HIDE DEF r
<1>7. \E o : Around(list', o, m1', m2', m3', m2Prev', m2Next')
  BY <1>2, <1>6
<1>8. Len(m2') <= MaxMessages /\ m2' \in Seq(Nat)
  BY <1>2, <1>3, MessagesAssumption
<1> QED BY <1>2, <1>7, <1>8 DEF MessagesSound

LEMMA MessagesSoundInvariant == MessagesSpec => []MessagesSound
<1>1. MessagesInit => MessagesSound
  <2>1. <<>> \in Seq(Nat) /\ Len(<<>>) = 0
    OBVIOUS
  <2> QED BY <2>1, MessagesAssumption DEF MessagesInit, MessagesSound
<1>2. MessagesSound /\ [MessagesNext]_messagesVars => MessagesSound'
  <2> SUFFICES ASSUME MessagesSound, [MessagesNext]_messagesVars PROVE MessagesSound'
    OBVIOUS
  <2>1. CASE OpenSeed
    BY <2>1, OpenSeedKeeps
  <2>2. CASE MutateM2
    BY <2>2, MutateM2Keeps
  <2>3. CASE CloseSeed
    <3>1. <<>> \in Seq(Nat) /\ Len(<<>>) = 0
      OBVIOUS
    <3> QED BY <2>3, <3>1, MessagesAssumption DEF CloseSeed, MessagesSound
  <2>4. CASE UNCHANGED messagesVars
    BY <2>4 DEF messagesVars, MessagesSound
  <2> QED BY <2>1, <2>2, <2>3, <2>4 DEF MessagesNext
<1> QED BY <1>1, <1>2, PTL DEF MessagesSpec

\* However often a seed is mutated, and whatever the buffers are, its list has
\* the messages of the prefix, of the mutated part and of the suffix, and
\* deleting it gives back every node once (common_fuzz_stuff, klist.h).
THEOREM SplicesAlwaysKeepContext == MessagesSpec => []SplicesKeepContext
<1>1. MessagesSound => SplicesKeepContext
  <2> SUFFICES ASSUME MessagesSound, list # NoList
               PROVE  /\ Contents(list) = m1 \o m2 \o m3
                      /\ list.size = Len(Contents(list))
                      /\ ToSet(delete_kl_messages(list).pool) = Nodes
                      /\ Len(delete_kl_messages(list).pool) = NodeCount
    BY DEF SplicesKeepContext
  <2> DEFINE vals == m1 \o m2 \o m3
  <2>1. PICK p : Linked(list, p, vals)
    BY DEF MessagesSound, Around
  <2> HIDE DEF vals
  <2>2. Contents(list) = vals /\ list.size = Len(vals)
    BY <2>1, ContentsAre DEF Linked
  <2> DEFINE pool == list.pool
             all == pool \o p
             s == Len(pool)
  <2>3. delete_kl_messages(list).pool = all
    BY <2>1, DeleteGives
  <2>4. /\ pool \in Seq(Nodes) /\ p \in Seq(Nodes) /\ s \in Nat /\ Len(p) \in Nat /\ s + Len(p) = NodeCount
        /\ \A i, j \in 1 .. s : pool[i] = pool[j] => i = j
        /\ \A i, j \in 1 .. Len(p) : p[i] = p[j] => i = j
        /\ \A i \in 1 .. Len(p), j \in 1 .. s : p[i] # pool[j]
    <3>1. pool \in Seq(Nodes) /\ p \in Seq(Nodes) /\ s \in Nat /\ Len(p) \in Nat /\ s + Len(p) = NodeCount
      BY <2>1, LinkedSizes
    <3> QED BY <2>1, <3>1 DEF Linked, OnceEach
  <2> HIDE DEF pool
  <2>5. /\ all \in Seq(Nodes) /\ Len(all) = s + Len(p)
        /\ \A i \in 1 .. (s + Len(p)) : all[i] = IF i <= s THEN pool[i] ELSE p[i - s]
    BY <2>4, ConcatProperties
  <2> HIDE DEF all, s
  <2>6. OnceEach(all)
    <3> SUFFICES ASSUME NEW i \in 1 .. (s + Len(p)), NEW j \in 1 .. (s + Len(p)), all[i] = all[j] PROVE i = j
      BY <2>5 DEF OnceEach
    <3>1. \A h \in 1 .. (s + Len(p)) : \/ h \in 1 .. s /\ all[h] = pool[h]
                                       \/ h - s \in 1 .. Len(p) /\ all[h] = p[h - s]
      <4> SUFFICES ASSUME NEW h \in 1 .. (s + Len(p))
                   PROVE  \/ h \in 1 .. s /\ all[h] = pool[h]
                          \/ h - s \in 1 .. Len(p) /\ all[h] = p[h - s]
        OBVIOUS
      <4>1. CASE h <= s
        BY <2>4, <2>5, <4>1
      <4>2. CASE h > s
        BY <2>4, <2>5, <4>2
      <4> QED BY <2>4, <4>1, <4>2
    <3>2. \/ j \in 1 .. s /\ all[j] = pool[j]
          \/ j - s \in 1 .. Len(p) /\ all[j] = p[j - s]
      BY <3>1
    <3>3. CASE i \in 1 .. s /\ all[i] = pool[i]
      BY <2>4, <3>2, <3>3
    <3>4. CASE i - s \in 1 .. Len(p) /\ all[i] = p[i - s]
      <4>1. j - s \in 1 .. Len(p) /\ all[j] = p[j - s]
        BY <2>4, <3>2, <3>4
      <4>2. i - s = j - s
        BY <2>4, <3>4, <4>1
      <4> QED BY <2>4, <4>2
    <3> QED BY <3>1, <3>3, <3>4
  <2>7. Len(all) = NodeCount
    BY <2>4, <2>5
  <2>8. ToSet(all) = Nodes
    BY <2>5, <2>6, <2>7, AllOfThem
  <2> QED BY <2>2, <2>3, <2>7, <2>8 DEF vals
<1> QED BY <1>1, MessagesSoundInvariant, PTL

----------------------------------------------------------------------------
(* Tracing *)

\* Division with a remainder.
LEMMA Division ==
    ASSUME NEW N \in Nat \ {0}, NEW n \in Nat
    PROVE  n = N * (n \div N) + (n % N)
  BY SMT

\* The number after n, counted round a circle of N.
LEMMA NextInTurn ==
    ASSUME NEW N \in Nat \ {0}, NEW n \in Nat
    PROVE  /\ n % N \in 0..(N - 1)
           /\ (n + 1) % N = IF n % N = N - 1 THEN 0 ELSE (n % N) + 1
<1> DEFINE q == n \div N
           q2 == (n + 1) \div N
           r == n % N
           r2 == (n + 1) % N
<1>1. /\ n \in Int /\ N \in Int /\ N >= 1 /\ r \in 0..(N - 1) /\ r2 \in 0..(N - 1) /\ q \in Int /\ q2 \in Int
  BY SMT
<1>2. n = N * q + r
  BY Division
<1>3. n + 1 = N * q2 + r2
  BY Division, n + 1 \in Nat
<1> HIDE DEF q, q2, r, r2
<1>4. q2 = q \/ q2 = q + 1 \/ q2 - q >= 2 \/ q2 - q <= -1
  BY <1>1
<1>5. N * q2 = N * q + N * (q2 - q)
  BY <1>1, SMT
<1>6. r + 1 = N * (q2 - q) + r2
  <2> DEFINE a == N * q
             b == N * q2
             c == N * (q2 - q)
  <2>1. a \in Int /\ b \in Int /\ c \in Int
    BY <1>1
  <2>2. n = a + r /\ n + 1 = b + r2 /\ b = a + c
    BY <1>2, <1>3, <1>5
  <2> HIDE DEF a, b, c
  <2>3. r + 1 = c + r2
    BY <1>1, <2>1, <2>2
  <2> QED BY <2>3 DEF c
<1>7. CASE q2 = q
  <2>1. N * (q2 - q) = 0
    BY <1>1, <1>7
  <2>2. r + 1 = r2
    BY <1>1, <1>6, <2>1
  <2> QED BY <1>1, <2>2 DEF r, r2
<1>8. CASE q2 = q + 1
  <2>1. N * (q2 - q) = N
    BY <1>1, <1>8
  <2>2. r = N - 1 /\ r2 = 0
    BY <1>1, <1>6, <2>1
  <2> QED BY <1>1, <2>2 DEF r, r2
<1>9. CASE q2 - q >= 2
  <2>1. N * (q2 - q) >= 2 * N
    BY <1>1, <1>9, SMT
  <2> QED BY <1>1, <1>6, <2>1
<1>10. CASE q2 - q <= -1
  <2>1. N * (q2 - q) <= -N
    BY <1>1, <1>10, SMT
  <2> QED BY <1>1, <1>6, <2>1
<1> QED BY <1>4, <1>7, <1>8, <1>9, <1>10

\* A remainder is as good as its number when one is added.
LEMMA RemainderAfter ==
    ASSUME NEW N \in Nat \ {0}, NEW n \in Nat
    PROVE  /\ n % N \in 0..(N - 1)
           /\ (n + 1) % N = ((n % N) + 1) % N
<1> DEFINE r == n % N
<1>1. r \in 0..(N - 1) /\ (n + 1) % N = IF r = N - 1 THEN 0 ELSE r + 1
  BY NextInTurn
<1>2. r \in Nat /\ r % N = r
  BY <1>1
<1>3. (r + 1) % N = IF r % N = N - 1 THEN 0 ELSE (r % N) + 1
  <2> HIDE DEF r
  <2> QED BY <1>2, NextInTurn
<1> HIDE DEF r
<1>4. (n + 1) % N = (r + 1) % N
  BY <1>1, <1>2, <1>3
<1> QED BY <1>1, <1>4 DEF r

Cells == 0..(MapSize - 1)
Scoped == Scopes(build.kind)
Previous == {0} \cup {Shifted(b.loc) : b \in Located}

\* Nobody has found the map yet.
Unmapped == \A s \in Scoped : ~ tsArea[s]

TracingTypeOK ==
    /\ build \in [kind : Kinds, sites : SUBSET Located, shm : {"unset", "attached", "broken"}]
    /\ proc \in {"runs", "serves"} /\ globalArea \in BOOLEAN /\ fds \in BOOLEAN
    /\ tsArea \in [Scoped -> BOOLEAN] /\ setupFailed \in [Scoped -> BOOLEAN]
    /\ prevLoc \in [Scoped -> Previous]
    /\ walk \in Seq(Located)
    /\ getenvs \in Nat /\ servers \in Nat /\ forks \in Nat

\* What a process is before the first block that finds the map.
NotSetUp ==
    /\ walk = <<>> /\ prevLoc = [s \in Scoped |-> 0] /\ trace = Silence
    /\ forkPoint = NoFork /\ ~ globalArea /\ getenvs = 0

\* With a map: who has found it first has told the others of the same process, and
\* the fork server keeps what was true before its block.
SetUp ==
    /\ \A s \in Scoped : ~ setupFailed[s]
    /\ Unmapped => NotSetUp
    /\ ~ Unmapped => (globalArea <=> build.kind = "as64") /\ getenvs = IF build.kind = "llvm" THEN 0 ELSE 1
    /\ build.kind = "llvm" => \A s \in Scoped : tsArea[s]
    /\ proc = "runs" => \A s \in Scoped : prevLoc[s] = PrevAfter(walk, s)
    /\ trace = IF proc = "runs" \/ forks > 0 THEN Expected(walk) ELSE Silence

\* Without one: each scope tries once.
Untraced ==
    /\ trace = Silence /\ forkPoint = NoFork /\ ~ globalArea
    /\ \A s \in Scoped : tsArea[s] <=> build.kind = "llvm"
    /\ getenvs = Cardinality({s \in Scoped : setupFailed[s]})

Served ==
    /\ forkPoint.block \in Located
    /\ forkPoint.area \in [Scoped -> BOOLEAN] /\ forkPoint.prev = [s \in Scoped |-> 0]
    /\ forkPoint.area[ScopeOf(build.kind, forkPoint.block)]
    /\ servers = 1 /\ build.kind # "llvm" /\ (proc = "runs" => forks > 0)

TracingInv ==
    /\ TracingTypeOK
    /\ IF build.shm = "attached" THEN SetUp ELSE Untraced
    /\ IF forkPoint = NoFork THEN proc = "runs" /\ servers = 0 /\ forks = 0 ELSE Served

\* The scopes of a program.
LEMMA ScopesOf ==
    ASSUME TracingTypeOK
    PROVE  /\ IsFiniteSet(Scoped)
           /\ \A b \in Located : ScopeOf(build.kind, b) \in Scoped
           /\ build.kind # "as64" => Scoped = {"common"}
<1>1. IsFiniteSet({"common"})
  BY FS_Singleton
<1>3. IsFiniteSet(Objects)
  BY TracingAssumption
<1>2. \A b \in Located : b.obj \in Objects
  BY TracingAssumption
<1> QED BY <1>1, <1>2, <1>3 DEF Scoped, Scopes, ScopeOf

\* Positions that are not none have a last one.
LEMMA LatestIs ==
    ASSUME NEW n \in Nat, NEW A, A \subseteq 1..n, A # {}
    PROVE  Latest(A) \in A
<1> DEFINE HasLast(S) == \E j \in S : \A l \in S : l <= j
           T == {k \in Nat : \A S \in SUBSET (1..k) : S # {} => HasLast(S)}
<1>1. 0 \in T
  <2>1. \A S \in SUBSET (1..0) : S = {}
    OBVIOUS
  <2> QED BY <2>1
<1>2. ASSUME NEW k \in Nat, k \in T PROVE k + 1 \in T
  <2>1. ASSUME NEW S \in SUBSET (1..(k + 1)), S # {} PROVE HasLast(S)
    <3>1. CASE k + 1 \in S
      <4>1. \A l \in S : l <= k + 1
        OBVIOUS
      <4> QED BY <3>1, <4>1
    <3>2. CASE k + 1 \notin S
      <4>1. S \in SUBSET (1..k)
        BY <1>2, <3>2
      <4> QED BY <1>2, <2>1, <4>1
    <3> QED BY <3>1, <3>2
  <2> QED BY <1>2, <2>1
<1>3. n \in T
  <2> HIDE DEF T
  <2> QED BY <1>1, <1>2, SetInduction
<1> QED BY <1>3 DEF Latest

\* The previous location after one more block.
LEMMA PrevAfterBlock ==
    ASSUME NEW w \in Seq(Located), NEW b \in Located, NEW s
    PROVE  PrevAfter(Append(w, b), s) =
               IF s = ScopeOf(build.kind, b) THEN Shifted(b.loc) ELSE PrevAfter(w, s)
<1> DEFINE n == Len(w)
           v == Append(w, b)
<1>1. /\ n \in Nat /\ DOMAIN w = 1..n /\ DOMAIN v = 1..(n + 1)
      /\ v[n + 1] = b /\ \A i \in 1..n : v[i] = w[i]
  OBVIOUS
<1>2. CASE s = ScopeOf(build.kind, b)
  <2>1. n + 1 \in Within(v, s) /\ \A l \in Within(v, s) : l \in 1..(n + 1)
    BY <1>1, <1>2 DEF Within
  <2>2. Latest(Within(v, s)) = n + 1
    <3> DEFINE P(j) == \A l \in Within(v, s) : l <= j
    <3>1. \E j \in Within(v, s) : P(j)
      BY <1>1, <2>1
    <3>2. Latest(Within(v, s)) \in Within(v, s) /\ P(Latest(Within(v, s)))
      BY <3>1 DEF Latest
    <3>3. n + 1 <= Latest(Within(v, s)) /\ Latest(Within(v, s)) \in 1..(n + 1)
      BY <2>1, <3>2
    <3> QED BY <1>1, <3>3
  <2> QED BY <1>1, <1>2, <2>1, <2>2 DEF PrevAfter
<1>3. CASE s # ScopeOf(build.kind, b)
  <2>1. Within(v, s) = Within(w, s)
    BY <1>1, <1>3 DEF Within
  <2>2. CASE Within(w, s) = {}
    BY <1>3, <2>1, <2>2 DEF PrevAfter
  <2>3. CASE Within(w, s) # {}
    <3> DEFINE A == Within(w, s)
    <3>1. A \subseteq 1..n
      BY <1>1 DEF Within
    <3>3. Latest(A) \in A
      <4> HIDE DEF A
      <4> QED BY <1>1, <2>3, <3>1, LatestIs DEF A
    <3>4. v[Latest(A)] = w[Latest(A)]
      BY <1>1, <3>1, <3>3
    <3> QED BY <1>3, <2>1, <2>3, <3>4 DEF PrevAfter
  <2> QED BY <2>2, <2>3
<1> QED BY <1>2, <1>3

\* The cells of a walk with one more block.
LEMMA CellsAfterBlock ==
    ASSUME NEW w \in Seq(Located), NEW b \in Located
    PROVE  /\ \A i \in 1..Len(w) : CellAt(Append(w, b), i) = CellAt(w, i)
           /\ CellAt(Append(w, b), Len(w) + 1) = Cell(PrevAfter(w, ScopeOf(build.kind, b)), b.loc)
<1> DEFINE n == Len(w)
           v == Append(w, b)
<1>1. n \in Nat /\ v[n + 1] = b /\ \A i \in 1..n : v[i] = w[i]
  OBVIOUS
<1>2. ASSUME NEW i \in 1..(n + 1) PROVE SubSeq(v, 1, i - 1) = SubSeq(w, 1, i - 1)
  <2>1. i - 1 \in 0..n /\ \A k \in 1..(i - 1) : v[k] = w[k]
    BY <1>1
  <2>2. /\ SubSeq(v, 1, i - 1) = [k \in 1..(i - 1) |-> v[k]]
        /\ SubSeq(w, 1, i - 1) = [k \in 1..(i - 1) |-> w[k]]
    BY <1>1, <2>1
  <2> QED BY <2>1, <2>2
<1>3. ASSUME NEW i \in 1..n PROVE CellAt(v, i) = CellAt(w, i)
  <2>1. v[i] = w[i] /\ SubSeq(v, 1, i - 1) = SubSeq(w, 1, i - 1)
    BY <1>1, <1>2
  <2> QED BY <2>1 DEF CellAt
<1>4. SubSeq(v, 1, n + 1 - 1) = w
  <2>1. SubSeq(w, 1, n) = w /\ n + 1 - 1 = n
    BY <1>1
  <2> QED BY <1>1, <1>2, <2>1
<1>5. CellAt(v, n + 1) = Cell(PrevAfter(w, ScopeOf(build.kind, b)), b.loc)
  <2>1. CellAt(v, n + 1) = Cell(PrevAfter(SubSeq(v, 1, n + 1 - 1), ScopeOf(build.kind, v[n + 1])), v[n + 1].loc)
    BY DEF CellAt
  <2> QED BY <1>1, <1>4, <2>1
<1> QED BY <1>3, <1>5

Visits(w, c) == {i \in DOMAIN w : CellAt(w, i) = c}

\* How often a cell is visited with one more block.
LEMMA VisitsAfterBlock ==
    ASSUME NEW w \in Seq(Located), NEW b \in Located, NEW c
    PROVE  /\ Cardinality(Visits(w, c)) \in Nat
           /\ Cardinality(Visits(Append(w, b), c)) =
                  Cardinality(Visits(w, c))
                      + IF c = Cell(PrevAfter(w, ScopeOf(build.kind, b)), b.loc) THEN 1 ELSE 0
<1> DEFINE n == Len(w)
           v == Append(w, b)
           d == Cell(PrevAfter(w, ScopeOf(build.kind, b)), b.loc)
<1>1. n \in Nat /\ DOMAIN w = 1..n /\ DOMAIN v = 1..(n + 1)
  OBVIOUS
<1>2. (\A i \in 1..n : CellAt(v, i) = CellAt(w, i)) /\ CellAt(v, n + 1) = d
  BY CellsAfterBlock
<1>3. IsFiniteSet(Visits(w, c)) /\ n + 1 \notin Visits(w, c)
  <2>1. Visits(w, c) \in SUBSET (1..n) /\ IsFiniteSet(1..n)
    BY <1>1, FS_Interval DEF Visits
  <2> QED BY <1>1, <2>1, FS_Subset
<1>4. Cardinality(Visits(w, c)) \in Nat
  BY <1>3, FS_CardinalityType
<1>5. CASE c = d
  <2>1. Visits(v, c) = Visits(w, c) \cup {n + 1}
    <3> HIDE DEF v, d
    <3> QED BY <1>1, <1>2, <1>5 DEF Visits
  <2>2. Cardinality(Visits(v, c)) = Cardinality(Visits(w, c)) + 1
    BY <1>3, <2>1, FS_AddElement
  <2> QED BY <1>4, <1>5, <2>2
<1>6. CASE c # d
  <2>1. Visits(v, c) = Visits(w, c)
    <3> HIDE DEF v, d
    <3> QED BY <1>1, <1>2, <1>6 DEF Visits
  <2> QED BY <1>4, <1>6, <2>1
<1> QED BY <1>5, <1>6

\* The map of a walk with one more block.
LEMMA ExpectedAfterBlock ==
    ASSUME NEW w \in Seq(Located), NEW b \in Located,
           Cell(PrevAfter(w, ScopeOf(build.kind, b)), b.loc) \in Cells
    PROVE  Expected(Append(w, b)) =
               [Expected(w) EXCEPT ![Cell(PrevAfter(w, ScopeOf(build.kind, b)), b.loc)] = (@ + 1) % CountMod]
<1> DEFINE d == Cell(PrevAfter(w, ScopeOf(build.kind, b)), b.loc)
           E(x) == [c \in Cells |-> Cardinality(Visits(x, c)) % CountMod]
           v == Append(w, b)
<1>1. Expected(w) = E(w) /\ Expected(v) = E(v)
  BY DEF Expected, Visits, Cells
<1>2. ASSUME NEW c \in Cells
      PROVE  E(v)[c] = IF c = d THEN (E(w)[c] + 1) % CountMod ELSE E(w)[c]
  <2> DEFINE m == Cardinality(Visits(w, c))
             after == Cardinality(Visits(v, c))
  <2>1. m \in Nat /\ after = m + IF c = d THEN 1 ELSE 0
    BY VisitsAfterBlock
  <2>2. E(v)[c] = after % CountMod /\ E(w)[c] = m % CountMod
    BY <1>2
  <2> HIDE DEF m, after, E, d, v
  <2>3. CASE c = d
    <3>1. CountMod \in Nat \ {0} /\ m \in Nat
      BY <2>1, TracingAssumption
    <3>2. (m + 1) % CountMod = ((m % CountMod) + 1) % CountMod
      BY <3>1, RemainderAfter
    <3> QED BY <2>1, <2>2, <2>3, <3>2
  <2>4. CASE c # d
    BY <2>1, <2>2, <2>4
  <2> QED BY <2>3, <2>4
<1>3. E(v) = [E(w) EXCEPT ![d] = (@ + 1) % CountMod]
  <2> DEFINE R == [E(w) EXCEPT ![d] = (@ + 1) % CountMod]
  <2>1. DOMAIN E(v) = Cells /\ DOMAIN R = Cells /\ \A c \in Cells : E(v)[c] = R[c]
    <3>1. d \in Cells
      OBVIOUS
    <3>2. E(v) = [c \in Cells |-> E(v)[c]] /\ DOMAIN E(w) = Cells
      OBVIOUS
    <3> HIDE DEF d, v, E
    <3> QED BY <1>2, <3>1, <3>2
  <2>2. R = [c \in Cells |-> R[c]] /\ E(v) = [c \in Cells |-> E(v)[c]]
    OBVIOUS
  <2> HIDE DEF R, E, v
  <2> QED BY <2>1, <2>2 DEF R
<1> QED BY <1>1, <1>3 DEF v, d

\* The map of a process that has run nothing.
LEMMA ExpectedOfNone ==
    ASSUME TracingTypeOK
    PROVE  Expected(<<>>) = Silence /\ \A s : PrevAfter(<<>>, s) = 0
<1>1. \A c : {i \in DOMAIN <<>> : CellAt(<<>>, i) = c} = {}
  OBVIOUS
<1>2. Cardinality({}) = 0 /\ 0 % CountMod = 0
  <2>1. CountMod \in Nat /\ CountMod > 1
    BY TracingAssumption
  <2>2. 0 % CountMod = 0
    BY <2>1
  <2> QED BY <2>2, FS_EmptySet
<1>3. Expected(<<>>) = Silence
  BY <1>1, <1>2 DEF Expected, Silence
<1>4. \A s : Within(<<>>, s) = {}
  BY DEF Within
<1> QED BY <1>3, <1>4 DEF PrevAfter

\* The cell of a branch is one of the map.
LEMMA CellInMap ==
    ASSUME NEW prev \in Previous, NEW b \in Located
    PROVE  Cell(prev, b.loc) \in Cells
  BY TracingAssumption DEF Previous, Cells

----------------------------------------------------------------------------

\* One block counted: the map and the previous locations of the walk become those
\* of the walk with it.
LEMMA StoredIsExpected ==
    ASSUME TracingTypeOK, build.shm = "attached", UNCHANGED build,
           NEW b \in Located, Stored(b), walk' = Append(walk, b),
           \A s \in Scoped : prevLoc[s] = PrevAfter(walk, s), trace = Expected(walk)
    PROVE  /\ trace' = Expected(walk)'
           /\ \A s \in Scoped : prevLoc'[s] = PrevAfter(walk, s)'
           /\ prevLoc' \in [Scoped -> Previous]
<1> DEFINE t == ScopeOf(build.kind, b)
<1>1. t \in Scoped /\ prevLoc[t] = PrevAfter(walk, t) /\ prevLoc[t] \in Previous
  BY ScopesOf DEF TracingTypeOK
<1>2. Cell(prevLoc[t], b.loc) \in Cells
  BY <1>1, CellInMap
<1>3. walk \in Seq(Located)
  BY DEF TracingTypeOK
<1>4. Expected(Append(walk, b)) = [trace EXCEPT ![Cell(prevLoc[t], b.loc)] = (@ + 1) % CountMod]
  <2>1. Cell(PrevAfter(walk, ScopeOf(build.kind, b)), b.loc) \in Cells
    BY <1>1, <1>2
  <2>2. Expected(Append(walk, b)) =
            [Expected(walk) EXCEPT ![Cell(PrevAfter(walk, ScopeOf(build.kind, b)), b.loc)] = (@ + 1) % CountMod]
    BY <1>3, <2>1, ExpectedAfterBlock
  <2> QED BY <1>1, <2>2
<1>5. trace' = [trace EXCEPT ![Cell(prevLoc[t], b.loc)] = (@ + 1) % CountMod]
  BY DEF Stored
<1>6. prevLoc' = [prevLoc EXCEPT ![t] = Shifted(b.loc)] /\ Shifted(b.loc) \in Previous
  BY DEF Stored, Previous
<1>7. Expected(walk)' = Expected(Append(walk, b)) /\ \A s : PrevAfter(walk, s)' = PrevAfter(Append(walk, b), s)
  BY DEF Expected, CellAt, PrevAfter, Within
<1>8. ASSUME NEW s \in Scoped PROVE prevLoc'[s] = PrevAfter(Append(walk, b), s)
  <2>1. PrevAfter(Append(walk, b), s) = IF s = t THEN Shifted(b.loc) ELSE PrevAfter(walk, s)
    BY <1>3, PrevAfterBlock
  <2>2. prevLoc'[s] = IF s = t THEN Shifted(b.loc) ELSE prevLoc[s]
    BY <1>6 DEF TracingTypeOK
  <2> QED BY <2>1, <2>2
<1>9. prevLoc' \in [Scoped -> Previous]
  <2> HIDE DEF t
  <2> QED BY <1>1, <1>6 DEF TracingTypeOK
<1> QED BY <1>4, <1>5, <1>7, <1>8, <1>9

\* A program begins without a map, or with LLVM's.
LEMMA TracingStarts == ASSUME NEW b \in Builds, NEW l \in BOOLEAN, TracingInit(b, l) PROVE TracingInv
<1>0. b.sites \subseteq Located /\ b \in [kind : Kinds, sites : SUBSET Located, shm : {"unset", "attached", "broken"}]
  <2>1. \A r : \A x \in runOnModule(r) : x \in SUBSET Located
    BY DEF runOnModule
  <2> QED BY <2>1 DEF Builds
<1>1. TracingTypeOK
  <2>1. build = b /\ Scoped = Scopes(b.kind) /\ 0 \in Previous /\ <<>> \in Seq(Located)
    BY DEF TracingInit, Scoped, Previous
  <2> QED BY <1>0, <2>1 DEF TracingInit, TracingTypeOK
<1>2. Expected(<<>>) = Silence /\ \A s : PrevAfter(<<>>, s) = 0
  BY <1>1, ExpectedOfNone
<1>3. build.shm = "attached" => SetUp
  BY <1>1, <1>2 DEF TracingInit, SetUp, NotSetUp, Unmapped, Scoped
<1>4. Untraced
  <2>1. {s \in Scoped : setupFailed[s]} = {}
    BY DEF TracingInit, Scoped
  <2> QED BY <2>1, FS_EmptySet DEF TracingInit, Untraced, Scoped
<1> QED BY <1>1, <1>3, <1>4 DEF TracingInit, TracingInv

\* A block that runs while its scope has the map.
LEMMA LoggedStep == ASSUME TracingInv, NEW b \in Located, Logged(b) PROVE TracingInv'
<1> DEFINE t == ScopeOf(build.kind, b)
<1>1. TracingTypeOK /\ t \in Scoped /\ UNCHANGED <<build, Scoped>> /\ walk' = Append(walk, b) /\ proc = "runs"
  BY ScopesOf DEF TracingInv, Logged, Runs, Scoped
<1>2. UNCHANGED <<proc, tsArea, globalArea, setupFailed, fds, forkPoint, getenvs, servers, forks>> /\ tsArea[t]
  BY DEF Logged, Runs
<1>3. walk' \in Seq(Located)
  BY <1>1 DEF TracingTypeOK
<1>4. CASE build.shm = "attached"
  <2>1. SetUp /\ ~ Unmapped
    BY <1>1, <1>2, <1>4 DEF TracingInv, Unmapped
  <2>2. trace = Expected(walk) /\ \A s \in Scoped : prevLoc[s] = PrevAfter(walk, s)
    BY <1>1, <2>1 DEF SetUp
  <2>3. /\ trace' = Expected(walk)'
        /\ \A s \in Scoped : prevLoc'[s] = PrevAfter(walk, s)'
        /\ prevLoc' \in [Scoped -> Previous]
    BY <1>1, <1>4, <2>2, StoredIsExpected DEF Logged
  <2>4. TracingTypeOK'
    BY <1>1, <1>2, <1>3, <2>3 DEF TracingTypeOK
  <2>5. SetUp'
    BY <1>1, <1>2, <2>1, <2>3 DEF SetUp, Unmapped
  <2>6. (IF forkPoint = NoFork THEN proc = "runs" /\ servers = 0 /\ forks = 0 ELSE Served)'
    BY <1>1, <1>2 DEF TracingInv, Served
  <2> QED BY <1>1, <1>4, <2>4, <2>5, <2>6 DEF TracingInv
<1>5. CASE build.shm # "attached"
  <2>1. Untraced /\ build.kind = "llvm"
    BY <1>1, <1>2, <1>5 DEF TracingInv, Untraced
  <2>2. trace' = trace /\ prevLoc' = [prevLoc EXCEPT ![t] = Shifted(b.loc)] /\ Shifted(b.loc) \in Previous
    BY <1>5, <2>1 DEF Logged, Stored, Previous
  <2>3. prevLoc' \in [Scoped -> Previous]
    <3> HIDE DEF t
    <3> QED BY <1>1, <2>2 DEF TracingTypeOK
  <2>4. TracingTypeOK'
    BY <1>1, <1>2, <1>3, <2>3 DEF TracingTypeOK
  <2>5. Untraced'
    BY <1>1, <1>2, <2>1, <2>2 DEF Untraced
  <2>6. (IF forkPoint = NoFork THEN proc = "runs" /\ servers = 0 /\ forks = 0 ELSE Served)'
    BY <1>1, <1>2 DEF TracingInv, Served
  <2> QED BY <1>1, <1>5, <2>4, <2>5, <2>6 DEF TracingInv
<1> QED BY <1>4, <1>5

\* A block that runs after its scope has failed to find the map.
LEMMA UnloggedStep == ASSUME TracingInv, NEW b \in Located, Unlogged(b) PROVE TracingInv'
<1>1. TracingTypeOK /\ ScopeOf(build.kind, b) \in Scoped /\ UNCHANGED <<build, Scoped>>
  BY ScopesOf DEF TracingInv, Unlogged, Runs, Scoped
<1>2. /\ UNCHANGED <<proc, tsArea, globalArea, setupFailed, prevLoc, trace, fds, forkPoint, getenvs, servers, forks>>
      /\ walk' \in Seq(Located) /\ setupFailed[ScopeOf(build.kind, b)]
  BY <1>1 DEF Unlogged, Runs, TracingTypeOK
<1>3. build.shm # "attached" /\ Untraced
  BY <1>1, <1>2 DEF TracingInv, SetUp
<1>4. TracingTypeOK'
  BY <1>1, <1>2 DEF TracingTypeOK
<1>5. Untraced'
  BY <1>1, <1>2, <1>3 DEF Untraced
<1> QED BY <1>1, <1>2, <1>3, <1>4, <1>5 DEF TracingInv, Served

\* A block of an object that is told of the map by another.
LEMMA AdoptedStep == ASSUME TracingInv, NEW b \in Located, Adopted(b) PROVE TracingInv'
<1> DEFINE t == ScopeOf(build.kind, b)
<1>1. TracingTypeOK /\ t \in Scoped /\ UNCHANGED <<build, Scoped>> /\ walk' = Append(walk, b) /\ proc = "runs"
  BY ScopesOf DEF TracingInv, Adopted, Runs, Scoped
<1>2. /\ UNCHANGED <<proc, globalArea, setupFailed, fds, forkPoint, getenvs, servers, forks>>
      /\ globalArea /\ ~ tsArea[t] /\ tsArea' = [tsArea EXCEPT ![t] = TRUE]
  BY DEF Adopted, Runs
<1>3. walk' \in Seq(Located) /\ tsArea' \in [Scoped -> BOOLEAN] /\ tsArea'[t]
  BY <1>1, <1>2 DEF TracingTypeOK
<1>4. build.shm = "attached" /\ SetUp /\ ~ Unmapped
  BY <1>1, <1>2 DEF TracingInv, Untraced, SetUp, NotSetUp
<1>5. trace = Expected(walk) /\ \A s \in Scoped : prevLoc[s] = PrevAfter(walk, s)
  BY <1>1, <1>4 DEF SetUp
<1>6. /\ trace' = Expected(walk)'
      /\ \A s \in Scoped : prevLoc'[s] = PrevAfter(walk, s)'
      /\ prevLoc' \in [Scoped -> Previous]
  BY <1>1, <1>4, <1>5, StoredIsExpected DEF Adopted
<1>7. TracingTypeOK'
  BY <1>1, <1>2, <1>3, <1>6 DEF TracingTypeOK
<1>8. SetUp' /\ ~ Unmapped'
  <2>1. ~ Unmapped'
    BY <1>1, <1>3 DEF Unmapped
  <2>2. build.kind # "llvm"
    BY <1>1, <1>2, <1>4 DEF SetUp
  <2> QED BY <1>1, <1>2, <1>4, <1>6, <2>1, <2>2 DEF SetUp
<1>9. (IF forkPoint = NoFork THEN proc = "runs" /\ servers = 0 /\ forks = 0 ELSE Served)'
  BY <1>1, <1>2 DEF TracingInv, Served
<1> QED BY <1>1, <1>4, <1>7, <1>8, <1>9 DEF TracingInv

\* A scope that looks for the map in vain.
LEMMA AbortsStep == ASSUME TracingInv, NEW b \in Located, SetupAborts(b) PROVE TracingInv'
<1> DEFINE t == ScopeOf(build.kind, b)
           F == {s \in Scoped : setupFailed[s]}
<1>1. TracingTypeOK /\ t \in Scoped /\ UNCHANGED <<build, Scoped>> /\ IsFiniteSet(Scoped)
  BY ScopesOf DEF TracingInv, SetupAborts, SetupFirst, Runs, Scoped
<1>2. /\ UNCHANGED <<proc, tsArea, globalArea, prevLoc, trace, fds, forkPoint, servers, forks>>
      /\ walk' \in Seq(Located) /\ ~ setupFailed[t] /\ getenvs' = getenvs + 1
      /\ setupFailed' = [setupFailed EXCEPT ![t] = TRUE] /\ build.shm # "attached"
  BY <1>1 DEF SetupAborts, SetupFirst, Runs, TracingTypeOK
<1>3. Untraced
  BY <1>2 DEF TracingInv
<1>4. setupFailed' \in [Scoped -> BOOLEAN] /\ {s \in Scoped : setupFailed'[s]} = F \cup {t}
  <2> HIDE DEF t
  <2> QED BY <1>1, <1>2 DEF TracingTypeOK
<1>5. Cardinality(F \cup {t}) = Cardinality(F) + 1
  <2>1. IsFiniteSet(F) /\ t \notin F
    BY <1>1, <1>2, FS_Subset
  <2> QED BY <2>1, FS_AddElement
<1>6. TracingTypeOK'
  BY <1>1, <1>2, <1>4 DEF TracingTypeOK
<1>7. Untraced'
  <2>1. getenvs' = Cardinality({s \in Scoped : setupFailed'[s]})
    BY <1>2, <1>3, <1>4, <1>5 DEF Untraced
  <2> QED BY <1>1, <1>2, <1>3, <2>1 DEF Untraced
<1> QED BY <1>1, <1>2, <1>6, <1>7 DEF TracingInv, Served

\* The first block of a process that finds the map.
LEMMA SetupFirstFindsNothing ==
    ASSUME TracingInv, NEW b \in Located, SetupFirst(b), build.shm = "attached"
    PROVE  /\ SetUp /\ Unmapped /\ NotSetUp /\ build.kind # "llvm" /\ ScopeOf(build.kind, b) \in Scoped
           /\ servers = 0 /\ forks = 0
<1>1. TracingTypeOK /\ SetUp /\ ScopeOf(build.kind, b) \in Scoped
  BY ScopesOf DEF TracingInv
<1>2. ~ tsArea[ScopeOf(build.kind, b)] /\ ~ globalArea
  BY DEF SetupFirst
<1>3. build.kind # "llvm"
  BY <1>1, <1>2 DEF SetUp
<1>4. Unmapped
  <2>1. CASE build.kind = "as64"
    BY <1>1, <1>2, <2>1 DEF SetUp
  <2>2. CASE build.kind # "as64"
    BY <1>1, <1>2, <2>2, ScopesOf DEF Unmapped
  <2> QED BY <2>1, <2>2
<1>5. NotSetUp
  BY <1>1, <1>4 DEF SetUp
<1> QED BY <1>1, <1>3, <1>4, <1>5 DEF NotSetUp, TracingInv

\* It finds the map, and afl-fuzz does not listen.
LEMMA ResumesStep == ASSUME TracingInv, NEW b \in Located, SetupResumes(b) PROVE TracingInv'
<1> DEFINE t == ScopeOf(build.kind, b)
<1>1. TracingTypeOK /\ UNCHANGED <<build, Scoped>> /\ walk' = Append(walk, b) /\ proc = "runs"
  BY DEF TracingInv, SetupResumes, SetupFirst, Runs, Scoped
<1>2. SetUp /\ Unmapped /\ NotSetUp /\ build.kind # "llvm" /\ t \in Scoped /\ build.shm = "attached"
  BY SetupFirstFindsNothing DEF SetupResumes
<1>3. /\ UNCHANGED <<proc, setupFailed, fds, forkPoint, servers, forks>>
      /\ globalArea' = (build.kind = "as64") /\ getenvs' = 1 /\ tsArea' = [tsArea EXCEPT ![t] = TRUE]
  BY <1>2 DEF SetupResumes, SetupFirst, Runs, NotSetUp
<1>4. walk' \in Seq(Located) /\ tsArea' \in [Scoped -> BOOLEAN] /\ tsArea'[t] /\ globalArea' \in BOOLEAN
  BY <1>1, <1>2, <1>3 DEF TracingTypeOK
<1>5. trace = Expected(walk) /\ \A s \in Scoped : prevLoc[s] = PrevAfter(walk, s)
  BY <1>1, <1>2 DEF SetUp
<1>6. /\ trace' = Expected(walk)'
      /\ \A s \in Scoped : prevLoc'[s] = PrevAfter(walk, s)'
      /\ prevLoc' \in [Scoped -> Previous]
  BY <1>1, <1>2, <1>5, StoredIsExpected DEF SetupResumes
<1>7. TracingTypeOK'
  BY <1>1, <1>3, <1>4, <1>6 DEF TracingTypeOK
<1>8. SetUp'
  <2>1. ~ Unmapped'
    BY <1>1, <1>2, <1>4 DEF Unmapped
  <2> QED BY <1>1, <1>2, <1>3, <1>6, <2>1 DEF SetUp
<1>9. (IF forkPoint = NoFork THEN proc = "runs" /\ servers = 0 /\ forks = 0 ELSE Served)'
  BY <1>1, <1>3 DEF TracingInv, Served
<1> QED BY <1>1, <1>2, <1>7, <1>8, <1>9 DEF TracingInv

\* It finds the map, and becomes the fork server.
LEMMA ServerStep == ASSUME TracingInv, NEW b \in Located, ForkServerUp(b) PROVE TracingInv'
<1> DEFINE t == ScopeOf(build.kind, b)
<1>1. TracingTypeOK /\ UNCHANGED <<build, Scoped>> /\ walk' = Append(walk, b) /\ proc = "runs"
  BY DEF TracingInv, ForkServerUp, SetupFirst, Runs, Scoped
<1>2. SetUp /\ Unmapped /\ NotSetUp /\ build.kind # "llvm" /\ t \in Scoped /\ servers = 0 /\ forks = 0 /\ build.shm = "attached"
  BY SetupFirstFindsNothing DEF ForkServerUp
<1>3. /\ UNCHANGED <<setupFailed, prevLoc, trace, fds, forks>> /\ proc' = "serves" /\ servers' = 1
      /\ globalArea' = (build.kind = "as64") /\ getenvs' = 1 /\ tsArea' = [tsArea EXCEPT ![t] = TRUE]
      /\ forkPoint' = [block |-> b, area |-> tsArea', prev |-> prevLoc]
  BY <1>2 DEF ForkServerUp, SetupFirst, Runs, NotSetUp
<1>4. walk' \in Seq(Located) /\ tsArea' \in [Scoped -> BOOLEAN] /\ tsArea'[t] /\ globalArea' \in BOOLEAN
  BY <1>1, <1>2, <1>3 DEF TracingTypeOK
<1>5. TracingTypeOK'
  BY <1>1, <1>3, <1>4 DEF TracingTypeOK
<1>6. SetUp'
  <2>1. ~ Unmapped'
    BY <1>1, <1>2, <1>4 DEF Unmapped
  <2>2. trace' = Silence' /\ forks' = 0 /\ proc' # "runs"
    BY <1>2, <1>3 DEF NotSetUp, Silence
  <2>3. (trace = IF proc = "runs" \/ forks > 0 THEN Expected(walk) ELSE Silence)'
    BY <2>2
  <2>4. (globalArea <=> build.kind = "as64")' /\ getenvs' = 1
    BY <1>1, <1>3
  <2>5. \A s \in Scoped' : ~ setupFailed'[s]
    BY <1>1, <1>2, <1>3 DEF SetUp
  <2> QED BY <1>1, <1>2, <2>1, <2>2, <2>3, <2>4, <2>5 DEF SetUp
<1>7. Served' /\ forkPoint' # NoFork
  <2>1. DOMAIN forkPoint' # DOMAIN NoFork
    BY <1>3 DEF NoFork
  <2>2. forkPoint'.block = b /\ forkPoint'.area = tsArea' /\ forkPoint'.prev = [s \in Scoped |-> 0]
    BY <1>2, <1>3 DEF NotSetUp
  <2> QED BY <1>1, <1>2, <1>3, <1>4, <2>1, <2>2 DEF Served
<1> QED BY <1>1, <1>2, <1>5, <1>6, <1>7 DEF TracingInv

\* What a process that was forked at a block has counted.
LEMMA ExpectedOfOne ==
    ASSUME TracingTypeOK, NEW b \in Located
    PROVE  /\ Expected(<<b>>) = [Silence EXCEPT ![Cell(0, b.loc)] = 1]
           /\ \A s : PrevAfter(<<b>>, s) = IF s = ScopeOf(build.kind, b) THEN Shifted(b.loc) ELSE 0
<1>1. <<>> \in Seq(Located) /\ Append(<<>>, b) = <<b>>
  OBVIOUS
<1>2. Expected(<<>>) = Silence /\ \A s : PrevAfter(<<>>, s) = 0
  BY ExpectedOfNone
<1>3. Cell(0, b.loc) \in Cells
  BY CellInMap DEF Previous
<1>4. Expected(<<b>>) = [Silence EXCEPT ![Cell(0, b.loc)] = (@ + 1) % CountMod]
  <2>1. PrevAfter(<<>>, ScopeOf(build.kind, b)) = 0
    BY <1>2
  <2>2. Expected(Append(<<>>, b)) =
            [Expected(<<>>) EXCEPT ![Cell(PrevAfter(<<>>, ScopeOf(build.kind, b)), b.loc)] = (@ + 1) % CountMod]
    BY <1>1, <1>3, <2>1, ExpectedAfterBlock
  <2> QED BY <1>1, <1>2, <2>1, <2>2
<1>5. Silence[Cell(0, b.loc)] = 0
  BY <1>3 DEF Silence, Cells
<1>6. (0 + 1) % CountMod = 1
  <2>1. CountMod \in Nat /\ CountMod > 1
    BY TracingAssumption
  <2> QED BY <2>1
<1>7. ASSUME NEW s PROVE PrevAfter(<<b>>, s) = IF s = ScopeOf(build.kind, b) THEN Shifted(b.loc) ELSE 0
  <2>1. PrevAfter(Append(<<>>, b), s) = IF s = ScopeOf(build.kind, b) THEN Shifted(b.loc) ELSE PrevAfter(<<>>, s)
    BY <1>1, PrevAfterBlock
  <2> QED BY <1>1, <1>2, <2>1
<1> QED BY <1>4, <1>5, <1>6, <1>7

\* A fork counts the block of its server, and starts with nothing else.
LEMMA ForkStep == ASSUME TracingInv, ForkResumes PROVE TracingInv'
<1> DEFINE b == forkPoint.block
           t == ScopeOf(build.kind, b)
<1>1. TracingTypeOK /\ UNCHANGED <<build, Scoped>> /\ proc = "serves" /\ Served /\ forkPoint # NoFork
  BY DEF TracingInv, ForkResumes, Scoped
<1>2. build.shm = "attached" /\ SetUp
  BY <1>1 DEF TracingInv, Untraced
<1>3. b \in Located /\ t \in Scoped /\ forkPoint.prev = [s \in Scoped |-> 0] /\ forkPoint.area[t] /\ build.kind # "llvm"
  BY <1>1, ScopesOf DEF Served
<1>4. /\ UNCHANGED <<globalArea, setupFailed, forkPoint, getenvs, servers>>
      /\ forks' = forks + 1 /\ proc' = "runs" /\ fds' = FALSE /\ tsArea' = forkPoint.area /\ walk' = <<b>>
      /\ prevLoc' = [forkPoint.prev EXCEPT ![t] = Shifted(b.loc)]
      /\ trace' = [Silence EXCEPT ![Cell(0, b.loc)] = 1]
  <2>1. forkPoint.prev[t] = 0
    BY <1>3
  <2> QED BY <2>1 DEF ForkResumes
<1>5. \A s \in Scoped : prevLoc'[s] = IF s = t THEN Shifted(b.loc) ELSE 0
  <2> HIDE DEF t, b
  <2> QED BY <1>3, <1>4
<1>6. prevLoc' \in [Scoped -> Previous]
  <2>1. Shifted(b.loc) \in Previous /\ 0 \in Previous
    BY <1>3 DEF Previous
  <2> HIDE DEF t, b
  <2> QED BY <1>3, <1>4, <2>1
<1>7. TracingTypeOK'
  <2>1. walk' \in Seq(Located) /\ tsArea' \in [Scoped -> BOOLEAN] /\ forks' \in Nat
    BY <1>1, <1>3, <1>4 DEF Served, TracingTypeOK
  <2> QED BY <1>1, <1>4, <1>6, <2>1 DEF TracingTypeOK
<1>8. Expected(walk)' = Expected(<<b>>) /\ \A s : PrevAfter(walk, s)' = PrevAfter(<<b>>, s)
  BY <1>1, <1>4 DEF Expected, CellAt, PrevAfter, Within
<1>9. trace' = Expected(walk)' /\ \A s \in Scoped : prevLoc'[s] = PrevAfter(walk, s)'
  <2>1. /\ Expected(<<b>>) = [Silence EXCEPT ![Cell(0, b.loc)] = 1]
        /\ \A s : PrevAfter(<<b>>, s) = IF s = t THEN Shifted(b.loc) ELSE 0
    BY <1>1, <1>3, ExpectedOfOne
  <2> HIDE DEF b, t
  <2> QED BY <1>4, <1>5, <1>8, <2>1
<1>10. SetUp'
  <2>1. ~ Unmapped'
    BY <1>1, <1>3, <1>4 DEF Unmapped
  <2>2. ~ Unmapped
    BY <1>1, <1>2 DEF SetUp, NotSetUp
  <2>3. (globalArea <=> build.kind = "as64")' /\ getenvs' = IF build.kind' = "llvm" THEN 0 ELSE 1
    BY <1>1, <1>2, <1>4, <2>2 DEF SetUp
  <2>4. \A s \in Scoped' : ~ setupFailed'[s]
    BY <1>1, <1>2, <1>4 DEF SetUp
  <2>5. build.kind' # "llvm" /\ proc' = "runs" /\ Scoped' = Scoped
    BY <1>1, <1>3, <1>4
  <2>6. (trace = IF proc = "runs" \/ forks > 0 THEN Expected(walk) ELSE Silence)'
    BY <1>9, <2>5
  <2>7. \A s \in Scoped' : prevLoc'[s] = PrevAfter(walk, s)'
    BY <1>9, <2>5
  <2> HIDE DEF b, t
  <2> QED BY <2>1, <2>3, <2>4, <2>5, <2>6, <2>7 DEF SetUp
<1>11. Served' /\ forkPoint' # NoFork
  <2>1. UNCHANGED <<build, Scoped, forkPoint, servers>> /\ forks' = forks + 1 /\ forks \in Nat
    BY <1>1, <1>4 DEF TracingTypeOK
  <2>2. forks' > 0
    BY <2>1
  <2> HIDE DEF b, t
  <2> QED BY <1>1, <2>1, <2>2 DEF Served
<1> QED BY <1>1, <1>2, <1>7, <1>10, <1>11 DEF TracingInv

\* A fork ends, and its server is as it was.
LEMMA ForkEndsStep == ASSUME TracingInv, ForkEnds PROVE TracingInv'
<1>1. TracingTypeOK /\ UNCHANGED <<build, Scoped>> /\ proc = "runs" /\ Served /\ forkPoint # NoFork
  BY DEF TracingInv, ForkEnds, Scoped
<1>2. build.shm = "attached" /\ SetUp
  BY <1>1 DEF TracingInv, Untraced
<1>3. /\ UNCHANGED <<globalArea, setupFailed, trace, forkPoint, walk, getenvs, servers, forks>>
      /\ proc' = "serves" /\ fds' = TRUE /\ tsArea' = forkPoint.area /\ prevLoc' = forkPoint.prev
  BY DEF ForkEnds
<1>4. TracingTypeOK'
  BY <1>1, <1>3 DEF TracingTypeOK, Served, Previous
<1>5. Expected(walk)' = Expected(walk) /\ Silence' = Silence
  BY <1>1, <1>3 DEF Expected, CellAt, PrevAfter, Within, Silence
<1>6. SetUp'
  <2>1. ~ Unmapped /\ build.kind # "llvm"
    BY <1>1, <1>2 DEF SetUp, NotSetUp, Served
  <2>2. ~ Unmapped'
    BY <1>1, <1>3, ScopesOf DEF Unmapped, Served
  <2>3. forks > 0
    BY <1>1 DEF Served
  <2>4. trace' = Expected(walk)'
    BY <1>1, <1>2, <1>3, <1>5 DEF SetUp
  <2> QED BY <1>1, <1>2, <1>3, <2>1, <2>2, <2>3, <2>4 DEF SetUp
<1> QED BY <1>1, <1>2, <1>3, <1>4, <1>6 DEF TracingInv, Served

\* No step of a program leaves the invariant.
LEMMA TracingStep == TracingInv /\ [TracingNext]_tracingVars => TracingInv'
<1> SUFFICES ASSUME TracingInv, [TracingNext]_tracingVars PROVE TracingInv'
  OBVIOUS
<1>1. CASE \E b \in Located :
          Logged(b) \/ Unlogged(b) \/ Adopted(b) \/ SetupAborts(b) \/ SetupResumes(b) \/ ForkServerUp(b)
  BY <1>1, LoggedStep, UnloggedStep, AdoptedStep, AbortsStep, ResumesStep, ServerStep
<1>2. CASE ForkResumes \/ ForkEnds
  BY <1>2, ForkStep, ForkEndsStep
<1>3. CASE UNCHANGED tracingVars
  <2>1. TracingTypeOK' <=> TracingTypeOK
    BY <1>3 DEF tracingVars, TracingTypeOK, Scoped
  <2>2. Expected(walk)' = Expected(walk) /\ \A s : PrevAfter(walk, s)' = PrevAfter(walk, s)
    BY <1>3 DEF tracingVars, Expected, CellAt, PrevAfter, Within
  <2>3. SetUp' <=> SetUp
    BY <1>3, <2>2 DEF tracingVars, SetUp, Unmapped, NotSetUp, Scoped, Silence
  <2>4. Untraced' <=> Untraced
    BY <1>3 DEF tracingVars, Untraced, Scoped, Silence
  <2>5. Served' <=> Served
    BY <1>3 DEF tracingVars, Served, Scoped
  <2>6. UNCHANGED <<build, proc, forkPoint, servers, forks>>
    BY <1>3 DEF tracingVars
  <2> QED BY <2>1, <2>3, <2>4, <2>5, <2>6 DEF TracingInv
<1> QED BY <1>1, <1>2, <1>3 DEF TracingNext

\* Each object that does not get the map asks once: there are no more questions than objects.
LEMMA TracingInvIsFaithful == TracingInv => TracesFaithful
<1> SUFFICES ASSUME TracingInv PROVE TracesFaithful
  OBVIOUS
<1>1. TracingTypeOK /\ IsFiniteSet(Scoped)
  BY ScopesOf DEF TracingInv
<1>2. servers <= 1 /\ (forks > 0 => servers = 1)
  BY DEF TracingInv, Served
<1>3. CASE build.shm = "attached"
  <2>1. SetUp
    BY <1>3 DEF TracingInv
  <2>2. getenvs <= 1
    BY <2>1 DEF SetUp, NotSetUp
  <2> QED BY <1>2, <1>3, <2>1, <2>2 DEF SetUp, TracesFaithful
<1>4. CASE build.shm # "attached"
  <2>1. Untraced
    BY <1>4 DEF TracingInv
  <2>2. {s \in Scoped : setupFailed[s]} \subseteq Scoped
    OBVIOUS
  <2>3. Cardinality({s \in Scoped : setupFailed[s]}) <= Cardinality(Scoped)
    BY <1>1, <2>2, FS_Subset
  <2> QED BY <1>2, <1>4, <2>1, <2>3 DEF Untraced, TracesFaithful, Scoped
<1> QED BY <1>3, <1>4

\* Whatever blocks a program runs, in whichever objects they are, with and
\* without afl-fuzz: the map that the code of afl-as.h and of the LLVM pass
\* leaves is that of the last run, there is one fork server, and the map is
\* not looked for twice.
THEOREM TracesStayFaithful == TracingSpec => []TracesFaithful
<1>1. (\E b \in Builds, l \in BOOLEAN : TracingInit(b, l)) => TracingInv
  BY TracingStarts
<1> QED BY <1>1, TracingStep, TracingInvIsFaithful, PTL DEF TracingSpec

----------------------------------------------------------------------------
(* The fork server of QEMU *)

Requested == cache \cup {tsl[i] : i \in DOMAIN tsl}

\* What was asked for is on its way; who can still ask has nothing that is not.
EmulatorInv ==
    /\ tsl \in Seq(EmuBlocks) /\ own \in [Forks -> SUBSET EmuBlocks]
    /\ emu \in {"wait", "collect", "waitpid"}
    /\ holders \subseteq emuAlive /\ emuAlive \subseteq Forks /\ cache \subseteq EmuBlocks
    /\ emu # "collect" => tsl = <<>> /\ holders = {}
    /\ asked \subseteq Requested
    /\ \A p \in holders : own[p] \subseteq Requested

\* What the pipe holds with one more request and with the first one taken out.
LEMMA RequestsOf ==
    ASSUME NEW s \in Seq(EmuBlocks)
    PROVE  /\ \A b \in EmuBlocks : {Append(s, b)[i] : i \in DOMAIN Append(s, b)} = {s[i] : i \in DOMAIN s} \cup {b}
           /\ s # <<>> => {s[i] : i \in DOMAIN s} = {Head(s)} \cup {Tail(s)[i] : i \in DOMAIN Tail(s)}
<1>1. ASSUME NEW b \in EmuBlocks
      PROVE  {Append(s, b)[i] : i \in DOMAIN Append(s, b)} = {s[i] : i \in DOMAIN s} \cup {b}
  <2>1. /\ DOMAIN Append(s, b) = 1..(Len(s) + 1) /\ DOMAIN s = 1..Len(s) /\ Len(s) \in Nat
        /\ Append(s, b)[Len(s) + 1] = b /\ \A i \in 1..Len(s) : Append(s, b)[i] = s[i]
    OBVIOUS
  <2> QED BY <2>1
<1>2. ASSUME s # <<>>
      PROVE  {s[i] : i \in DOMAIN s} = {Head(s)} \cup {Tail(s)[i] : i \in DOMAIN Tail(s)}
  <2>1. /\ Len(s) \in Nat \ {0} /\ DOMAIN s = 1..Len(s) /\ Head(s) = s[1] /\ DOMAIN Tail(s) = 1..(Len(s) - 1)
        /\ \A i \in 1..(Len(s) - 1) : Tail(s)[i] = s[i + 1]
    BY <1>2
  <2>2. \A i \in 2..Len(s) : i - 1 \in 1..(Len(s) - 1) /\ s[i] = Tail(s)[i - 1]
    BY <2>1
  <2>3. ASSUME NEW i \in DOMAIN s PROVE s[i] \in {Head(s)} \cup {Tail(s)[k] : k \in DOMAIN Tail(s)}
    <3>1. CASE i = 1
      BY <2>1, <3>1
    <3>2. CASE i # 1
      <4>1. i \in 2..Len(s)
        BY <2>1, <2>3, <3>2
      <4>2. i - 1 \in DOMAIN Tail(s) /\ s[i] = Tail(s)[i - 1]
        BY <2>1, <2>2, <4>1
      <4> QED BY <4>2
    <3> QED BY <3>1, <3>2
  <2>4. {Head(s)} \cup {Tail(s)[i] : i \in DOMAIN Tail(s)} \subseteq {s[i] : i \in DOMAIN s}
    BY <2>1
  <2> QED BY <2>3, <2>4
<1> QED BY <1>1, <1>2

\* The steps that change the pipe, its holders or what somebody has translated.
LEMMA EmulatorStarts == EmulatorInit => EmulatorInv
  BY DEF EmulatorInit, EmulatorInv, Forks

LEMMA OrderStep == ASSUME EmulatorInv, Order PROVE EmulatorInv'
<1>1. /\ tsl' = <<>> /\ asked' = {} /\ holders' = {"fork"} /\ emuAlive' = emuAlive \cup {"fork"}
      /\ own' = [own EXCEPT !["fork"] = cache] /\ cache' = cache /\ emu' = "collect"
  BY DEF Order
<1>2. own' \in [Forks -> SUBSET EmuBlocks] /\ own'["fork"] = cache
  BY <1>1 DEF EmulatorInv, Forks
<1> QED BY <1>1, <1>2 DEF EmulatorInv, Requested, Forks

LEMMA TranslateStep ==
    ASSUME EmulatorInv, NEW p \in Forks, NEW b \in EmuBlocks, Translate(p, b) PROVE EmulatorInv'
<1>1. /\ UNCHANGED <<emu, cache, emuAlive, holders>> /\ own' = [own EXCEPT ![p] = @ \cup {b}]
      /\ own' \in [Forks -> SUBSET EmuBlocks] /\ tsl \in Seq(EmuBlocks)
      /\ \A q \in Forks : own'[q] = IF q = p THEN own[p] \cup {b} ELSE own[q]
  BY DEF Translate, EmulatorInv
<1>2. CASE p \in holders
  <2>1. tsl' = Append(tsl, b) /\ asked' = asked \cup {b} /\ tsl' \in Seq(EmuBlocks)
    BY <1>1, <1>2 DEF Translate
  <2>2. Requested' = Requested \cup {b}
    <3>1. {tsl'[i] : i \in DOMAIN tsl'} = {tsl[i] : i \in DOMAIN tsl} \cup {b}
      BY <1>1, <2>1, RequestsOf
    <3> QED BY <1>1, <3>1 DEF Requested
  <2>3. emu = "collect"
    BY <1>2 DEF EmulatorInv
  <2> HIDE DEF Requested
  <2> QED BY <1>1, <1>2, <2>1, <2>2, <2>3 DEF EmulatorInv
<1>3. CASE p \notin holders
  <2>1. UNCHANGED <<tsl, asked>> /\ Requested' = Requested
    BY <1>1, <1>3 DEF Translate, Requested
  <2> QED BY <1>1, <1>3, <2>1 DEF EmulatorInv
<1> QED BY <1>2, <1>3

LEMMA TargetForksStep == ASSUME EmulatorInv, TargetForks PROVE EmulatorInv'
<1>1. /\ UNCHANGED <<emu, cache, tsl, asked>> /\ emuAlive' = Forks
      /\ own' = [own EXCEPT !["grandchild"] = own["fork"]]
      /\ holders' = IF "fork" \in holders THEN Forks ELSE holders
      /\ "grandchild" \notin holders
  BY DEF TargetForks, EmulatorInv
<1>2. own' \in [Forks -> SUBSET EmuBlocks] /\ own'["fork"] = own["fork"] /\ own'["grandchild"] = own["fork"]
  BY <1>1 DEF EmulatorInv, Forks
<1>3. Requested' = Requested
  BY <1>1 DEF Requested
<1>4. holders' \subseteq Forks /\ (holders = {} => holders' = {})
  BY <1>1 DEF EmulatorInv
<1>5. \A p \in holders' : own'[p] \subseteq Requested'
  <2>1. CASE "fork" \in holders
    <3>1. own["fork"] \subseteq Requested
      BY <2>1 DEF EmulatorInv
    <3>2. \A p \in Forks : own'[p] = own["fork"]
      BY <1>2 DEF Forks
    <3> QED BY <1>1, <1>3, <1>4, <3>1, <3>2
  <2>2. CASE "fork" \notin holders
    <3>1. holders = {} /\ holders' = {}
      BY <1>1, <2>2 DEF EmulatorInv, Forks
    <3> QED BY <3>1
  <2> QED BY <2>1, <2>2
<1>6. asked' \subseteq Requested'
  BY <1>1, <1>3 DEF EmulatorInv
<1> HIDE DEF Requested
<1> QED BY <1>1, <1>2, <1>4, <1>5, <1>6 DEF EmulatorInv

LEMMA CollectStep == ASSUME EmulatorInv, CollectRequest PROVE EmulatorInv'
<1>1. /\ UNCHANGED <<emu, own, emuAlive, holders, asked>> /\ tsl \in Seq(EmuBlocks) /\ tsl # <<>>
      /\ cache' = cache \cup {Head(tsl)} /\ tsl' = Tail(tsl) /\ emu = "collect"
  BY DEF CollectRequest, EmulatorInv
<1>2. tsl' \in Seq(EmuBlocks) /\ Head(tsl) \in EmuBlocks
  BY <1>1
<1>3. Requested' = Requested
  <2> DEFINE S(q) == {q[i] : i \in DOMAIN q}
  <2>1. S(tsl) = {Head(tsl)} \cup S(Tail(tsl))
    BY <1>1, RequestsOf
  <2>2. Requested = cache \cup S(tsl) /\ Requested' = cache' \cup S(tsl')
    BY DEF Requested
  <2> HIDE DEF S
  <2> QED BY <1>1, <2>1, <2>2
<1>4. asked' \subseteq Requested' /\ \A p \in holders' : own'[p] \subseteq Requested'
  BY <1>1, <1>3 DEF EmulatorInv
<1>5. cache' \subseteq EmuBlocks /\ emu' = "collect"
  BY <1>1, <1>2 DEF EmulatorInv
<1> QED BY <1>1, <1>2, <1>4, <1>5 DEF EmulatorInv

LEMMA EmulatorStep == EmulatorInv /\ [EmulatorNext]_emuVars => EmulatorInv'
<1> SUFFICES ASSUME EmulatorInv, [EmulatorNext]_emuVars PROVE EmulatorInv'
  OBVIOUS
<1>1. CASE Order \/ TargetForks \/ CollectRequest
  BY <1>1, OrderStep, TargetForksStep, CollectStep
<1>2. CASE PipeBroken \/ StatusRelayed
  BY <1>2 DEF PipeBroken, StatusRelayed, EmulatorInv, Requested
<1>3. ASSUME NEW p \in Forks, NEW b \in EmuBlocks, Translate(p, b) PROVE EmulatorInv'
  BY <1>3, TranslateStep
<1>4. ASSUME NEW p \in Forks, ClosesAll(p) \/ ForkEndsOrDies(p) PROVE EmulatorInv'
  BY <1>4 DEF ClosesAll, ForkEndsOrDies, EmulatorInv, Requested
<1>5. CASE UNCHANGED emuVars
  BY <1>5 DEF emuVars, EmulatorInv, Requested
<1> QED BY <1>1, <1>2, <1>3, <1>4, <1>5 DEF EmulatorNext

\* However the target forks, detaches or is killed, and whatever the pipe
\* holds: when QEMU's fork server answers it has every block that was asked
\* for, and nobody who can still ask has a block that no later fork would
\* find.
THEOREM CacheAlwaysMirrors == EmulatorSpec => []CacheMirrors
<1>1. EmulatorInv => CacheMirrors
  BY DEF EmulatorInv, CacheMirrors, Requested
<1> QED BY <1>1, EmulatorStarts, EmulatorStep, PTL DEF EmulatorSpec

=============================================================================
