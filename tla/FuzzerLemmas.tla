---------------------------- MODULE FuzzerLemmas ----------------------------
(***************************************************************************)
(* Lemmas about the operators of SeedQueue and StateTargets, for maps,     *)
(* queues and sets of states of any size.  The folds over the bytes of the *)
(* map, the codes of a response and the regions of a seed are recursive    *)
(* functions over sets of positions: a set of values that holds the base   *)
(* and is closed under one step holds the result.                          *)
(***************************************************************************)
EXTENDS SeedQueue, StateTargets, FiniteSetTheorems, SequenceTheorems,
        WellFoundedInduction, TLAPS

----------------------------------------------------------------------------
(* Folds *)

\* A set of numbers with 0 and every successor has all naturals.
LEMMA SetInduction ==
    ASSUME NEW T, 0 \in T, \A n \in Nat : n \in T => n + 1 \in T
    PROVE  Nat \subseteq T
<1> DEFINE Rest == Nat \ T
           Less == {ss \in Nat \X Nat : ss[1] < ss[2]}
<1>1. IsWellFoundedOn(Less, Nat)
  BY NatLessThanWellFounded DEF OpToRel
<1>2. SUFFICES ASSUME Rest # {} PROVE FALSE
  OBVIOUS
<1> HIDE DEF Less
<1>3. Rest \subseteq Nat
  OBVIOUS
<1>4. PICK m \in Rest : \A k \in Rest : ~ (<<k, m>> \in Less)
  <2> HIDE DEF Rest
  <2> QED BY <1>1, <1>2, <1>3, WFMin
<1>5. m \in Nat /\ m # 0 /\ m - 1 \in Nat
  OBVIOUS
<1>6. m - 1 \in Rest
  <2>1. (m - 1) + 1 = m
    BY <1>5
  <2> QED BY <1>5, <2>1
<1>7. <<m - 1, m>> \in Less
  BY <1>5 DEF Less
<1> QED BY <1>4, <1>6, <1>7

\* A set of naturals that is not empty has a least element.
LEMMA LeastExists ==
    ASSUME NEW T, T \subseteq Nat, T # {}
    PROVE  \E m \in T : \A k \in T : m <= k
<1> DEFINE Less == {ss \in Nat \X Nat : ss[1] < ss[2]}
<1>1. IsWellFoundedOn(Less, Nat)
  BY NatLessThanWellFounded DEF OpToRel
<1> HIDE DEF Less
<1>2. PICK m \in T : \A k \in T : ~ (<<k, m>> \in Less)
  BY <1>1, WFMin
<1>3. \A k \in T : ~ (k < m)
  BY <1>2 DEF Less
<1> QED BY <1>3


\* The position that a fold takes last.
LEMMA MaxOf ==
    ASSUME NEW k \in Nat, NEW s, s \subseteq 1 .. k, s # {}
    PROVE  Max(s) \in s /\ \A i \in s : i <= Max(s)
<1> DEFINE Below == {d \in Nat : k - d \in s}
<1>1. Below # {}
  <2>1. PICK i \in s : TRUE
    OBVIOUS
  <2>2. i \in Int /\ k - i \in Nat /\ k - (k - i) = i
    BY <2>1
  <2> QED BY <2>1, <2>2
<1>2. PICK m \in Below : \A d \in Below : m <= d
  <2>1. Below \subseteq Nat
    OBVIOUS
  <2> HIDE DEF Below
  <2> QED BY <1>1, <2>1, LeastExists
<1>3. ASSUME NEW i \in s PROVE i <= k - m
  <2>1. i \in Int /\ k - i \in Nat /\ k - (k - i) = i
    BY <1>3
  <2>2. k - i \in Below
    BY <2>1
  <2>3. m <= k - i
    BY <1>2, <2>2
  <2> QED BY <2>1, <2>3, <1>2
<1>4. k - m \in s
  BY <1>2
<1>5. \E x \in s : \A y \in s : y <= x
  BY <1>3, <1>4
<1> QED BY <1>5 DEF Max

\* The positions before it.
LEMMA WithoutMax ==
    ASSUME NEW k \in Nat, NEW s, s \subseteq 1 .. (k + 1), s # {}
    PROVE  s \ {Max(s)} \subseteq 1 .. k
<1>1. Max(s) \in s /\ \A i \in s : i <= Max(s)
  <2>1. k + 1 \in Nat
    OBVIOUS
  <2> QED BY <2>1, MaxOf
<1>2. ASSUME NEW i \in s, i # Max(s) PROVE i \in 1 .. k
  <2>1. i \in 1 .. (k + 1) /\ Max(s) \in 1 .. (k + 1) /\ i <= Max(s)
    BY <1>1
  <2> QED BY <2>1, <1>2
<1> QED BY <1>2

\* What is true of the value at each set when it is of the value without its
\* largest element is true of all.
LEMMA FoldStays ==
    ASSUME NEW n \in Nat, NEW f, NEW G,
           <<{}, f[{}]>> \in G,
           \A s : s \subseteq 1 .. n /\ s # {} /\ <<s \ {Max(s)}, f[s \ {Max(s)}]>> \in G => <<s, f[s]>> \in G
    PROVE  \A s : s \subseteq 1 .. n => <<s, f[s]>> \in G
<1> DEFINE T == {k \in Nat : k <= n => \A s : s \subseteq 1 .. k => <<s, f[s]>> \in G}
<1>1. 0 \in T
  <2>1. \A s : s \subseteq 1 .. 0 => s = {}
    OBVIOUS
  <2> QED BY <2>1
<1>2. ASSUME NEW k \in Nat, k \in T PROVE k + 1 \in T
  <2>1. ASSUME k + 1 <= n, NEW s, s \subseteq 1 .. (k + 1) PROVE <<s, f[s]>> \in G
    <3>1. CASE s = {}
      BY <3>1
    <3>2. CASE s # {}
      <4>1. s \ {Max(s)} \subseteq 1 .. k
        BY <2>1, <3>2, WithoutMax
      <4>2. k <= n
        BY <2>1
      <4>3. <<s \ {Max(s)}, f[s \ {Max(s)}]>> \in G
        BY <1>2, <4>1, <4>2
      <4>4. s \subseteq 1 .. n
        BY <2>1
      <4> QED BY <3>2, <4>3, <4>4
    <3> QED BY <3>1, <3>2
  <2> QED BY <2>1
<1>3. n \in T
  <2> HIDE DEF T
  <2> QED BY <1>1, <1>2, SetInduction
<1>4. n <= n
  OBVIOUS
<1> QED BY <1>3, <1>4

\* In particular a set of values that a step does not leave.
LEMMA FoldIn ==
    ASSUME NEW n \in Nat, NEW f, NEW S, f[{}] \in S,
           \A s : s \subseteq 1 .. n /\ s # {} /\ f[s \ {Max(s)}] \in S => f[s] \in S
    PROVE  f[1 .. n] \in S
<1> DEFINE G == (SUBSET (1 .. n)) \X S
<1>1. <<{}, f[{}]>> \in G
  OBVIOUS
<1>2. \A s : s \subseteq 1 .. n /\ s # {} /\ <<s \ {Max(s)}, f[s \ {Max(s)}]>> \in G => <<s, f[s]>> \in G
  OBVIOUS
<1>3. \A s : s \subseteq 1 .. n => <<s, f[s]>> \in G
  <2> HIDE DEF G
  <2> QED BY <1>1, <1>2, FoldStays
<1> QED BY <1>3

\* f[s] is the fold of g over the positions s, from the first to the last.
FoldsTo(f, n, S, base, g) ==
    /\ f \in [SUBSET (1 .. n) -> S]
    /\ \A s \in SUBSET (1 .. n) :
          f[s] = IF s = {} THEN base ELSE g[<<f[s \ {Max(s)}], Max(s)>>]

\* There is one, with values where g has them.
LEMMA FoldExists ==
    ASSUME NEW n \in Nat, NEW S, NEW base \in S, NEW g \in [S \X (1 .. n) -> S]
    PROVE  \E f : FoldsTo(f, n, S, base, g)
<1> DEFINE Value(f, s) == IF s = {} THEN base ELSE g[<<f[s \ {Max(s)}], Max(s)>>]
           Folds(f, k) == f = [s \in SUBSET (1 .. k) |-> Value(f, s)]
           T == {k \in Nat : \E f : Folds(f, k)}
<1>1. 0 \in T
  <2> DEFINE f == [s \in SUBSET (1 .. 0) |-> base]
  <2>1. \A s \in SUBSET (1 .. 0) : s = {}
    OBVIOUS
  <2>2. Folds(f, 0)
    BY <2>1
  <2> QED BY <2>2
<1>2. ASSUME NEW k \in Nat, k \in T PROVE k + 1 \in T
  <2>1. PICK f : Folds(f, k)
    BY <1>2
  <2> DEFINE h == [s \in SUBSET (1 .. (k + 1)) |->
                     IF s \subseteq 1 .. k THEN f[s] ELSE g[<<f[s \ {Max(s)}], Max(s)>>]]
  <2>2. ASSUME NEW s, s \subseteq 1 .. (k + 1) PROVE h[s] = Value(h, s)
    <3>1. s \in SUBSET (1 .. (k + 1))
      BY <2>2
    <3>2. CASE s = {}
      <4>1. s \subseteq 1 .. k /\ s \in SUBSET (1 .. k)
        BY <3>2
      <4> QED BY <2>1, <3>1, <3>2, <4>1
    <3>3. CASE s # {}
      <4>1. s \ {Max(s)} \subseteq 1 .. k /\ s \ {Max(s)} \in SUBSET (1 .. (k + 1))
        BY <2>2, <3>3, WithoutMax
      <4>2. h[s \ {Max(s)}] = f[s \ {Max(s)}]
        BY <4>1
      <4>3. CASE s \subseteq 1 .. k
        <5>1. s \in SUBSET (1 .. k)
          BY <4>3
        <5>2. f[s] = Value(f, s)
          BY <2>1, <5>1
        <5> QED BY <3>1, <3>3, <4>2, <4>3, <5>2
      <4>4. CASE ~ (s \subseteq 1 .. k)
        BY <3>1, <3>3, <4>2, <4>4
      <4> QED BY <4>3, <4>4
    <3> QED BY <3>2, <3>3
  <2>3. Folds(h, k + 1)
    <3>1. \A s \in SUBSET (1 .. (k + 1)) : h[s] = Value(h, s)
      BY <2>2
    <3>2. h = [s \in SUBSET (1 .. (k + 1)) |-> h[s]]
      OBVIOUS
    <3> HIDE DEF h, Value
    <3> QED BY <3>1, <3>2
  <2> HIDE DEF h
  <2> QED BY <2>3
<1>3. n \in T
  <2> HIDE DEF T
  <2> QED BY <1>1, <1>2, SetInduction
<1>4. PICK f : Folds(f, n)
  BY <1>3
<1> DEFINE G == (SUBSET (1 .. n)) \X S
<1>5. ASSUME NEW s, s \subseteq 1 .. n, s # {}, <<s \ {Max(s)}, f[s \ {Max(s)}]>> \in G
      PROVE  <<s, f[s]>> \in G
  <2>1. f[s] = g[<<f[s \ {Max(s)}], Max(s)>>]
    BY <1>4, <1>5
  <2>2. Max(s) \in 1 .. n
    BY <1>5, MaxOf
  <2>3. f[s \ {Max(s)}] \in S
    BY <1>5
  <2>4. f[s] \in S
    BY <2>1, <2>2, <2>3
  <2> QED BY <1>5, <2>4
<1>6. <<{}, f[{}]>> \in G
  <2>1. f[{}] = base
    BY <1>4
  <2> QED BY <2>1
<1>7. \A s : s \subseteq 1 .. n => <<s, f[s]>> \in G
  <2> HIDE DEF G, Folds
  <2> QED BY <1>5, <1>6, FoldStays
<1>8. \A s : s \subseteq 1 .. n => f[s] \in S
  BY <1>7
<1>9. f \in [SUBSET (1 .. n) -> S]
  BY <1>4, <1>8
<1>10. FoldsTo(f, n, S, base, g)
  <2> HIDE DEF G
  <2> QED BY <1>4, <1>9 DEF FoldsTo
<1> QED BY <1>10

----------------------------------------------------------------------------
(* update_bitmap_score *)

Entry == [initial : BOOLEAN, favored : BOOLEAN, wasFuzzed : BOOLEAN, calFailed : Nat,
          factor : Nat, uniqueStates : Nat, generating : States, mini : SUBSET Bytes,
          tcRef : Nat, redundant : BOOLEAN, regions : Seq(Seq(States))]

\* What update_bitmap_score leaves alone: all but the trace and its count.
Rest(e) == <<e.initial, e.favored, e.wasFuzzed, e.calFailed, e.factor, e.uniqueStates,
             e.generating, e.redundant, e.regions>>

KeepsTraces(entries, top) ==
    \A q \in DOMAIN entries :
        LET won == {b \in Bytes : top[b] = q}
        IN entries[q].tcRef = Cardinality(won) /\ (won # {} <=> entries[q].mini # NoTrace)

\* The values the fold over the bytes takes.
Scored(entries, top) ==
    {r \in [entries : [DOMAIN entries -> Entry], top : [Bytes -> {Nobody} \union DOMAIN entries],
            changed : BOOLEAN] :
        /\ KeepsTraces(r.entries, r.top)
        /\ \A q \in DOMAIN entries : Rest(r.entries[q]) = Rest(entries[q])
        /\ ~ r.changed => r.entries = entries /\ r.top = top}

\* The bytes that a seed wins are counted by a natural number.
LEMMA WonCount ==
    ASSUME NEW top \in [Bytes -> Int], NEW q
    PROVE  /\ IsFiniteSet({b \in Bytes : top[b] = q})
           /\ Cardinality({b \in Bytes : top[b] = q}) \in Nat
<1>1. IsFiniteSet(Bytes)
  BY QueueAssumption, FS_Interval DEF Bytes
<1>2. {b \in Bytes : top[b] = q} \in SUBSET Bytes
  OBVIOUS
<1>3. IsFiniteSet({b \in Bytes : top[b] = q})
  BY <1>1, <1>2, FS_Subset
<1> QED BY <1>3, FS_CardinalityType

\* The entry has a trace while it wins the bytes W.
Traced(e, W) == e.tcRef = Cardinality(W) /\ (W # {} <=> e.mini # NoTrace)

LEMMA LosesByte ==
    ASSUME NEW e \in Entry, NEW W, IsFiniteSet(W), NEW b \in W, Traced(e, W)
    PROVE  /\ Unreferenced(e) \in Entry /\ Rest(Unreferenced(e)) = Rest(e)
           /\ Traced(Unreferenced(e), W \ {b})
<1>1. /\ IsFiniteSet(W \ {b}) /\ Cardinality(W \ {b}) = Cardinality(W) - 1
      /\ Cardinality(W) \in Nat
  BY FS_RemoveElement, FS_CardinalityType
<1>2. Cardinality(W \ {b}) \in Nat /\ (Cardinality(W \ {b}) = 0 <=> W \ {b} = {})
  BY <1>1, FS_EmptySet, FS_CardinalityType
<1>3. PICK k, V : k = Cardinality(W \ {b}) /\ V = W \ {b}
  OBVIOUS
<1>4. /\ k \in Nat /\ (k = 0 <=> V = {}) /\ e.tcRef - 1 = k /\ (e.tcRef = 1 <=> k = 0)
      /\ e.mini # {} /\ e.mini \in SUBSET Bytes
  BY <1>1, <1>2, <1>3 DEF Traced, NoTrace, Entry
<1>5. PICK m : m = IF k = 0 THEN {} ELSE e.mini
  OBVIOUS
<1>6. Unreferenced(e) = [e EXCEPT !.tcRef = k, !.mini = m]
  BY <1>4, <1>5 DEF Unreferenced, NoTrace
<1>7. m \in SUBSET Bytes /\ (m # {} <=> V # {})
  BY <1>4, <1>5
<1>8. Unreferenced(e) \in Entry /\ Rest(Unreferenced(e)) = Rest(e)
  <2> HIDE DEF Bytes
  <2> QED BY <1>4, <1>6, <1>7 DEF Entry, Rest
<1>9. Unreferenced(e).tcRef = k /\ Unreferenced(e).mini = m
  BY <1>6 DEF Entry
<1> QED BY <1>3, <1>7, <1>8, <1>9 DEF Traced, NoTrace

LEMMA GainsByte ==
    ASSUME NEW e \in Entry, NEW W, IsFiniteSet(W), NEW b, b \notin W, Traced(e, W),
           NEW trace \in [Bytes -> SUBSET Bits], NEW c \in Bytes, trace[c] # {}
    PROVE  /\ Referenced(e, trace) \in Entry /\ Rest(Referenced(e, trace)) = Rest(e)
           /\ Traced(Referenced(e, trace), W \union {b})
<1>1. /\ IsFiniteSet(W \union {b}) /\ Cardinality(W \union {b}) = Cardinality(W) + 1
      /\ Cardinality(W) \in Nat
  BY FS_AddElement, FS_CardinalityType
<1>2. minimize_bits(trace) \in SUBSET Bytes /\ minimize_bits(trace) # {}
  BY DEF minimize_bits
<1>3. PICK k, V : k = Cardinality(W \union {b}) /\ V = W \union {b}
  OBVIOUS
<1>4. k \in Nat /\ V # {} /\ e.tcRef + 1 = k /\ e.mini \in SUBSET Bytes
  BY <1>1, <1>3 DEF Traced, Entry
<1>5. PICK m : m = IF e.mini = {} THEN minimize_bits(trace) ELSE e.mini
  OBVIOUS
<1>6. Referenced(e, trace) = [e EXCEPT !.tcRef = k, !.mini = m]
  BY <1>4, <1>5 DEF Referenced, NoTrace
<1>7. m \in SUBSET Bytes /\ m # {}
  BY <1>2, <1>4, <1>5
<1>8. Referenced(e, trace) \in Entry /\ Rest(Referenced(e, trace)) = Rest(e)
  BY <1>4, <1>6, <1>7 DEF Entry, Rest
<1>9. Referenced(e, trace).tcRef = k /\ Referenced(e, trace).mini = m
  BY <1>6 DEF Entry
<1> QED BY <1>3, <1>4, <1>7, <1>8, <1>9 DEF Traced, NoTrace

\* A winner that takes a byte gains one reference and the one before it loses
\* one: each keeps its trace exactly while it wins a byte.
LEMMA TakeByteKeeps ==
    ASSUME NEW n \in Nat, NEW entries \in [1 .. n -> Entry], NEW top, NEW r \in Scored(entries, top),
           NEW q \in 1 .. n, NEW b \in Bytes, NEW trace \in [Bytes -> SUBSET Bits], trace[b] # {}
    PROVE  TakeByte(r, q, b, trace) \in Scored(entries, top)
<1> DEFINE Won(t, p) == {c \in Bytes : t[c] = p}
<1>1. PICK es0, t0 : r.entries = es0 /\ r.top = t0
  OBVIOUS
<1>2. /\ es0 \in [1 .. n -> Entry] /\ t0 \in [Bytes -> 0 .. n]
      /\ \A p \in 1 .. n : Rest(es0[p]) = Rest(entries[p]) /\ Traced(es0[p], Won(t0, p))
  <2>1. /\ es0 \in [1 .. n -> Entry] /\ t0 \in [Bytes -> {Nobody} \union 1 .. n]
        /\ KeepsTraces(es0, t0) /\ \A p \in 1 .. n : Rest(es0[p]) = Rest(entries[p])
    BY <1>1 DEF Scored
  <2>2. t0 \in [Bytes -> 0 .. n]
    BY <2>1 DEF Nobody
  <2>3. DOMAIN es0 = 1 .. n
    BY <2>1
  <2>4. \A p \in 1 .. n : Traced(es0[p], Won(t0, p))
    BY <2>1, <2>3 DEF KeepsTraces, Traced
  <2> QED BY <2>1, <2>2, <2>4
<1>3. \A p : IsFiniteSet(Won(t0, p)) /\ IsFiniteSet(Won(t0, p) \ {b})
  <2>1. t0 \in [Bytes -> Int]
    BY <1>2
  <2>2. \A p : IsFiniteSet(Won(t0, p))
    BY <2>1, WonCount
  <2> HIDE DEF Won
  <2> QED BY <2>2, FS_RemoveElement
<1>4. PICK es : es = IF t0[b] = Nobody THEN es0 ELSE [es0 EXCEPT ![t0[b]] = Unreferenced(@)]
  OBVIOUS
<1>5. /\ es \in [1 .. n -> Entry]
      /\ \A p \in 1 .. n : Rest(es[p]) = Rest(entries[p]) /\ Traced(es[p], Won(t0, p) \ {b})
  <2>1. CASE t0[b] = Nobody
    <3>1. \A p \in 1 .. n : Won(t0, p) \ {b} = Won(t0, p)
      BY <2>1 DEF Nobody
    <3>2. es = es0
      BY <1>4, <2>1
    <3> HIDE DEF Won
    <3> QED BY <1>2, <3>1, <3>2
  <2>2. CASE t0[b] # Nobody
    <3>1. PICK old : old = t0[b]
      OBVIOUS
    <3>2. old \in 1 .. n /\ b \in Won(t0, old)
      BY <1>2, <2>2, <3>1 DEF Nobody
    <3>3. es = [es0 EXCEPT ![old] = Unreferenced(es0[old])]
      BY <1>4, <2>2, <3>1
    <3>4. \A p \in 1 .. n : p # old => Won(t0, p) \ {b} = Won(t0, p)
      BY <3>1
    <3> HIDE DEF Won
    <3>5. /\ Unreferenced(es0[old]) \in Entry /\ Rest(Unreferenced(es0[old])) = Rest(es0[old])
          /\ Traced(Unreferenced(es0[old]), Won(t0, old) \ {b})
      BY <1>2, <1>3, <3>2, LosesByte
    <3> QED BY <1>2, <3>2, <3>3, <3>4, <3>5
  <2> QED BY <2>1, <2>2
<1>6. PICK es2, t2 : es2 = [es EXCEPT ![q] = Referenced(@, trace)] /\ t2 = [t0 EXCEPT ![b] = q]
  OBVIOUS
<1>7. /\ es2 \in [1 .. n -> Entry] /\ t2 \in [Bytes -> 0 .. n]
      /\ \A p \in 1 .. n : Rest(es2[p]) = Rest(entries[p]) /\ Traced(es2[p], Won(t2, p))
  <2>1. t2 \in [Bytes -> 0 .. n]
    BY <1>2, <1>6
  <2>2. \A p \in 1 .. n : p # q => Won(t2, p) = Won(t0, p) \ {b}
    BY <1>2, <1>6
  <2>3. Won(t2, q) = (Won(t0, q) \ {b}) \union {b}
    BY <1>2, <1>6
  <2> HIDE DEF Won
  <2>4. /\ Referenced(es[q], trace) \in Entry /\ Rest(Referenced(es[q], trace)) = Rest(es[q])
        /\ Traced(Referenced(es[q], trace), Won(t2, q))
    <3>1. b \notin Won(t0, q) \ {b}
      OBVIOUS
    <3>2. PICK W : W = Won(t0, q) \ {b}
      OBVIOUS
    <3>3. es[q] \in Entry /\ Traced(es[q], W) /\ IsFiniteSet(W) /\ b \notin W
      BY <1>3, <1>5, <3>1, <3>2
    <3> QED BY <2>3, <3>2, <3>3, GainsByte
  <2> QED BY <1>5, <1>6, <2>1, <2>2, <2>4
<1>8. TakeByte(r, q, b, trace) = [entries |-> es2, top |-> t2, changed |-> TRUE]
  BY <1>1, <1>4, <1>6 DEF TakeByte
<1>9. KeepsTraces(es2, t2)
  BY <1>7 DEF KeepsTraces, Traced
<1> HIDE DEF Won
<1> QED BY <1>7, <1>8, <1>9 DEF Scored, Nobody

LEMMA BytesInOrder ==
    /\ DOMAIN InOrder = 1 .. MapSize /\ MapSize \in Nat /\ Bytes = 1 .. MapSize
    /\ \A b \in 1 .. MapSize : InOrder[b] = b /\ InOrder[b] \in Bytes
  BY QueueAssumption DEF InOrder, Bytes

\* Every winner keeps its trace through update_bitmap_score, which changes
\* nothing else of an entry, and nothing at all unless it says so.
LEMMA ScoreKeeps ==
    ASSUME NEW n \in Nat, NEW entries \in [1 .. n -> Entry], NEW top \in [Bytes -> {Nobody} \union 1 .. n],
           KeepsTraces(entries, top), NEW q \in 1 .. n, NEW trace \in [Bytes -> SUBSET Bits]
    PROVE  update_bitmap_score(entries, top, q, trace) \in Scored(entries, top)
<1> DEFINE S == Scored(entries, top)
           base == [entries |-> entries, top |-> top, changed |-> FALSE]
           Op(r, b) == IF trace[b] # {} /\ Wins(r.entries, q, r.top[b]) THEN TakeByte(r, q, b, trace) ELSE r
           P(f) == f = [s \in SUBSET (DOMAIN InOrder) |->
                           IF s = {} THEN base ELSE Op(f[s \ {Max(s)}], InOrder[Max(s)])]
           F == CHOOSE f : P(f)
           g == [x \in S \X (1 .. MapSize) |-> Op(x[1], InOrder[x[2]])]
<1>1. update_bitmap_score(entries, top, q, trace) = F[DOMAIN InOrder]
  BY DEF update_bitmap_score, FoldLeft, MapThenFoldSet
<1>2. base \in S
  BY DEF Scored, Rest
<1>3. \A r \in S, b \in Bytes : Op(r, b) \in S
  BY TakeByteKeeps
<1> HIDE DEF S, Op, base
<1>4. DOMAIN InOrder = 1 .. MapSize /\ MapSize \in Nat
  BY BytesInOrder
<1>5. g \in [S \X (1 .. MapSize) -> S]
  BY <1>3, BytesInOrder
<1>6. \E f : P(f)
  <2>1. PICK f : FoldsTo(f, MapSize, S, base, g)
    <3> HIDE DEF g, P, F
    <3> QED BY <1>2, <1>4, <1>5, FoldExists
  <2>2. ASSUME NEW s \in SUBSET (1 .. MapSize), s # {}
        PROVE  g[<<f[s \ {Max(s)}], Max(s)>>] = Op(f[s \ {Max(s)}], InOrder[Max(s)])
    <3>1. f[s \ {Max(s)}] \in S /\ Max(s) \in 1 .. MapSize
      BY <1>4, <2>1, <2>2, MaxOf DEF FoldsTo
    <3> QED BY <3>1
  <2>3. P(f)
    <3> HIDE DEF g
    <3> QED BY <1>4, <2>1, <2>2 DEF FoldsTo
  <2> QED BY <2>3
<1>7. P(F)
  <2> HIDE DEF P
  <2> QED BY <1>6
<1> HIDE DEF F
<1>8. F[{}] \in S
  <2>1. F[{}] = base
    BY <1>4, <1>7
  <2> QED BY <1>2, <2>1
<1>9. ASSUME NEW s, s \subseteq 1 .. MapSize, s # {}, F[s \ {Max(s)}] \in S
      PROVE  F[s] \in S
  <2>1. F[s] = Op(F[s \ {Max(s)}], InOrder[Max(s)])
    BY <1>4, <1>7, <1>9
  <2>2. Max(s) \in 1 .. MapSize
    BY <1>4, <1>9, MaxOf
  <2>3. InOrder[Max(s)] \in Bytes
    BY <2>2, BytesInOrder
  <2> QED BY <1>3, <1>9, <2>1, <2>3
<1>10. F[1 .. MapSize] \in S
  <2> HIDE DEF P
  <2> QED BY <1>4, <1>8, <1>9, FoldIn
<1> QED BY <1>1, <1>4, <1>10 DEF S

----------------------------------------------------------------------------
(* cull_queue *)

\* The bytes picked have a winner, and each byte with a winner is picked or is
\* in the trace of the winner of a byte that is.
LEMMA PickedCovers ==
    ASSUME NEW top
    PROVE  /\ Picked(top) \subseteq {b \in Bytes : top[b] # Nobody}
           /\ \A b \in Bytes : top[b] # Nobody =>
                 b \in Picked(top) \/ \E c \in Picked(top) : b \in queue[top[c]].mini
<1> DEFINE S == SUBSET Bytes
           Op(taken, b) == IF top[b] # Nobody /\ \A c \in taken : b \notin queue[top[c]].mini
                           THEN taken \union {b} ELSE taken
           P(f) == f = [s \in SUBSET (DOMAIN InOrder) |->
                           IF s = {} THEN {} ELSE Op(f[s \ {Max(s)}], InOrder[Max(s)])]
           F == CHOOSE f : P(f)
           g == [x \in S \X (1 .. MapSize) |-> Op(x[1], InOrder[x[2]])]
           Covered(s, taken) ==
               /\ taken \subseteq {b \in Bytes : top[b] # Nobody}
               /\ \A b \in s : top[b] # Nobody =>
                     b \in taken \/ \E c \in taken : b \in queue[top[c]].mini
           G == {sv \in (SUBSET Bytes) \X (SUBSET Bytes) : Covered(sv[1], sv[2])}
<1>1. Picked(top) = F[DOMAIN InOrder]
  BY DEF Picked, PickedFrom, FoldLeft, MapThenFoldSet
<1>2. ASSUME NEW taken \in S, NEW b \in Bytes PROVE Op(taken, b) \in S
  OBVIOUS
<1>3. ASSUME NEW s \in S, NEW taken \in S, Covered(s, taken), NEW b \in Bytes
      PROVE  Covered(s \union {b}, Op(taken, b))
  BY <1>3
<1> HIDE DEF Op, Covered
<1>4. g \in [S \X (1 .. MapSize) -> S]
  BY <1>2, BytesInOrder
<1>5. \E f : P(f)
  <2>1. PICK f : FoldsTo(f, MapSize, S, {}, g)
    <3>1. {} \in S /\ MapSize \in Nat
      BY BytesInOrder
    <3> HIDE DEF g, P, F, G, S
    <3> QED BY <1>4, <3>1, FoldExists
  <2>2. ASSUME NEW s \in SUBSET (1 .. MapSize), s # {}
        PROVE  g[<<f[s \ {Max(s)}], Max(s)>>] = Op(f[s \ {Max(s)}], InOrder[Max(s)])
    <3>1. f[s \ {Max(s)}] \in S /\ Max(s) \in 1 .. MapSize
      BY <2>1, <2>2, MaxOf, BytesInOrder DEF FoldsTo
    <3> HIDE DEF S
    <3> QED BY <3>1
  <2>3. P(f)
    <3> HIDE DEF g
    <3> QED BY <2>1, <2>2, BytesInOrder DEF FoldsTo
  <2> QED BY <2>3
<1>6. P(F)
  <2> HIDE DEF P
  <2> QED BY <1>5
<1> HIDE DEF F
<1>7. <<{}, F[{}]>> \in G
  <2>1. F[{}] = {}
    BY <1>6, BytesInOrder
  <2> QED BY <2>1 DEF Covered
<1>8. ASSUME NEW s, s \subseteq 1 .. MapSize, s # {}, <<s \ {Max(s)}, F[s \ {Max(s)}]>> \in G
      PROVE  <<s, F[s]>> \in G
  <2>1. Max(s) \in s /\ InOrder[Max(s)] = Max(s) /\ Max(s) \in Bytes
    BY <1>8, MaxOf, BytesInOrder
  <2>2. F[s] = Op(F[s \ {Max(s)}], Max(s))
    <3>1. s \in SUBSET (DOMAIN InOrder) /\ s # {}
      BY <1>8, BytesInOrder
    <3> HIDE DEF G
    <3>2. F[s] = Op(F[s \ {Max(s)}], InOrder[Max(s)])
      BY <1>6, <3>1
    <3> QED BY <2>1, <3>2
  <2>3. (s \ {Max(s)}) \union {Max(s)} = s
    BY <2>1
  <2>4. s \ {Max(s)} \in S /\ F[s \ {Max(s)}] \in S /\ Covered(s \ {Max(s)}, F[s \ {Max(s)}])
    BY <1>8
  <2>5. F[s] \in S /\ Covered(s, F[s])
    <3> HIDE DEF S, P, G
    <3> QED BY <1>2, <1>3, <2>1, <2>2, <2>3, <2>4
  <2> QED BY <1>8, <2>5, BytesInOrder
<1>9. <<1 .. MapSize, F[1 .. MapSize]>> \in G
  <2>1. \A s : s \subseteq 1 .. MapSize => <<s, F[s]>> \in G
    <3> HIDE DEF P, G
    <3> QED BY <1>7, <1>8, BytesInOrder, FoldStays
  <2> QED BY <2>1
<1>10. Covered(Bytes, Picked(top))
  BY <1>1, <1>9, BytesInOrder
<1> QED BY <1>10 DEF Covered

----------------------------------------------------------------------------
(* The table of states and the map of fuzzed seeds *)

Cells == {Unreachable, 0, 1}

\* The tables of n seeds.
Table(n) == [seeds : UNION {[D -> Seq(1 .. n)] : D \in SUBSET States},
             next  : UNION {[D -> Nat] : D \in SUBSET States},
             ids   : Seq(States),
             map   : Seq([1 .. n -> Cells])]

\* Every state has an index and a row, and the seeds that are listed for it are
\* marked there as reaching it; the next one to take is one of them.
Aligned(t) ==
    /\ DOMAIN t.seeds = ToSet(t.ids) /\ DOMAIN t.next = ToSet(t.ids) /\ 0 \in ToSet(t.ids)
    /\ Len(t.map) = Len(t.ids)
    /\ \A s \in ToSet(t.ids) :
          /\ \A k \in 1 .. Len(t.seeds[s]) :
                t.map[get_state_index(t.ids, s) + 1][t.seeds[s][k]] # Unreachable
          /\ t.next[s] = 0 \/ t.next[s] < Len(t.seeds[s])

\* The rows in which a seed is marked as fuzzed.
FuzzedFor(map, q) == {i \in DOMAIN map : map[i][q] = 1}

LEMMA FirstIndex ==
    ASSUME NEW ids \in Seq(States), NEW i \in 0 .. (Len(ids) - 1), NEW s, ids[i + 1] = s,
           \A j \in 1 .. i : ids[j] # s
    PROVE  get_state_index(ids, s) = i
<1> DEFINE First(k) == k \in DOMAIN ids /\ ids[k] = s /\ \A j \in 1 .. (k - 1) : ids[j] # s
<1>1. First(i + 1)
  OBVIOUS
<1>2. ASSUME NEW k, First(k) PROVE k = i + 1
  <2>1. k \in 1 .. Len(ids) /\ i \in Int /\ Len(ids) \in Nat
    BY <1>2
  <2>2. ~ (k < i + 1)
    BY <1>2, <2>1
  <2>3. ~ (i + 1 < k)
    BY <1>2, <2>1
  <2> QED BY <2>1, <2>2, <2>3
<1>3. (CHOOSE k \in DOMAIN ids : ids[k] = s /\ \A j \in 1 .. (k - 1) : ids[j] # s) = i + 1
  BY <1>1, <1>2
<1>4. \E k \in DOMAIN ids : ids[k] = s
  BY <1>1
<1> QED BY <1>3, <1>4 DEF get_state_index

LEMMA IndexOfState ==
    ASSUME NEW ids \in Seq(States), NEW s \in ToSet(ids)
    PROVE  /\ get_state_index(ids, s) \in 0 .. (Len(ids) - 1)
           /\ get_state_index(ids, s) + 1 \in 1 .. Len(ids)
           /\ ids[get_state_index(ids, s) + 1] = s
           /\ \A j \in 1 .. get_state_index(ids, s) : ids[j] # s
<1> DEFINE At == {k \in 1 .. Len(ids) : ids[k] = s}
<1>1. At \subseteq Nat /\ At # {}
  BY DEF ToSet
<1>2. PICK m \in At : \A k \in At : m <= k
  <2> HIDE DEF At
  <2> QED BY <1>1, LeastExists
<1>3. m - 1 \in 0 .. (Len(ids) - 1) /\ (m - 1) + 1 = m /\ ids[m] = s /\ Len(ids) \in Nat
  BY <1>2
<1>4. \A j \in 1 .. (m - 1) : ids[j] # s
  <2> SUFFICES ASSUME NEW j \in 1 .. (m - 1), ids[j] = s PROVE FALSE
    OBVIOUS
  <2>1. j \in At /\ j < m
    BY <1>3
  <2> QED BY <1>2, <2>1
<1>5. get_state_index(ids, s) = m - 1
  <2> HIDE DEF At
  <2> QED BY <1>3, <1>4, FirstIndex
<1> QED BY <1>3, <1>4, <1>5

\* A state keeps its row when another is added, and a new one gets the last.
LEMMA IndexAppended ==
    ASSUME NEW ids \in Seq(States), NEW x \in States
    PROVE  /\ Append(ids, x) \in Seq(States) /\ ToSet(Append(ids, x)) = ToSet(ids) \union {x}
           /\ Len(Append(ids, x)) = Len(ids) + 1
           /\ \A s \in ToSet(ids) : get_state_index(Append(ids, x), s) = get_state_index(ids, s)
           /\ x \notin ToSet(ids) => get_state_index(Append(ids, x), x) = Len(ids)
<1>1. PICK more : more = Append(ids, x)
  OBVIOUS
<1>2. /\ more \in Seq(States) /\ Len(more) = Len(ids) + 1 /\ Len(ids) \in Nat
      /\ \A j \in 1 .. Len(ids) : more[j] = ids[j]
      /\ more[Len(ids) + 1] = x
  BY <1>1
<1>3. ToSet(more) = ToSet(ids) \union {x}
  BY <1>2 DEF ToSet
<1>4. ASSUME NEW s \in ToSet(ids) PROVE get_state_index(more, s) = get_state_index(ids, s)
  <2>1. PICK i : i = get_state_index(ids, s)
    OBVIOUS
  <2>2. /\ i \in 0 .. (Len(ids) - 1) /\ ids[i + 1] = s /\ i + 1 \in 1 .. Len(ids)
        /\ \A j \in 1 .. i : ids[j] # s
    BY <2>1, IndexOfState
  <2>3. i \in 0 .. (Len(more) - 1) /\ more[i + 1] = s /\ \A j \in 1 .. i : more[j] # s
    BY <1>2, <2>2
  <2> QED BY <1>2, <2>1, <2>3, FirstIndex
<1>5. ASSUME x \notin ToSet(ids) PROVE get_state_index(more, x) = Len(ids)
  <2>1. \A j \in 1 .. Len(ids) : more[j] # x
    BY <1>2, <1>5 DEF ToSet
  <2>2. Len(ids) \in 0 .. (Len(more) - 1)
    BY <1>2
  <2> QED BY <1>2, <2>1, <2>2, FirstIndex
<1> QED BY <1>1, <1>2, <1>3, <1>4, <1>5

\* The map of n seeds has got a rows and b columns of unreachable cells.
Expanded(map, more, n, a, b) ==
    /\ more \in Seq([1 .. (n + b) -> Cells]) /\ Len(more) = Len(map) + a
    /\ \A i \in 1 .. Len(map), j \in 1 .. n : more[i][j] = map[i][j]
    /\ \A i \in 1 .. (Len(map) + a), j \in 1 .. (n + b) :
          i > Len(map) \/ j > n => more[i][j] = Unreachable

LEMMA MapExpanded ==
    ASSUME NEW n \in Nat, NEW map \in Seq([1 .. n -> Cells]), map # <<>>,
           NEW a \in Nat, NEW b \in Nat
    PROVE  Expanded(map, expand_was_fuzzed_map(map, a, b), n, a, b)
<1>1. Columns(map) = n
  <2>1. map[1] \in [1 .. n -> Cells]
    BY EmptySeq
  <2> HIDE DEF Cells
  <2>2. Len(map[1]) = n
    BY <2>1
  <2> QED BY <2>2 DEF Columns
<1>2. Len(map) \in Nat /\ Len(map) + a \in Nat /\ n + b \in Nat
  OBVIOUS
<1>3. PICK more : more = [i \in 1 .. (Len(map) + a) |-> [j \in 1 .. (n + b) |->
                              IF i <= Len(map) /\ j <= n THEN map[i][j] ELSE Unreachable]]
  OBVIOUS
<1>4. expand_was_fuzzed_map(map, a, b) = more
  BY <1>1, <1>3 DEF expand_was_fuzzed_map
<1>5. \A i \in 1 .. (Len(map) + a), j \in 1 .. (n + b) :
         more[i][j] = IF i <= Len(map) /\ j <= n THEN map[i][j] ELSE Unreachable
  BY <1>3
<1>6. more \in Seq([1 .. (n + b) -> Cells]) /\ Len(more) = Len(map) + a
  <2>1. \A i \in 1 .. (Len(map) + a) : more[i] \in [1 .. (n + b) -> Cells]
    <3>1. Unreachable \in Cells
      BY DEF Cells
    <3>2. \A i \in 1 .. Len(map), j \in 1 .. n : map[i][j] \in Cells
      OBVIOUS
    <3> HIDE DEF Cells
    <3> QED BY <1>2, <1>3, <3>1, <3>2
  <2>2. more \in [1 .. (Len(map) + a) -> [1 .. (n + b) -> Cells]]
    BY <1>3, <2>1
  <2> QED BY <1>2, <2>2
<1>7. ASSUME NEW i \in 1 .. Len(map), NEW j \in 1 .. n PROVE more[i][j] = map[i][j]
  <2>1. i \in 1 .. (Len(map) + a) /\ j \in 1 .. (n + b) /\ i <= Len(map) /\ j <= n
    BY <1>2
  <2> QED BY <1>5, <2>1
<1>8. \A i \in 1 .. (Len(map) + a), j \in 1 .. (n + b) :
         i > Len(map) \/ j > n => more[i][j] = Unreachable
  BY <1>2, <1>5
<1>9. Expanded(map, more, n, a, b)
  BY <1>6, <1>7, <1>8 DEF Expanded
<1> QED BY <1>4, <1>9

LEMMA TableParts ==
    ASSUME NEW n \in Nat, NEW t \in Table(n), Aligned(t)
    PROVE  /\ t = [seeds |-> t.seeds, next |-> t.next, ids |-> t.ids, map |-> t.map]
           /\ t.seeds \in [ToSet(t.ids) -> Seq(1 .. n)] /\ t.next \in [ToSet(t.ids) -> Nat]
           /\ t.ids \in Seq(States) /\ ToSet(t.ids) \subseteq States
           /\ t.map \in Seq([1 .. n -> Cells]) /\ t.map # <<>>
           /\ Len(t.map) = Len(t.ids) /\ Len(t.ids) \in Nat \ {0}
<1>1. /\ t = [seeds |-> t.seeds, next |-> t.next, ids |-> t.ids, map |-> t.map]
      /\ t.ids \in Seq(States) /\ t.map \in Seq([1 .. n -> Cells])
  BY DEF Table
<1>2. ToSet(t.ids) \subseteq States
  BY <1>1 DEF ToSet
<1>3. t.seeds \in [ToSet(t.ids) -> Seq(1 .. n)] /\ t.next \in [ToSet(t.ids) -> Nat]
  <2>1. /\ \E D \in SUBSET States : t.seeds \in [D -> Seq(1 .. n)]
        /\ \E D \in SUBSET States : t.next \in [D -> Nat]
    BY DEF Table
  <2>2. DOMAIN t.seeds = ToSet(t.ids) /\ DOMAIN t.next = ToSet(t.ids)
    BY DEF Aligned
  <2> QED BY <2>1, <2>2
<1>4. Len(t.map) = Len(t.ids)
  BY DEF Aligned
<1>5. Len(t.ids) \in Nat \ {0}
  BY <1>1 DEF Aligned, ToSet
<1>6. t.map # <<>>
  BY <1>4, <1>5
<1> QED BY <1>1, <1>2, <1>3, <1>4, <1>5, <1>6

LEMMA TableMade ==
    ASSUME NEW n, NEW ids \in Seq(States), ToSet(ids) \subseteq States,
           NEW sd \in [ToSet(ids) -> Seq(1 .. n)], NEW nx \in [ToSet(ids) -> Nat],
           NEW map \in Seq([1 .. n -> Cells])
    PROVE  [seeds |-> sd, next |-> nx, ids |-> ids, map |-> map] \in Table(n)
  BY DEF Table

\* A state that is added, again or for the first time, has a row of its own or
\* the one it had, and no seeds yet; no other state loses anything.
LEMMA StateAdded ==
    ASSUME NEW n \in Nat, NEW t \in Table(n), Aligned(t), NEW s \in States \ {0}
    PROVE  /\ AddState(t, s) \in Table(n) /\ Aligned(AddState(t, s))
           /\ ToSet(AddState(t, s).ids) = ToSet(t.ids) \union {s}
           /\ Len(AddState(t, s).ids) = Len(t.ids) + 1
           /\ \A q \in 1 .. n : FuzzedFor(AddState(t, s).map, q) = FuzzedFor(t.map, q)
<1>1. PICK sd, nx, ids, map : sd = t.seeds /\ nx = t.next /\ ids = t.ids /\ map = t.map
  OBVIOUS
<1>2. /\ sd \in [ToSet(ids) -> Seq(1 .. n)] /\ nx \in [ToSet(ids) -> Nat]
      /\ ids \in Seq(States) /\ ToSet(ids) \subseteq States
      /\ map \in Seq([1 .. n -> Cells]) /\ map # <<>>
      /\ Len(map) = Len(ids) /\ Len(ids) \in Nat \ {0}
  BY <1>1, TableParts
<1>3. PICK sd2, nx2, ids2, map2 :
         /\ sd2 = [x \in ToSet(ids) \union {s} |-> IF x = s THEN <<>> ELSE sd[x]]
         /\ nx2 = [x \in ToSet(ids) \union {s} |-> IF x = s THEN 0 ELSE nx[x]]
         /\ ids2 = Append(ids, s) /\ map2 = expand_was_fuzzed_map(map, 1, 0)
  OBVIOUS
<1>4. AddState(t, s) = [seeds |-> sd2, next |-> nx2, ids |-> ids2, map |-> map2]
  <2>1. DOMAIN sd = ToSet(ids) /\ DOMAIN nx = ToSet(ids) /\ s # 0
    BY <1>2
  <2> QED BY <1>1, <1>3, <2>1 DEF AddState
<1>5. /\ ids2 \in Seq(States) /\ ToSet(ids2) = ToSet(ids) \union {s} /\ Len(ids2) = Len(ids) + 1
      /\ \A x \in ToSet(ids) : get_state_index(ids2, x) = get_state_index(ids, x)
      /\ s \notin ToSet(ids) => get_state_index(ids2, s) = Len(ids)
  BY <1>2, <1>3, IndexAppended
<1>6. /\ map2 \in Seq([1 .. n -> Cells]) /\ Len(map2) = Len(map) + 1
      /\ \A i \in 1 .. Len(map), j \in 1 .. n : map2[i][j] = map[i][j]
      /\ \A j \in 1 .. n : map2[Len(map) + 1][j] = Unreachable
  <2>1. Expanded(map, map2, n, 1, 0)
    BY <1>2, <1>3, MapExpanded
  <2>2. Len(map) \in Nat
    BY <1>2
  <2> QED BY <2>1, <2>2 DEF Expanded
<1>7. sd2 \in [ToSet(ids2) -> Seq(1 .. n)] /\ nx2 \in [ToSet(ids2) -> Nat]
      /\ \A x \in ToSet(ids2) : (x = s => sd2[x] = <<>> /\ nx2[x] = 0)
                                /\ (x # s => x \in ToSet(ids) /\ sd2[x] = sd[x] /\ nx2[x] = nx[x])
  <2>1. \A x \in ToSet(ids2) : x # s => x \in ToSet(ids)
    BY <1>5
  <2>2. <<>> \in Seq(1 .. n)
    OBVIOUS
  <2> QED BY <1>2, <1>3, <1>5, <2>1, <2>2
<1>8. AddState(t, s) \in Table(n)
  <2>1. ToSet(ids2) \subseteq States
    BY <1>2, <1>5
  <2>2. /\ sd2 \in [ToSet(ids2) -> Seq(1 .. n)] /\ nx2 \in [ToSet(ids2) -> Nat]
        /\ ids2 \in Seq(States) /\ map2 \in Seq([1 .. n -> Cells])
    BY <1>5, <1>6, <1>7
  <2> QED BY <1>4, <2>1, <2>2, TableMade
<1>9. Aligned(AddState(t, s))
  <2>1. ASSUME NEW x \in ToSet(ids2), NEW k \in 1 .. Len(sd2[x])
        PROVE  map2[get_state_index(ids2, x) + 1][sd2[x][k]] # Unreachable
    <3>1. x # s /\ x \in ToSet(ids) /\ sd2[x] = sd[x] /\ k \in 1 .. Len(sd[x])
      BY <1>7, <2>1
    <3>2. get_state_index(ids2, x) = get_state_index(ids, x) /\ get_state_index(ids, x) + 1 \in 1 .. Len(map)
      BY <1>2, <1>5, <3>1, IndexOfState
    <3>3. sd[x][k] \in 1 .. n
      BY <1>2, <3>1
    <3>4. map[get_state_index(ids, x) + 1][sd[x][k]] # Unreachable
      BY <1>1, <3>1 DEF Aligned
    <3> QED BY <1>6, <3>1, <3>2, <3>3, <3>4
  <2>2. ASSUME NEW x \in ToSet(ids2) PROVE nx2[x] = 0 \/ nx2[x] < Len(sd2[x])
    BY <1>1, <1>7, <2>2 DEF Aligned
  <2>3. 0 \in ToSet(ids2) /\ Len(map2) = Len(ids2) /\ DOMAIN sd2 = ToSet(ids2) /\ DOMAIN nx2 = ToSet(ids2)
    BY <1>1, <1>2, <1>5, <1>6, <1>7 DEF Aligned
  <2> QED BY <1>4, <2>1, <2>2, <2>3 DEF Aligned
<1>10. \A q \in 1 .. n : FuzzedFor(map2, q) = FuzzedFor(map, q)
  <2>1. DOMAIN map2 = 1 .. (Len(map) + 1) /\ DOMAIN map = 1 .. Len(map) /\ Len(map) \in Nat
    BY <1>2, <1>6
  <2> QED BY <1>6, <2>1 DEF FuzzedFor, Unreachable
<1> QED BY <1>1, <1>4, <1>5, <1>8, <1>9, <1>10

\* The tables t have grown out of t0: no state is lost, and no mark.
Grown(t0, t, n) ==
    /\ t \in Table(n) /\ Aligned(t)
    /\ ToSet(t0.ids) \subseteq ToSet(t.ids) /\ Len(t0.ids) <= Len(t.ids)
    /\ \A p \in 1 .. n : FuzzedFor(t.map, p) = FuzzedFor(t0.map, p)

\* A seed that reaches a state is listed for it and marked; it has not been
\* fuzzed, and the marks of the other seeds do not move.
LEMMA SeedReaches ==
    ASSUME NEW n \in Nat, NEW t \in Table(n), Aligned(t), NEW s \in States, NEW q \in 1 .. n,
           FuzzedFor(t.map, q) = {}
    PROVE  Grown(t, Reaches(t, s, q), n)
<1>1. PICK u : u = IF s \in DOMAIN t.seeds THEN t ELSE AddState(t, s)
  OBVIOUS
<1>2. /\ u \in Table(n) /\ Aligned(u) /\ s \in ToSet(u.ids) /\ ToSet(u.ids) = ToSet(t.ids) \union {s}
      /\ Len(t.ids) <= Len(u.ids) /\ \A p \in 1 .. n : FuzzedFor(u.map, p) = FuzzedFor(t.map, p)
  <2>1. DOMAIN t.seeds = ToSet(t.ids) /\ 0 \in ToSet(t.ids) /\ Len(t.ids) \in Nat
    BY TableParts DEF Aligned
  <2>2. CASE s \in DOMAIN t.seeds
    BY <1>1, <2>1, <2>2
  <2>3. CASE s \notin DOMAIN t.seeds
    <3>1. s \in States \ {0} /\ u = AddState(t, s)
      BY <1>1, <2>1, <2>3
    <3>2. /\ AddState(t, s) \in Table(n) /\ Aligned(AddState(t, s))
          /\ ToSet(AddState(t, s).ids) = ToSet(t.ids) \union {s}
          /\ Len(AddState(t, s).ids) = Len(t.ids) + 1
          /\ \A p \in 1 .. n : FuzzedFor(AddState(t, s).map, p) = FuzzedFor(t.map, p)
      BY <3>1, StateAdded
    <3> QED BY <2>1, <3>1, <3>2
  <2> QED BY <2>2, <2>3
<1>3. PICK sd, nx, ids, map, i : /\ sd = u.seeds /\ nx = u.next /\ ids = u.ids /\ map = u.map
                                /\ i = get_state_index(ids, s) + 1
  OBVIOUS
<1>4. /\ sd \in [ToSet(ids) -> Seq(1 .. n)] /\ nx \in [ToSet(ids) -> Nat]
      /\ ids \in Seq(States) /\ ToSet(ids) \subseteq States
      /\ map \in Seq([1 .. n -> Cells]) /\ Len(map) = Len(ids) /\ Len(ids) \in Nat
      /\ i \in 1 .. Len(map) /\ s \in ToSet(ids)
      /\ u = [seeds |-> sd, next |-> nx, ids |-> ids, map |-> map]
  BY <1>2, <1>3, TableParts, IndexOfState
<1>5. PICK sd2, map2 : sd2 = [sd EXCEPT ![s] = Append(@, q)] /\ map2 = [map EXCEPT ![i][q] = 0]
  OBVIOUS
<1>6. Reaches(t, s, q) = [seeds |-> sd2, next |-> nx, ids |-> ids, map |-> map2]
  <2>1. Reaches(t, s, q) = [u EXCEPT !.seeds[s] = Append(@, q), !.map = [@ EXCEPT ![i][q] = 0]]
    BY <1>1, <1>3 DEF Reaches
  <2> QED BY <1>4, <1>5, <2>1
<1>7. /\ map2 \in Seq([1 .. n -> Cells]) /\ Len(map2) = Len(map) /\ DOMAIN map2 = DOMAIN map
      /\ DOMAIN map = 1 .. Len(map)
      /\ \A k \in 1 .. Len(map), p \in 1 .. n :
            map2[k][p] = IF k = i /\ p = q THEN 0 ELSE map[k][p]
  <2>1. [map[i] EXCEPT ![q] = 0] \in [1 .. n -> Cells]
    <3>1. map[i] \in [1 .. n -> Cells] /\ 0 \in Cells
      BY <1>4 DEF Cells
    <3> HIDE DEF Cells
    <3> QED BY <3>1
  <2>2. map2 = [map EXCEPT ![i] = [map[i] EXCEPT ![q] = 0]]
    BY <1>5
  <2>3. \A k \in 1 .. Len(map) : map[k] \in [1 .. n -> Cells]
    BY <1>4
  <2> HIDE DEF Cells
  <2>4. map2 \in Seq([1 .. n -> Cells]) /\ Len(map2) = Len(map) /\ DOMAIN map2 = DOMAIN map
    BY <1>4, <2>1, <2>2
  <2> QED BY <1>4, <2>2, <2>3, <2>4
<1>8. /\ sd2 \in [ToSet(ids) -> Seq(1 .. n)]
      /\ sd2[s] = Append(sd[s], q) /\ Len(sd2[s]) = Len(sd[s]) + 1
      /\ \A x \in ToSet(ids) : x # s => sd2[x] = sd[x]
  BY <1>4, <1>5
<1>9. Reaches(t, s, q) \in Table(n)
  <2>1. /\ sd2 \in [ToSet(ids) -> Seq(1 .. n)] /\ nx \in [ToSet(ids) -> Nat]
        /\ ids \in Seq(States) /\ map2 \in Seq([1 .. n -> Cells])
    BY <1>4, <1>7, <1>8
  <2>2. ToSet(ids) \subseteq States
    BY <1>4
  <2> QED BY <1>6, <2>1, <2>2, TableMade
<1>10. Aligned(Reaches(t, s, q))
  <2>1. ASSUME NEW x \in ToSet(ids), NEW k \in 1 .. Len(sd2[x])
        PROVE  map2[get_state_index(ids, x) + 1][sd2[x][k]] # Unreachable
    <3>1. PICK j : j = get_state_index(ids, x) + 1
      OBVIOUS
    <3>2. j \in 1 .. Len(map)
      BY <1>4, <3>1, IndexOfState
    <3>3. ASSUME k \in 1 .. Len(sd[x]) PROVE sd[x][k] \in 1 .. n /\ map[j][sd[x][k]] # Unreachable
      <4>1. sd[x] \in Seq(1 .. n)
        BY <1>4
      <4>2. sd[x][k] \in 1 .. n
        BY <3>3, <4>1, ElementOfSeq
      <4> QED BY <1>2, <1>3, <3>1, <3>3, <4>2 DEF Aligned
    <3>4. CASE k \in 1 .. Len(sd[x])
      <4>1. sd2[x][k] = sd[x][k]
        <5>1. sd[x] \in Seq(1 .. n)
          BY <1>4
        <5>2. CASE x # s
          BY <1>4, <1>8, <5>2
        <5>3. CASE x = s
          <6>1. Append(sd[s], q)[k] = sd[s][k]
            BY <3>4, <5>1, <5>3, AppendProperties
          <6> QED BY <1>8, <5>3, <6>1
        <5> QED BY <5>2, <5>3
      <4> QED BY <1>7, <3>1, <3>2, <3>3, <3>4, <4>1 DEF Unreachable
    <3>5. CASE k \notin 1 .. Len(sd[x])
      <4>1. x = s /\ k = Len(sd[s]) + 1
        BY <1>4, <1>8, <2>1, <3>5
      <4>2. sd2[x][k] = q /\ j = i
        BY <1>3, <1>4, <1>8, <3>1, <4>1
      <4> QED BY <1>7, <3>1, <3>2, <4>2 DEF Unreachable
    <3> QED BY <3>4, <3>5
  <2>2. ASSUME NEW x \in ToSet(ids) PROVE nx[x] = 0 \/ nx[x] < Len(sd2[x])
    <3>1. nx[x] = 0 \/ nx[x] < Len(sd[x])
      BY <1>2, <1>3 DEF Aligned
    <3>2. Len(sd[x]) <= Len(sd2[x]) /\ Len(sd[x]) \in Nat /\ Len(sd2[x]) \in Nat /\ nx[x] \in Nat
      <4>1. sd[x] \in Seq(1 .. n) /\ nx[x] \in Nat
        BY <1>4
      <4>2. Len(sd[x]) \in Nat
        BY <4>1, LenProperties
      <4>3. CASE x = s
        BY <1>8, <4>1, <4>2, <4>3
      <4>4. CASE x # s
        BY <1>8, <4>1, <4>2, <4>4
      <4> QED BY <4>3, <4>4
    <3> QED BY <3>1, <3>2
  <2>3. 0 \in ToSet(ids) /\ Len(map2) = Len(ids) /\ DOMAIN sd2 = ToSet(ids) /\ DOMAIN nx = ToSet(ids)
    BY <1>2, <1>3, <1>4, <1>7, <1>8 DEF Aligned
  <2> QED BY <1>6, <2>1, <2>2, <2>3 DEF Aligned
<1>11. \A p \in 1 .. n : FuzzedFor(map2, p) = FuzzedFor(map, p)
  <2>1. map[i][q] # 1
    <3>1. FuzzedFor(map, q) = {}
      BY <1>2, <1>3
    <3> QED BY <1>4, <1>7, <3>1 DEF FuzzedFor
  <2> QED BY <1>7, <2>1 DEF FuzzedFor
<1> QED BY <1>2, <1>3, <1>4, <1>6, <1>9, <1>10, <1>11 DEF Grown

LEMMA GrownByState ==
    ASSUME NEW n \in Nat, NEW t0 \in Table(n), Aligned(t0), NEW t, Grown(t0, t, n), NEW s \in States \ {0}
    PROVE  Grown(t0, AddState(t, s), n)
<1>1. t \in Table(n) /\ Aligned(t)
  BY DEF Grown
<1>2. Len(t0.ids) \in Nat /\ Len(t.ids) \in Nat
  BY <1>1, TableParts
<1>3. /\ AddState(t, s) \in Table(n) /\ Aligned(AddState(t, s))
      /\ ToSet(AddState(t, s).ids) = ToSet(t.ids) \union {s}
      /\ Len(AddState(t, s).ids) = Len(t.ids) + 1
      /\ \A q \in 1 .. n : FuzzedFor(AddState(t, s).map, q) = FuzzedFor(t.map, q)
  BY <1>1, StateAdded
<1> QED BY <1>2, <1>3 DEF Grown

LEMMA GrownBySeed ==
    ASSUME NEW n \in Nat, NEW t0 \in Table(n), Aligned(t0), NEW t, Grown(t0, t, n), NEW s \in States,
           NEW q \in 1 .. n, FuzzedFor(t0.map, q) = {}
    PROVE  Grown(t0, Reaches(t, s, q), n)
<1>1. t \in Table(n) /\ Aligned(t) /\ FuzzedFor(t.map, q) = {}
  BY DEF Grown
<1>2. Len(t0.ids) \in Nat /\ Len(t.ids) \in Nat
  BY <1>1, TableParts
<1>3. Grown(t, Reaches(t, s, q), n)
  BY <1>1, SeedReaches
<1>4. Len(Reaches(t, s, q).ids) \in Nat
  <2>1. Reaches(t, s, q) \in Table(n) /\ Aligned(Reaches(t, s, q))
    BY <1>3 DEF Grown
  <2> QED BY <2>1, TableParts
<1> QED BY <1>2, <1>3, <1>4 DEF Grown

LEMMA GrownOut ==
    ASSUME NEW n \in Nat, NEW t \in Table(n), Aligned(t)
    PROVE  Grown(t, t, n)
  BY TableParts DEF Grown

\* The states of a sequence of codes are added one by one, but for 0, which is
\* a node from the start.
LEMMA StatesLearnt ==
    ASSUME NEW n \in Nat, NEW t \in Table(n), Aligned(t), NEW codes \in Seq(States), 0 \in nodes
    PROVE  Grown(t, LearnStates(t, codes), n)
<1> DEFINE S == {u \in Table(n) : Grown(t, u, n)}
           Op(u, i) == IF codes[i] \in nodes \union ToSet(SubSeq(codes, 1, i - 1))
                       THEN u ELSE AddState(u, codes[i])
           P(f) == f = [s \in SUBSET (DOMAIN Positions(codes)) |->
                           IF s = {} THEN t ELSE Op(f[s \ {Max(s)}], Positions(codes)[Max(s)])]
           F == CHOOSE f : P(f)
<1>1. LearnStates(t, codes) = F[DOMAIN Positions(codes)]
  BY DEF LearnStates, FoldLeft, MapThenFoldSet
<1>2. t \in S
  BY GrownOut
<1>3. PICK m \in Nat : /\ DOMAIN Positions(codes) = 1 .. m
                       /\ \A i \in 1 .. m : Positions(codes)[i] \in DOMAIN codes
  <2>1. Len(codes) \in Nat /\ DOMAIN codes = 1 .. Len(codes)
    OBVIOUS
  <2>2. PICK m : m = IF Len(codes) > 1 THEN Len(codes) ELSE 0
    OBVIOUS
  <2>3. Positions(codes) = [i \in 1 .. m |-> i]
    BY <2>2 DEF Positions
  <2>4. m \in Nat /\ 1 .. m \subseteq DOMAIN codes
    BY <2>1, <2>2
  <2> QED BY <2>3, <2>4
<1>4. ASSUME NEW u \in S, NEW i \in DOMAIN codes PROVE Op(u, i) \in S
  <2>1. CASE codes[i] \in nodes \union ToSet(SubSeq(codes, 1, i - 1))
    BY <2>1
  <2>2. CASE codes[i] \notin nodes \union ToSet(SubSeq(codes, 1, i - 1))
    <3>1. codes[i] \in States \ {0}
      BY <2>2
    <3>2. Grown(t, AddState(u, codes[i]), n)
      BY <3>1, GrownByState
    <3>3. AddState(u, codes[i]) \in Table(n)
      BY <3>2 DEF Grown
    <3> QED BY <2>2, <3>2, <3>3
  <2> QED BY <2>1, <2>2
<1> DEFINE g == [x \in S \X (1 .. m) |-> Op(x[1], Positions(codes)[x[2]])]
<1> HIDE DEF S, Op
<1>5. g \in [S \X (1 .. m) -> S]
  BY <1>3, <1>4
<1>6. \E f : P(f)
  <2>1. PICK f : FoldsTo(f, m, S, t, g)
    <3> HIDE DEF g, P, F
    <3> QED BY <1>2, <1>5, FoldExists
  <2>2. ASSUME NEW s \in SUBSET (1 .. m), s # {}
        PROVE  g[<<f[s \ {Max(s)}], Max(s)>>] = Op(f[s \ {Max(s)}], Positions(codes)[Max(s)])
    <3>1. f[s \ {Max(s)}] \in S /\ Max(s) \in 1 .. m
      BY <2>1, <2>2, MaxOf DEF FoldsTo
    <3> QED BY <3>1
  <2>3. P(f)
    <3> HIDE DEF g
    <3> QED BY <1>3, <2>1, <2>2 DEF FoldsTo
  <2> QED BY <2>3
<1>7. P(F)
  <2> HIDE DEF P
  <2> QED BY <1>6
<1> HIDE DEF F
<1>8. F[{}] \in S
  <2>1. F[{}] = t
    BY <1>3, <1>7
  <2> QED BY <1>2, <2>1
<1>9. ASSUME NEW s, s \subseteq 1 .. m, s # {}, F[s \ {Max(s)}] \in S
      PROVE  F[s] \in S
  <2>1. F[s] = Op(F[s \ {Max(s)}], Positions(codes)[Max(s)])
    BY <1>3, <1>7, <1>9
  <2>2. Max(s) \in 1 .. m
    BY <1>9, MaxOf
  <2> QED BY <1>3, <1>4, <1>9, <2>1, <2>2
<1>10. F[1 .. m] \in S
  <2> HIDE DEF P, g
  <2> QED BY <1>8, <1>9, FoldIn
<1> QED BY <1>1, <1>3, <1>10 DEF S

\* A seed that has not been fuzzed reaches state 0, and the last state of each
\* annotation.
LEMMA StatesReached ==
    ASSUME NEW n \in Nat, NEW t0 \in Table(n), Aligned(t0), NEW t, Grown(t0, t, n),
           NEW annotations \in Seq(Seq(States)), NEW q \in 1 .. n, FuzzedFor(t0.map, q) = {}
    PROVE  Grown(t0, ReachedBy(t, annotations, q), n)
<1> DEFINE S == {u \in Table(n) : Grown(t0, u, n)}
           base == Reaches(t, 0, q)
           Op(u, a) == IF a = <<>> THEN u ELSE Reaches(u, Last(a), q)
           P(f) == f = [s \in SUBSET (DOMAIN annotations) |->
                           IF s = {} THEN base ELSE Op(f[s \ {Max(s)}], annotations[Max(s)])]
           F == CHOOSE f : P(f)
<1>1. ReachedBy(t, annotations, q) = F[DOMAIN annotations]
  BY DEF ReachedBy, FoldLeft, MapThenFoldSet
<1>2. base \in S
  <2>1. Grown(t0, base, n)
    BY GrownBySeed, TargetsAssumption
  <2> QED BY <2>1 DEF Grown
<1>3. PICK m \in Nat : /\ DOMAIN annotations = 1 .. m
                       /\ \A i \in 1 .. m : annotations[i] \in Seq(States)
  BY LenProperties, ElementOfSeq
<1>4. ASSUME NEW u \in S, NEW a \in Seq(States) PROVE Op(u, a) \in S
  <2>1. CASE a = <<>>
    BY <2>1
  <2>2. CASE a # <<>>
    <3>1. Last(a) \in States
      BY <2>2, EmptySeq, LenProperties, ElementOfSeq DEF Last
    <3>2. Grown(t0, Reaches(u, Last(a), q), n)
      BY <3>1, GrownBySeed
    <3>3. Reaches(u, Last(a), q) \in Table(n)
      BY <3>2 DEF Grown
    <3> QED BY <2>2, <3>2, <3>3
  <2> QED BY <2>1, <2>2
<1> DEFINE g == [x \in S \X (1 .. m) |-> Op(x[1], annotations[x[2]])]
<1> HIDE DEF S, Op, base
<1>5. g \in [S \X (1 .. m) -> S]
  BY <1>3, <1>4
<1>6. \E f : P(f)
  <2>1. PICK f : FoldsTo(f, m, S, base, g)
    <3> HIDE DEF g, P, F
    <3> QED BY <1>2, <1>5, FoldExists
  <2>2. ASSUME NEW s \in SUBSET (1 .. m), s # {}
        PROVE  g[<<f[s \ {Max(s)}], Max(s)>>] = Op(f[s \ {Max(s)}], annotations[Max(s)])
    <3>1. f[s \ {Max(s)}] \in S /\ Max(s) \in 1 .. m
      BY <2>1, <2>2, MaxOf DEF FoldsTo
    <3> QED BY <3>1
  <2>3. P(f)
    <3> HIDE DEF g
    <3> QED BY <1>3, <2>1, <2>2 DEF FoldsTo
  <2> QED BY <2>3
<1>7. P(F)
  <2> HIDE DEF P
  <2> QED BY <1>6
<1> HIDE DEF F
<1>8. F[{}] \in S
  <2>1. F[{}] = base
    BY <1>3, <1>7
  <2> QED BY <1>2, <2>1
<1>9. ASSUME NEW s, s \subseteq 1 .. m, s # {}, F[s \ {Max(s)}] \in S
      PROVE  F[s] \in S
  <2>1. F[s] = Op(F[s \ {Max(s)}], annotations[Max(s)])
    BY <1>3, <1>7, <1>9
  <2>2. Max(s) \in 1 .. m
    BY <1>9, MaxOf
  <2> QED BY <1>3, <1>4, <1>9, <2>1, <2>2
<1>10. F[1 .. m] \in S
  <2> HIDE DEF P, g
  <2> QED BY <1>8, <1>9, FoldIn
<1> QED BY <1>1, <1>3, <1>10 DEF S

\* The tables t of n seeds with one seed more, which no state has been fuzzed
\* for.
Widened(t, u, n) ==
    /\ u \in Table(n + 1) /\ Aligned(u) /\ FuzzedFor(u.map, n + 1) = {}
    /\ \A p \in 1 .. n : FuzzedFor(u.map, p) = FuzzedFor(t.map, p)
    /\ u.ids = t.ids

\* A new seed has a column, in which it is not marked.
LEMMA ColumnAdded ==
    ASSUME NEW n \in Nat, NEW t \in Table(n), Aligned(t), NEW u, u = [t EXCEPT !.map = NewColumn(t.map)]
    PROVE  Widened(t, u, n)
<1>1. PICK sd, nx, ids, map : sd = t.seeds /\ nx = t.next /\ ids = t.ids /\ map = t.map
  OBVIOUS
<1>2. /\ sd \in [ToSet(ids) -> Seq(1 .. n)] /\ nx \in [ToSet(ids) -> Nat]
      /\ ids \in Seq(States) /\ ToSet(ids) \subseteq States
      /\ map \in Seq([1 .. n -> Cells]) /\ map # <<>>
      /\ Len(map) = Len(ids) /\ Len(ids) \in Nat \ {0}
      /\ t = [seeds |-> sd, next |-> nx, ids |-> ids, map |-> map]
  BY <1>1, TableParts
<1>3. PICK more : more = expand_was_fuzzed_map(map, 0, 1)
  OBVIOUS
<1>4. u = [seeds |-> sd, next |-> nx, ids |-> ids, map |-> more]
  <2>1. NewColumn(map) = more
    BY <1>2, <1>3 DEF NewColumn
  <2> QED BY <1>1, <1>2, <2>1
<1>5. /\ more \in Seq([1 .. (n + 1) -> Cells]) /\ Len(more) = Len(map)
      /\ \A i \in 1 .. Len(map), j \in 1 .. n : more[i][j] = map[i][j]
      /\ \A i \in 1 .. Len(map) : more[i][n + 1] = Unreachable
  <2>1. Expanded(map, more, n, 0, 1)
    BY <1>2, <1>3, MapExpanded
  <2>2. Len(map) \in Nat /\ n + 1 \in 1 .. (n + 1) /\ n + 1 > n /\ Len(map) + 0 = Len(map)
    BY <1>2
  <2> QED BY <2>1, <2>2 DEF Expanded
<1>6. \A x \in ToSet(ids) : sd[x] \in Seq(1 .. n) /\ sd[x] \in Seq(1 .. (n + 1))
  <2>1. 1 .. n \subseteq 1 .. (n + 1)
    OBVIOUS
  <2>2. \A x \in ToSet(ids) : sd[x] \in Seq(1 .. n)
    BY <1>2
  <2> QED BY <2>1, <2>2, SeqMonotonic
<1>7. u \in Table(n + 1)
  <2>1. PICK m : m = n + 1
    OBVIOUS
  <2>2. sd \in [ToSet(ids) -> Seq(1 .. m)]
    BY <1>2, <1>6, <2>1
  <2>3. more \in Seq([1 .. m -> Cells])
    BY <1>5, <2>1
  <2>4. nx \in [ToSet(ids) -> Nat] /\ ids \in Seq(States) /\ ToSet(ids) \subseteq States
    BY <1>2
  <2>5. [seeds |-> sd, next |-> nx, ids |-> ids, map |-> more] \in Table(m)
    BY <2>2, <2>3, <2>4, TableMade
  <2> QED BY <1>4, <2>1, <2>5
<1>8. Aligned(u)
  <2>1. ASSUME NEW x \in ToSet(ids), NEW k \in 1 .. Len(sd[x])
        PROVE  more[get_state_index(ids, x) + 1][sd[x][k]] # Unreachable
    <3>1. sd[x][k] \in 1 .. n
      BY <1>6, ElementOfSeq
    <3>2. get_state_index(ids, x) + 1 \in 1 .. Len(map)
      BY <1>2, IndexOfState
    <3>3. map[get_state_index(ids, x) + 1][sd[x][k]] # Unreachable
      BY <1>1 DEF Aligned
    <3> QED BY <1>5, <3>1, <3>2, <3>3
  <2>2. ASSUME NEW x \in ToSet(ids) PROVE nx[x] = 0 \/ nx[x] < Len(sd[x])
    BY <1>1 DEF Aligned
  <2>3. 0 \in ToSet(ids) /\ Len(more) = Len(ids) /\ DOMAIN sd = ToSet(ids) /\ DOMAIN nx = ToSet(ids)
    BY <1>1, <1>2, <1>5 DEF Aligned
  <2> QED BY <1>4, <2>1, <2>2, <2>3 DEF Aligned
<1>9. DOMAIN more = 1 .. Len(map) /\ DOMAIN map = 1 .. Len(map)
  BY <1>2, <1>5, LenProperties
<1>10. FuzzedFor(more, n + 1) = {} /\ \A p \in 1 .. n : FuzzedFor(more, p) = FuzzedFor(map, p)
  BY <1>5, <1>9 DEF FuzzedFor, Unreachable
<1>11. u.map = more /\ u.ids = t.ids /\ t.map = map
  BY <1>1, <1>4
<1> QED BY <1>7, <1>8, <1>10, <1>11 DEF Widened

\* The call for the seed q, whose column is part of the map.
LEMMA Learning ==
    ASSUME NEW n \in Nat, NEW q \in 1 .. n, NEW codes \in Seq(States), NEW annotations \in Seq(Seq(States)),
           NEW map0, NEW t0 \in Table(n), t0 = [Tables EXCEPT !.map = map0],
           Aligned(t0), FuzzedFor(map0, q) = {},
           0 \in nodes, nodes \subseteq States, update_state_aware_variables(q, codes, annotations, map0)
    PROVE  Grown(t0, Tables', n) /\ 0 \in nodes' /\ nodes' \subseteq States
<1>1. PICK t1 : t1 = IF is_state_sequence_interesting(codes) THEN LearnStates(t0, codes) ELSE t0
  OBVIOUS
<1>2. PICK t : t = ReachedBy(t1, annotations, q)
  OBVIOUS
<1>3. Grown(t0, t1, n)
  BY <1>1, StatesLearnt, GrownOut
<1>4. t0.map = map0
  BY DEF Tables
<1>5. Grown(t0, t, n)
  BY <1>2, <1>3, <1>4, StatesReached
<1>6. seeds' = t.seeds /\ nextSeed' = t.next /\ stateIds' = t.ids /\ fuzzedMap' = t.map
  BY <1>1, <1>2 DEF update_state_aware_variables
<1>7. Tables' = t
  <2>1. t \in Table(n)
    BY <1>5 DEF Grown
  <2>2. t = [seeds |-> t.seeds, next |-> t.next, ids |-> t.ids, map |-> t.map]
    BY <2>1 DEF Table
  <2> QED BY <1>6, <2>2 DEF Tables
<1>8. ToSet(codes) \subseteq States
  BY LenProperties, ElementOfSeq DEF ToSet
<1>9. 0 \in nodes' /\ nodes' \subseteq States
  BY <1>8 DEF update_state_aware_variables, NodesOf
<1> QED BY <1>5, <1>7, <1>9

----------------------------------------------------------------------------
(* The choice of the target *)

LEMMA TotalIsNumber ==
    ASSUME NEW seq, NEW n \in Nat, DOMAIN seq = 1 .. n, \A i \in 1 .. n : seq[i] \in Int
    PROVE  Total(seq) \in Int
<1> DEFINE Op(a, b) == a + b
           P(f) == f = [s \in SUBSET (DOMAIN seq) |-> IF s = {} THEN 0 ELSE Op(f[s \ {Max(s)}], seq[Max(s)])]
           F == CHOOSE f : P(f)
           g == [x \in Int \X (1 .. n) |-> Op(x[1], seq[x[2]])]
<1>1. Total(seq) = F[DOMAIN seq]
  BY DEF Total, FoldLeft, MapThenFoldSet
<1>2. \A a, b \in Int : Op(a, b) \in Int
  OBVIOUS
<1> HIDE DEF Op
<1>3. g \in [Int \X (1 .. n) -> Int]
  BY <1>2
<1>4. \E f : P(f)
  <2>1. PICK f : FoldsTo(f, n, Int, 0, g)
    <3>1. 0 \in Int
      OBVIOUS
    <3> HIDE DEF g, P, F
    <3> QED BY <1>3, <3>1, FoldExists
  <2>2. ASSUME NEW s \in SUBSET (1 .. n), s # {}
        PROVE  g[<<f[s \ {Max(s)}], Max(s)>>] = Op(f[s \ {Max(s)}], seq[Max(s)])
    <3>1. f[s \ {Max(s)}] \in Int /\ Max(s) \in 1 .. n
      BY <2>1, <2>2, MaxOf DEF FoldsTo
    <3> QED BY <3>1
  <2>3. P(f)
    <3> HIDE DEF g
    <3> QED BY <2>1, <2>2 DEF FoldsTo
  <2> QED BY <2>3
<1>5. P(F)
  <2> HIDE DEF P
  <2> QED BY <1>4
<1> HIDE DEF F
<1>6. F[{}] \in Int
  BY <1>5
<1>7. ASSUME NEW s, s \subseteq 1 .. n, s # {}, F[s \ {Max(s)}] \in Int
      PROVE  F[s] \in Int
  <2>1. F[s] = Op(F[s \ {Max(s)}], seq[Max(s)])
    BY <1>5, <1>7
  <2>2. Max(s) \in 1 .. n
    BY <1>7, MaxOf
  <2> QED BY <1>2, <1>7, <2>1, <2>2
<1>8. F[1 .. n] \in Int
  <2> HIDE DEF P, g
  <2> QED BY <1>6, <1>7, FoldIn
<1> QED BY <1>1, <1>8

LEMMA IndexSearched ==
    ASSUME NEW n \in Nat \ {0}, NEW sums, DOMAIN sums = 1 .. n, NEW val, val <= sums[n]
    PROVE  index_search(sums, val) \in 0 .. (n - 1)
<1> DEFINE found == {i \in DOMAIN sums : val <= sums[i]}
<1>1. found \subseteq Nat /\ n \in found
  OBVIOUS
<1>2. \E m \in found : \A k \in found : m <= k
  <2> HIDE DEF found
  <2> QED BY <1>1, LeastExists
<1>3. (CHOOSE k \in found : \A j \in found : k <= j) \in found
  <2> HIDE DEF found
  <2> QED BY <1>2
<1>4. PICK i : i = (CHOOSE k \in found : \A j \in found : k <= j)
  OBVIOUS
<1>5. i \in 1 .. n
  BY <1>3, <1>4
<1>6. index_search(sums, val) = i - 1
  BY <1>1, <1>4 DEF index_search
<1> QED BY <1>5, <1>6

\* The target is always one of the states, whatever the algorithm.
LEMMA TargetChosen ==
    ASSUME NEW mode \in {"random", "round_robin", "favor"}, choose_target_state(mode),
           stateIds \in Seq(States), Len(stateIds) # 0,
           selectedState \in 0 .. (Len(stateIds) - 1), stateCycles \in Nat
    PROVE  /\ target' \in ToSet(stateIds)
           /\ selectedState' \in 0 .. (Len(stateIds) - 1) /\ stateCycles' \in Nat
<1>1. /\ Len(stateIds) \in Nat \ {0} /\ DOMAIN stateIds = 1 .. Len(stateIds)
      /\ \A i \in 0 .. (Len(stateIds) - 1) : stateIds[i + 1] \in ToSet(stateIds)
  BY LenProperties DEF ToSet
<1>2. ASSUME RoundRobin(Len(stateIds))
      PROVE  target' \in ToSet(stateIds) /\ selectedState' \in 0 .. (Len(stateIds) - 1)
  <2>1. PICK n, i : n = Len(stateIds) /\ i = selectedState
    OBVIOUS
  <2>2. n \in Nat \ {0} /\ i \in 0 .. (n - 1) /\ target' = stateIds[i + 1] /\ selectedState' = NextIndex(i, n)
    BY <1>1, <1>2, <2>1 DEF RoundRobin
  <2>3. NextIndex(i, n) \in 0 .. (n - 1)
    BY <2>2 DEF NextIndex
  <2> QED BY <1>1, <2>1, <2>2, <2>3
<1>3. ASSUME update_scores_and_select_next_state PROVE target' \in ToSet(stateIds)
  <2>1. PICK score \in [DOMAIN stateIds -> Scores] :
           LET sums == [i \in DOMAIN stateIds |-> Total(SubSeq(score, 1, i))]
           IN \E val \in 0 .. (Last(sums) - 1) : target' = stateIds[index_search(sums, val) + 1]
    BY <1>3 DEF update_scores_and_select_next_state
  <2>2. PICK n, sums : n = Len(stateIds) /\ sums = [i \in DOMAIN stateIds |-> Total(SubSeq(score, 1, i))]
    OBVIOUS
  <2>3. n \in Nat \ {0} /\ DOMAIN sums = 1 .. n /\ Last(sums) = sums[n] /\ sums[n] = Total(SubSeq(score, 1, n))
    BY <1>1, <2>2 DEF Last
  <2>4. sums[n] \in Int
    <3>1. \A i \in 1 .. n : score[i] \in Nat
      BY <1>1, <2>2, TargetsAssumption
    <3>2. SubSeq(score, 1, n) \in Seq(Nat) /\ Len(SubSeq(score, 1, n)) = n
      BY <2>3, <3>1, SubSeqProperties
    <3>3. /\ DOMAIN SubSeq(score, 1, n) = 1 .. n
          /\ \A i \in 1 .. n : SubSeq(score, 1, n)[i] \in Int
      BY <2>3, <3>2, LenProperties, ElementOfSeq
    <3> QED BY <2>3, <3>3, TotalIsNumber
  <2>5. PICK val \in 0 .. (sums[n] - 1) : target' = stateIds[index_search(sums, val) + 1]
    BY <2>1, <2>2, <2>3
  <2>6. index_search(sums, val) \in 0 .. (n - 1)
    BY <2>3, <2>4, IndexSearched
  <2> QED BY <1>1, <2>2, <2>5, <2>6
<1>4. CASE mode = "random"
  BY <1>1, <1>4 DEF choose_target_state, ChooseRandomState
<1>5. CASE mode = "round_robin"
  BY <1>1, <1>2, <1>5 DEF choose_target_state, ChooseNextState
<1>6. CASE mode = "favor"
  BY <1>1, <1>2, <1>3, <1>6 DEF choose_target_state, ChooseFavoredState
<1> QED BY <1>4, <1>5, <1>6
=============================================================================
