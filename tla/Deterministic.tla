--------------------------- MODULE Deterministic ---------------------------
(***************************************************************************)
(* The deterministic stages of fuzz_one: what each sends for a buffer, and *)
(* the tests by which a stage leaves out what an earlier one has sent.     *)
(*                                                                         *)
(* A buffer is a sequence of bytes of ByteBits bits; words are read least  *)
(* significant byte first.  The checksum of a run is any value.            *)
(***************************************************************************)
EXTENDS Integers, Sequences, FiniteSets

CONSTANTS
    ByteBits,            \* 8
    ArithMax,            \* ARITH_MAX
    Interesting(_),      \* interesting_8, _16 and _32 as unsigned numbers
    MinAutoExtra, MaxAutoExtra,   \* MIN_AUTO_EXTRA, MAX_AUTO_EXTRA
    EffScale,            \* 1 << EFF_MAP_SCALE2
    EffMinLen,           \* EFF_MIN_LEN
    EffMaxPerc           \* EFF_MAX_PERC

Base == 2 ^ ByteBits
ByteOf(v, k) == (v \div Base ^ k) % Base
Modulo(v, width) == v % Base ^ width

\* SWAP16 and SWAP32.
Swapped(v, width) ==
    LET sum[k \in 0..width] ==
            IF k = 0 THEN 0 ELSE sum[k - 1] + ByteOf(v, k - 1) * Base ^ (width - k)
    IN sum[width]

Word(buf, i, width) ==
    LET sum[k \in 0..width] == IF k = 0 THEN 0 ELSE sum[k - 1] + buf[i + k] * Base ^ (k - 1)
    IN sum[width]
Put(buf, i, width, v) ==
    [k \in DOMAIN buf |-> IF k \in (i + 1)..(i + width) THEN ByteOf(v, k - i - 1) ELSE buf[k]]

\* The bits in which two words differ, the least significant is 0.
Xor(v, w, width) ==
    {k \in 0..(ByteBits * width - 1) : (v \div 2 ^ k) % 2 # (w \div 2 ^ k) % 2}

----------------------------------------------------------------------------
(* What an earlier stage has sent *)

could_be_bitflip(xor) ==
    \/ xor = {}
    \/ LET sh == CHOOSE k \in xor : \A j \in xor : k <= j
           shape == {k - sh : k \in xor}
       IN \/ shape \in {0..0, 0..1, 0..3}
          \/ sh % ByteBits = 0 /\ shape \in {0..(ByteBits * width - 1) : width \in {1, 2, 4}}

Near(v, w, width) == Modulo(v - w, width) <= ArithMax \/ Modulo(w - v, width) <= ArithMax

\* The parts of the given width in which two words differ, if it is one only.
DiffersIn(old, new, blen, width) ==
    {k \in 0..(blen \div width - 1) :
        Modulo(old \div Base ^ (k * width), width) # Modulo(new \div Base ^ (k * width), width)}
NearPart(old, new, blen, width, View(_)) ==
    \E k \in DiffersIn(old, new, blen, width) :
        /\ DiffersIn(old, new, blen, width) = {k}
        /\ Near(View(Modulo(old \div Base ^ (k * width), width)),
                View(Modulo(new \div Base ^ (k * width), width)), width)

could_be_arith(old, new, blen) ==
    \/ old = new
    \/ \E width \in {w \in {1, 2, 4} : w <= blen} :
          \/ NearPart(old, new, blen, width, LAMBDA v : v)
          \/ NearPart(old, new, blen, width, LAMBDA v : Swapped(v, width))

\* old with the part of the given width at byte i replaced.
Inserted(old, i, width, v) ==
    (old % Base ^ i) + v * Base ^ i + (old \div Base ^ (i + width)) * Base ^ (i + width)

could_be_interest(old, new, blen, checkLe) ==
    \/ old = new
    \/ \E i \in 0..(blen - 1), v \in Interesting(1) : new = Inserted(old, i, 1, v)
    \/ /\ blen > 2 \/ checkLe
       /\ \E i \in 0..(blen - 2), v \in Interesting(2) :
             \/ new = Inserted(old, i, 2, v)
             \/ blen > 2 /\ new = Inserted(old, i, 2, Swapped(v, 2))
    \/ blen = 4 /\ checkLe /\ new \in Interesting(4)

----------------------------------------------------------------------------
(* The stages *)

\* FLIP_BIT counts the bits of a byte from the most significant one.
Flipped(buf, bits) ==
    [k \in DOMAIN buf |->
        LET here == {ByteBits - 1 - (b % ByteBits) : b \in {c \in bits : c \div ByteBits = k - 1}}
            flip[j \in 0..ByteBits] ==
                IF j = 0 THEN 0
                ELSE flip[j - 1] + (IF j - 1 \in here
                                    THEN (IF (buf[k] \div 2 ^ (j - 1)) % 2 = 1 THEN -(2 ^ (j - 1)) ELSE 2 ^ (j - 1))
                                    ELSE 0)
        IN buf[k] + flip[ByteBits]]

Bitflip1(buf) == {Flipped(buf, i..i) : i \in 0..(ByteBits * Len(buf) - 1)}
Bitflip2(buf) == {Flipped(buf, i..(i + 1)) : i \in 0..(ByteBits * Len(buf) - 2)}
Bitflip4(buf) == {Flipped(buf, i..(i + 3)) : i \in 0..(ByteBits * Len(buf) - 4)}

\* The tokens that bitflip 1/1 collects: runs of bytes whose last bit, flipped,
\* gives the same checksum, sums[i], other than that of the seed.
AutoTokens(buf, sums, seedSum) ==
    LET n == Len(buf)
        fits(a) == a \in MinAutoExtra..MaxAutoExtra
        grown(s, i) == IF sums[i] = seedSum THEN s ELSE [s EXCEPT !.run = Append(@, buf[i])]
        add(s) == IF fits(Len(s.run)) THEN [s EXCEPT !.out = Append(@, s.run)] ELSE s
        at[i \in 0..n] ==
            IF i = 0 THEN [run |-> <<>>, last |-> seedSum, out |-> <<>>]
            ELSE LET s == at[i - 1]
                 IN IF i = n /\ sums[i] = s.last
                    THEN grown(add([s EXCEPT !.run = Append(@, buf[i])]), i)
                    ELSE IF sums[i] # s.last
                    THEN grown([add(s) EXCEPT !.run = <<>>, !.last = sums[i]], i)
                    ELSE grown(s, i)
    IN at[n].out

\* The blocks worth fuzzing: the first, the last, those where a byte, flipped,
\* had an effect; all of them when the buffer is short or most have one.
EffPos(i) == i \div EffScale
EffMap(buf, effective) ==
    LET blocks == 0..EffPos(Len(buf) - 1)
        found == {0, EffPos(Len(buf) - 1)} \union {EffPos(i - 1) : i \in effective}
    IN IF Len(buf) < EffMinLen \/ (Cardinality(found) * 100) \div Cardinality(blocks) > EffMaxPerc
       THEN blocks ELSE found

\* Positions of parts that touch a block worth fuzzing.
Worth(buf, eff, width) ==
    {i \in 0..(Len(buf) - width) : \E k \in 0..(width - 1) : EffPos(i + k) \in eff}

BytesFlipped(buf, i, width) == Flipped(buf, (ByteBits * i)..(ByteBits * (i + width) - 1))
Bitflip8(buf) == {BytesFlipped(buf, i, 1) : i \in 0..(Len(buf) - 1)}
Bitflip16(buf, eff) == {BytesFlipped(buf, i, 2) : i \in Worth(buf, eff, 2)}
Bitflip32(buf, eff) == {BytesFlipped(buf, i, 4) : i \in Worth(buf, eff, 4)}

\* Sums and differences that no flip gives and, of words, that change more
\* than their lower half.
Carries(v, j, width) ==
    width = 1 \/ LET half == Base ^ (width \div 2) IN (v % half) + j >= half
Borrows(v, j, width) == width = 1 \/ v % Base ^ (width \div 2) < j
ArithValues(v, width) ==
    LET fresh(w) == ~ could_be_bitflip(Xor(v, w, width))
        sv == Swapped(v, width)
        J == 1..ArithMax
    IN {w \in {Modulo(v + j, width) : j \in {k \in J : Carries(v, k, width)}}
          \union {Modulo(v - j, width) : j \in {k \in J : Borrows(v, k, width)}}
          \union {Swapped(Modulo(sv + j, width), width) : j \in {k \in J : Carries(sv, k, width)}}
          \union {Swapped(Modulo(sv - j, width), width) : j \in {k \in J : Borrows(sv, k, width)}} : fresh(w)}
ArithStage(buf, eff, width) ==
    UNION {{Put(buf, i, width, w) : w \in ArithValues(Word(buf, i, width), width)} :
              i \in Worth(buf, eff, width)}
Arith8(buf, eff) == ArithStage(buf, eff, 1)
Arith16(buf, eff) == ArithStage(buf, eff, 2)
Arith32(buf, eff) == ArithStage(buf, eff, 4)

\* Interesting numbers, then, of words, with their bytes swapped.
InterestValues(v, width) ==
    LET fresh(w, swapped) ==
            /\ ~ could_be_bitflip(Xor(v, w, width))
            /\ ~ could_be_arith(v, w, width)
            /\ width > 1 => ~ could_be_interest(v, w, width, swapped)
    IN {w \in Interesting(width) : fresh(w, FALSE)}
       \union {w \in {Swapped(k, width) : k \in {n \in Interesting(width) : Swapped(n, width) # n}} :
                  width > 1 /\ fresh(w, TRUE)}
InterestStage(buf, eff, width) ==
    UNION {{Put(buf, i, width, w) : w \in InterestValues(Word(buf, i, width), width)} :
              i \in Worth(buf, eff, width)}
Interest8(buf, eff) == InterestStage(buf, eff, 1)
Interest16(buf, eff) == InterestStage(buf, eff, 2)
Interest32(buf, eff) == InterestStage(buf, eff, 4)

\* Tokens, shortest first, overwrite the buffer at each position one after the
\* other; it is restored over the length of the last one only.
Over(buf, i, token) ==
    [k \in DOMAIN buf |-> IF k \in (i + 1)..(i + Len(token)) THEN token[k - i] ELSE buf[k]]
UserExtrasOver(buf, eff, tokens) ==
    LET n == Len(buf)
        fits(out, i, t) ==
            /\ Len(t) <= n - i /\ Over(out, i, t) # out
            /\ \E k \in EffPos(i)..EffPos(i + Len(t) - 1) : k \in eff
        at(out0, i) ==
            LET s[j \in 0..Len(tokens)] ==
                    IF j = 0 THEN [out |-> out0, last |-> 0, sent |-> {}]
                    ELSE IF fits(s[j - 1].out, i, tokens[j])
                    THEN LET new == Over(s[j - 1].out, i, tokens[j])
                         IN [out |-> new, last |-> Len(tokens[j]), sent |-> s[j - 1].sent \union {<<i, j, new>>}]
                    ELSE s[j - 1]
            IN s[Len(tokens)]
        walk[i \in 0..n] ==
            IF i = 0 THEN [out |-> buf, sent |-> {}]
            ELSE LET r == at(walk[i - 1].out, i - 1)
                 IN [out |-> Over(r.out, i - 1, SubSeq(buf, i, i + r.last - 1)),
                     sent |-> walk[i - 1].sent \union r.sent]
    IN walk[n].sent

\* One buffer, larger than the seed, takes at each position every token and the
\* rest of the seed, and then one more byte of the seed for the next position.
UserExtrasInsert(buf, tokens, maxFile) ==
    LET n == Len(buf)
        fitting == SelectSeq(tokens, LAMBDA t : n + Len(t) <= maxFile)
        insert(tmp, i, t) == Over(Over(tmp, i, t), i + Len(t), SubSeq(buf, i + 1, n))
        at(tmp0, i) ==
            LET s[j \in 0..Len(fitting)] ==
                    IF j = 0 THEN [tmp |-> tmp0, sent |-> {}]
                    ELSE LET new == insert(s[j - 1].tmp, i, fitting[j])
                         IN [tmp |-> new, sent |-> s[j - 1].sent \union {<<i, fitting[j], SubSeq(new, 1, n + Len(fitting[j]))>>}]
            IN s[Len(fitting)]
        walk[i \in 0..n] ==
            LET before == IF i = 0 THEN [tmp |-> [k \in 1..maxFile |-> 0], sent |-> {}] ELSE walk[i - 1]
                r == at(IF i = 0 THEN before.tmp ELSE Over(before.tmp, i - 1, <<buf[i]>>), i)
            IN [tmp |-> r.tmp, sent |-> before.sent \union r.sent]
    IN walk[n].sent

----------------------------------------------------------------------------

Flips(buf, eff) ==
    Bitflip1(buf) \union Bitflip2(buf) \union Bitflip4(buf) \union Bitflip8(buf)
    \union Bitflip16(buf, eff) \union Bitflip32(buf, eff)
Ariths(buf, eff) == Arith8(buf, eff) \union Arith16(buf, eff) \union Arith32(buf, eff)

\* What could_be_arith and could_be_interest leave out has been sent by the
\* time their stages end, unless it was left out as a flip of bits, and what is
\* left out of a single byte as such a flip has been flipped.  (Of two bytes it
\* need not have been: could_be_bitflip takes the last bit of one and the first
\* of the next for neighbours, which FLIP_BIT does not.)
SkippedWereSent(buf) ==
    LET n == Len(buf)
        eff == EffMap(buf, 1..n)
        old == Word(buf, 0, n)
        flips == {buf} \union Flips(buf, eff)
        ariths == flips \union Ariths(buf, eff)
        interests == ariths \union Interest8(buf, eff) \union Interest16(buf, eff) \union Interest32(buf, eff)
    IN \A new \in 0..(Base ^ n - 1) :
           LET out == Put(buf, 0, n, new)
           IN IF could_be_bitflip(Xor(old, new, n)) THEN n > 1 \/ out \in flips
              ELSE /\ could_be_arith(old, new, n) => out \in ariths
                   /\ could_be_interest(old, new, n, FALSE) => out \in interests

\* The tokens that bitflip 1/1 collects are the longest runs of bytes whose last
\* bits, flipped, all take the seed's path to one other path, if the length is one
\* of a token: none is cut at the end of the file, none runs on into the next.
AutoTokensExact(buf, sums, seedSum) ==
    LET n == Len(buf)
        Run(i, j) == /\ sums[i] # seedSum /\ \A k \in i..j : sums[k] = sums[i]
                     /\ i = 1 \/ sums[i - 1] # sums[i]
                     /\ j = n \/ sums[j + 1] # sums[i]
        runs == {r \in (1..n) \X (1..n) :
                    r[1] <= r[2] /\ Run(r[1], r[2]) /\ r[2] - r[1] + 1 \in MinAutoExtra..MaxAutoExtra}
        found == AutoTokens(buf, sums, seedSum)
    IN /\ Len(found) = Cardinality(runs)
       /\ {found[k] : k \in DOMAIN found} = {SubSeq(buf, r[1], r[2]) : r \in runs}
=============================================================================
