------------------------------ MODULE Inspect ------------------------------
(***************************************************************************)
(* afl-showmap.c and afl-analyze.c: the trace of one run as lines of text, *)
(* and the role of every byte of a file, guessed from runs on changed      *)
(* copies; and the command line that these tools and afl-tmin start.       *)
(*                                                                         *)
(* A trace is a function from the indexes that were hit to their counts.   *)
(* Bytes have ByteBits bits.  The checksum of a run is any number.         *)
(*                                                                         *)
(* Not modelled: shared memory and fork, colours, the legend.              *)
(***************************************************************************)
EXTENDS Integers, Sequences, FiniteSets, SequencesExt

CONSTANTS
    ByteBits,            \* 8
    XorLow, Shift,       \* 0x01 and 0x10, the changes of a byte besides its complement
    CksumGap,            \* 32
    MaxAutoExtra         \* MAX_AUTO_EXTRA

----------------------------------------------------------------------------
(* afl-showmap *)

count_class_human(count) ==
    CASE count <= 3 -> count [] count \in 4..7 -> 4 [] count \in 8..15 -> 5
      [] count \in 16..31 -> 6 [] count \in 32..127 -> 7 [] OTHER -> 8
count_class_binary(count) ==
    CASE count <= 2 -> count [] count = 3 -> 4 [] count \in 4..7 -> 8 [] count \in 8..15 -> 16
      [] count \in 16..31 -> 32 [] count \in 32..127 -> 64 [] OTHER -> 128

\* opts: [edges, binary, cmin, crashesOnly, allowAny].
classify_counts(trace, opts) ==
    [i \in DOMAIN trace |->
        IF opts.edges THEN 1
        ELSE IF opts.binary THEN count_class_binary(trace[i]) ELSE count_class_human(trace[i])]

\* "%u%u" of a count and an index, as a number: a line has no leading zero.
Concatenated(count, i) == count * 10 ^ (CHOOSE d \in 1..6 : i < 10 ^ d /\ \A e \in 1..(d - 1) : i >= 10 ^ e) + i

\* How the run ended.
VerdictOf(timedOut, stopped, signaled) ==
    [timedOut |-> timedOut, crashed |-> ~ timedOut /\ ~ stopped /\ signaled]

\* The lines for afl-cmin: none for a run that is not to be kept.
write_results(trace, verdict, opts) ==
    LET classes == classify_counts(trace, opts)
    IN IF verdict.timedOut \/ (~ opts.allowAny /\ verdict.crashed # opts.crashesOnly) THEN {}
       ELSE {Concatenated(classes[i], i) : i \in DOMAIN trace}

\* The file afl-cmin sorts and compares tells two runs apart exactly when they
\* differ in an index or in the class of a count: no two tuples are written as
\* the same text, although nothing separates the count from the index.
TuplesTellApart(first, second, opts) ==
    LET ok == [timedOut |-> FALSE, crashed |-> opts.crashesOnly]
    IN write_results(first, ok, opts) = write_results(second, ok, opts)
       <=> classify_counts(first, [opts EXCEPT !.binary = FALSE])
           = classify_counts(second, [opts EXCEPT !.binary = FALSE])

----------------------------------------------------------------------------
(* afl-analyze: the runs *)

ByteBase == 2 ^ ByteBits
FlippedLow(b) == IF b % (2 * XorLow) >= XorLow THEN b - XorLow ELSE b + XorLow
Complement(b) == ByteBase - 1 - b

\* The four copies that are run for byte i of in_data, and in_data after them.
ProbesOf(in_data, i) ==
    LET ff == [in_data EXCEPT ![i] = Complement(@)]
        low == [ff EXCEPT ![i] = Complement(FlippedLow(@))]
        sub == [low EXCEPT ![i] = (FlippedLow(@) - Shift) % ByteBase]
        add == [sub EXCEPT ![i] = (@ + 2 * Shift) % ByteBase]
    IN [runs |-> <<ff, low, sub, add>>, after |-> [add EXCEPT ![i] = (@ - Shift) % ByteBase]]

\* What analyze keeps between bytes: the file, its four last checksums, the bit
\* that marks runs, and b_data so far.
\* An oracle gives the four checksums of the byte, 0 for a timeout; orig is the
\* checksum of the unchanged file.
Response(sums, orig) ==
    CASE \A k \in 1..4 : sums[k] = orig -> "none"
      [] \E k \in 1..4 : sums[k] # orig /\ \E j \in 1..4 : sums[j] = orig -> "minor"
      [] \A k \in 1..4 : sums[k] = sums[1] /\ sums[1] # orig -> "fixed"
      [] OTHER -> "variable"

AnalyzeByte(acc, sums, orig, i) ==
    LET seq == IF \A k \in 1..4 : acc.prev[k] # sums[k] THEN ~ acc.seq ELSE acc.seq
    IN [in_data |-> ProbesOf(acc.in_data, i).after, prev |-> sums, seq |-> seq,
        ran |-> acc.ran \o ProbesOf(acc.in_data, i).runs,
        b_data |-> Append(acc.b_data, [resp |-> Response(sums, orig), seq |-> seq])]

\* sums[i]: the checksums of byte i.
analyze(in_data, sums, orig) ==
    LET after[i \in 0..Len(in_data)] ==
            IF i = 0 THEN [in_data |-> in_data, prev |-> <<0, 0, 0, 0>>, seq |-> FALSE, ran |-> <<>>, b_data |-> <<>>]
            ELSE AnalyzeByte(after[i - 1], sums[i], orig, i)
    IN after[Len(in_data)]

----------------------------------------------------------------------------
(* afl-analyze: the report *)

Strength(resp) == CASE resp = "none" -> 0 [] resp = "minor" -> 1 [] resp = "variable" -> 2 [] resp = "fixed" -> 3
Stronger(a, b) == IF Strength(a) < Strength(b) THEN b ELSE a

Value(bytes) == \* least significant byte first, as the processor reads it
    FoldLeft(LAMBDA sum, k : sum + bytes[k] * ByteBase ^ (k - 1), 0, [k \in DOMAIN bytes |-> k])
High(b) == b >= ByteBase \div 2
Distance(a, b) == IF a < b THEN b - a ELSE a - b

\* What a run of bytes of the class "fixed" may be.
FixedKind(bytes, in_len) ==
    LET small == Value(bytes) # 0 /\ (Value(bytes) <= in_len \/ Value(Reverse(bytes)) <= in_len)
        mixed == IF Len(bytes) = 2 THEN Distance(bytes[1], bytes[2]) > CksumGap
                 ELSE \E k \in 2..4 : High(bytes[k]) # High(bytes[1])
    IN CASE Len(bytes) \in {2, 4} /\ small -> "length"
         [] Len(bytes) \in {2, 4} /\ ~ small /\ mixed /\ Value(bytes) # 0 -> "cksum"
         [] Len(bytes) \notin {2, 4} /\ Len(bytes) \notin {1, 3} \cup 5..(MaxAutoExtra - 1) -> "suspect"
         [] OTHER -> "fixed"

\* The runs, as [from, len, kind]: bytes with the same mark, the strongest class.
dump_hex(in_data, b_data) ==
    LET n == Len(in_data)
        End(i) == CHOOSE j \in i..n :
                    /\ \A k \in i..j : b_data[k].seq = b_data[i].seq
                    /\ j = n \/ b_data[j + 1].seq # b_data[i].seq
        Kind(i, j) == FoldLeft(LAMBDA kind, k : Stronger(kind, b_data[k].resp), "none", [k \in 1..(j - i + 1) |-> i + k - 1])
        Run(i) == LET kind == Kind(i, End(i))
                  IN [from |-> i, len |-> End(i) - i + 1,
                      kind |-> IF kind = "fixed" THEN FixedKind(SubSeq(in_data, i, End(i)), n) ELSE kind]
        runs[i \in 1..(n + 1)] == IF i = n + 1 THEN <<>> ELSE <<Run(i)>> \o runs[End(i) + 1]
    IN runs[1]

\* Every run of the target is on the original file with one byte changed, the
\* changes are the four that the program announces, and the file is as it was
\* when the report reads it.
\* No byte is left out of the report or named twice; neighbours that the target
\* answers alike are in one run; a run called a no-op has only bytes without any
\* effect, and one called superficial has no byte whose every change was seen.
ReportTruthful(in_data, sums, orig) ==
    LET done == analyze(in_data, sums, orig)
        runs == dump_hex(done.in_data, done.b_data)
        n == Len(in_data)
        Covers(run, i) == run.from <= i /\ i < run.from + run.len
    IN /\ done.in_data = in_data
       /\ \A i \in 1..n :
             LET b == in_data[i]
             IN [k \in 1..4 |-> done.ran[4 * (i - 1) + k]]
                = [k \in 1..4 |-> [in_data EXCEPT ![i] =
                      <<Complement(b), FlippedLow(b), (b - Shift) % ByteBase, (b + Shift) % ByteBase>>[k]]]
       /\ \A i \in 1..n : Cardinality({r \in DOMAIN runs : Covers(runs[r], i)}) = 1
       /\ \A i \in 1..(n - 1) :
             sums[i] = sums[i + 1] => \E r \in DOMAIN runs : Covers(runs[r], i) /\ Covers(runs[r], i + 1)
       /\ \A r \in DOMAIN runs : \A i \in {i \in 1..n : Covers(runs[r], i)} :
             /\ runs[r].kind = "none" => \A k \in 1..4 : sums[i][k] = orig
             /\ runs[r].kind = "minor" => \E k \in 1..4 : sums[i][k] = orig

----------------------------------------------------------------------------
(* The command line *)

\* Directories are numbers; an argument is a sequence of words, "@@" among them.
\* find_binary: the first directory of PATH that has the program.
\* fs[d] is what stat says of the program in directory d.
Runnable(stat) == stat.regular /\ stat.executable /\ stat.size >= 4
NotFound == 0

find_binary(path, fs) ==
    LET hits == {k \in DOMAIN path : Runnable(fs[path[k]])}
    IN IF hits = {} THEN NotFound ELSE path[CHOOSE k \in hits : \A j \in hits : k <= j]

\* Only the first "@@" of an argument is replaced.
detect_file_args(argv, file) ==
    [a \in DOMAIN argv |->
        [w \in DOMAIN argv[a] |->
            IF argv[a][w] = "@@" /\ \A v \in 1..(w - 1) : argv[a][v] # "@@" THEN file ELSE argv[a][w]]]

\* afl-qemu-trace is looked for in AFL_PATH only, or beside the tool and then in BIN_PATH.
get_qemu_argv(target, argv, places) ==
    LET found == IF places.AFL_PATH # "unset" THEN IF places.AFL_PATH = "has" THEN "AFL_PATH" ELSE "fatal"
                 ELSE IF places.own = "has" THEN "own" ELSE IF places.BIN_PATH = "has" THEN "BIN_PATH" ELSE "fatal"
    IN IF found = "fatal" THEN <<>> ELSE << <<found>>, <<"--">>, <<target>> >> \o Tail(argv)

\* What is started gets the arguments of the command line after the program, in
\* their order, with the file's name in place; without the emulator it is the
\* program a shell would start: no directory before its own has one that can run.
\* A program that cannot be started, and a missing emulator, are refused.
CommandFaithful(path, fs, argv, file, qemu, places) ==
    LET target == find_binary(path, fs)
        given == detect_file_args(argv, file)
        started == IF qemu THEN get_qemu_argv("target", given, places) ELSE given
        n == Len(given) - 1
    IN /\ \A k \in DOMAIN path :
             (target # NotFound /\ Runnable(fs[path[k]])) => \E j \in 1..k : path[j] = target /\ Runnable(fs[target])
       /\ (target = NotFound) => \A k \in DOMAIN path : ~ Runnable(fs[path[k]])
       /\ started # <<>> => SubSeq(started, Len(started) - n + 1, Len(started)) = Tail(given)
       /\ \A a \in DOMAIN given : \A w \in DOMAIN given[a] :
             given[a][w] # argv[a][w] => argv[a][w] = "@@" /\ given[a][w] = file
=============================================================================
