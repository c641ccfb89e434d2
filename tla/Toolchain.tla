----------------------------- MODULE Toolchain -----------------------------
(***************************************************************************)
(* The compilers that instrument a target: the command lines that afl-gcc, *)
(* afl-clang-fast and afl-as start, and where afl-as puts trampolines.     *)
(*                                                                         *)
(* An option is a string; env is the set of AFL_ variables that are set; a *)
(* line of assembly is its kind.  Text that is added as a block, such as   *)
(* "-g -O3 -funroll-loops", is one option.                                 *)
(*                                                                         *)
(* Not modelled: the Apple and FreeBSD variants, trace-pc-guard, the text  *)
(* of trampolines and payload, what the next tool does with the options.   *)
(***************************************************************************)
EXTENDS Integers, Sequences, FiniteSets, SequencesExt

Refused == <<"refused">>
Given(argv) == {argv[k] : k \in DOMAIN argv}
When(test, options) == IF test THEN options ELSE <<>>

\* find_as and find_obj: where the helper is found, in this order.
Places == <<"AFL_PATH", "beside", "built_in">>
find_as(found) ==
    LET hits == {k \in 1..3 : Places[k] \in found}
    IN IF hits = {} THEN "nowhere" ELSE Places[CHOOSE k \in hits : \A j \in hits : k <= j]

----------------------------------------------------------------------------
(* afl-gcc and afl-clang-fast *)

\* afl-gcc: -B and its argument, -integrated-as and -pipe are left out.
KeptByGcc(argv) ==
    LET n == Len(argv)
        kept[k \in 1..(n + 2)] ==
            IF k > n THEN <<>>
            ELSE IF argv[k] = "-B" THEN kept[k + 2]
            ELSE IF argv[k] \in {"-Bdir", "-integrated-as", "-pipe"} THEN kept[k + 1]
            ELSE <<argv[k]>> \o kept[k + 1]
    IN kept[1]

Sanitizers == {"-fsanitize=address", "-fsanitize=memory"}
Harden(argv, env) ==
    When("AFL_HARDEN" \in env,
         <<"-fstack-protector-all">> \o When("FORTIFY_SOURCE" \notin Given(argv), <<"-D_FORTIFY_SOURCE=2">>))

\* The sanitizer of the environment, unless the caller names one.
Conflict(argv, env) ==
    /\ Given(argv) \cap Sanitizers = {}
    /\ env \cap {"AFL_USE_ASAN", "AFL_USE_MSAN"} # {}
    /\ {"AFL_USE_ASAN", "AFL_USE_MSAN"} \subseteq env \/ "AFL_HARDEN" \in env
Sanitize(argv, env) ==
    IF Given(argv) \cap Sanitizers # {} THEN <<>>
    ELSE When("AFL_USE_ASAN" \in env, <<"-U_FORTIFY_SOURCE", "-fsanitize=address">>)
         \o When("AFL_USE_MSAN" \in env, <<"-U_FORTIFY_SOURCE", "-fsanitize=memory">>)

NoBuiltin(env) == When("AFL_NO_BUILTIN" \in env, <<"-fno-builtin">>)

edit_params_gcc(name, argv, env, as_path) ==
    IF as_path = "nowhere" \/ Conflict(KeptByGcc(argv), env) THEN Refused
    ELSE <<name>> \o KeptByGcc(argv) \o <<"-B", as_path>>
         \o When(name = "clang", <<"-no-integrated-as">>)
         \o Harden(KeptByGcc(argv), env) \o Sanitize(KeptByGcc(argv), env)
         \o When("AFL_DONT_OPTIMIZE" \notin env, <<"-g -O3 -funroll-loops", "-D__AFL_COMPILER=1">>)
         \o NoBuiltin(env)

\* What afl-as is told of the sanitizer, for its ratio.
EnvOfAssembler(argv, env) ==
    IF Given(KeptByGcc(argv)) \cap Sanitizers # {} THEN env \cup {"AFL_USE_ASAN"} ELSE env

\* AFL_INST_RATIO, a third of it with a sanitizer.
Unset == -1
inst_ratio(given, env) ==
    LET ratio == IF given = Unset THEN 100 ELSE given
    IN IF env \cap {"AFL_USE_ASAN", "AFL_USE_MSAN"} # {} THEN ratio \div 3 ELSE ratio

\* afl-clang-fast: linking is assumed unless an option says otherwise; the last
\* of -m32 and -m64 chooses the runtime.
MaybeLinking(argv) == Given(argv) \cap {"-c", "-S", "-E", "-shared"} = {}
BitMode(argv) ==
    LET modes == SelectSeq(argv, LAMBDA a : a \in {"-m32", "-m64"})
    IN IF modes = <<>> THEN "" ELSE Last(modes)

\* runtimes: the files of the runtime that exist.
LinkArgs(argv, runtimes) ==
    IF ~ MaybeLinking(argv) THEN <<>>
    ELSE When("-x" \in Given(argv), <<"-x", "none">>) \o <<"afl-llvm-rt.o" \o BitMode(argv)>>
NoRuntime(argv, runtimes) ==
    MaybeLinking(argv) /\ BitMode(argv) # "" /\ BitMode(argv) \notin runtimes

KeptByClang(argv) == SelectSeq(argv, LAMBDA a : a \notin {"-Wl,-z,defs", "-Wl,--no-undefined"})

edit_params_clang(name, argv, env, obj_path, runtimes) ==
    IF obj_path = "nowhere" \/ Conflict(argv, env) \/ NoRuntime(argv, runtimes) THEN Refused
    ELSE <<name, "-Xclang -load -Xclang pass", "-Qunused-arguments">> \o KeptByClang(argv)
         \o Harden(argv, env) \o Sanitize(argv, env)
         \o When("AFL_DONT_OPTIMIZE" \notin env, <<"-g -O3 -funroll-loops">>)
         \o NoBuiltin(env) \o <<"-D__AFL_HAVE_MANUAL_CONTROL=1", "-D__AFL_COMPILER=1">>
         \o LinkArgs(argv, runtimes)

\* A compiler that is started gets what its caller wrote, in the caller's order,
\* but for the options that are taken out with their arguments; it is told of one
\* sanitizer at most unless the caller names two; and with a language
\* forced by -x the runtime object is not compiled as source: "none" precedes it.
\* The assembler picks a third of the branches exactly when the compiler was told
\* to use a sanitizer, by its caller or by the environment.
CommandsConsistent(argv, env, found, runtimes) ==
    LET place == find_as(found)
        gcc == edit_params_gcc("gcc", argv, env, place)
        clang == edit_params_clang("clang", argv, env, place, runtimes)
        Removed(k) == \/ argv[k] \in {"-B", "-Bdir", "-integrated-as", "-pipe"}
                      \/ \E j \in 0..(k - 1) : \* an odd number of -B stands before it
                            /\ (k - 1 - j) % 2 = 1 /\ \A i \in (j + 1)..(k - 1) : argv[i] = "-B"
                            /\ j = 0 \/ argv[j] # "-B"
        stay == {k \in DOMAIN argv : ~ Removed(k)}
        Ordered(S) == [j \in 1..Cardinality(S) |-> argv[CHOOSE k \in S : Cardinality({i \in S : i <= k}) = j]]
        One(command) == Cardinality(Given(command) \cap Sanitizers)
                            <= IF Sanitizers \subseteq Given(argv) THEN 2 ELSE 1
    IN /\ gcc # Refused => SubSeq(gcc, 2, Cardinality(stay) + 1) = Ordered(stay) /\ One(gcc)
                           /\ SubSeq(gcc, Cardinality(stay) + 2, Cardinality(stay) + 3) = <<"-B", place>>
                           /\ (inst_ratio(Unset, EnvOfAssembler(argv, env)) = 33)
                                <=> Given(gcc) \cap Sanitizers # {}
       /\ found = {} => gcc = Refused /\ clang = Refused
       /\ clang # Refused =>
             /\ One(clang)
             /\ \A k \in DOMAIN clang : ("-x" \in Given(argv) /\ clang[k] \in {"afl-llvm-rt.o" \o b : b \in {"", "-m32", "-m64"}})
                                            => clang[k - 1] = "none"

----------------------------------------------------------------------------
(* afl-as *)

\* file: "version", "dash", "stdin", or where the input file is.
\* A file outside the temporary directories is passed through unchanged.
edit_params_as(file) ==
    [refused |-> file = "dash", justVersion |-> file = "version", passThru |-> file = "elsewhere"]

\* The kinds of lines:
\*   "text" "other"       a directive that enters .text or another section
\*   "p2align"            an alignment, as before the jump tables of OpenBSD
\*   "code" "offcode"     .code32 or .code64, of this mode or of the other
\*   "intel" "att"        syntax directives
\*   "app" "noapp"        #APP and #NO_APP
\*   "func" "branch" "bb" "label"   main:, .L0:, .LBB0_0: and other labels
\*   "jcond" "insn" "comment"       instructions and the rest

\* What add_instrumentation keeps between lines; out is what it has written.
Scanner == [ok |-> FALSE, csect |-> FALSE, intel |-> FALSE, app |-> FALSE,
            skipLabel |-> FALSE, next |-> FALSE, out |-> <<>>]
Trampoline == "trampoline"


\* The states that directives and comments set, once the line is written.
Tracked(s, line, clang) ==
    [s EXCEPT !.skipLabel = @ \/ (line = "p2align" /\ s.ok /\ ~ clang),
              !.ok = IF line = "text" THEN TRUE ELSE IF line = "other" THEN FALSE ELSE @,
              !.csect = IF line = "offcode" THEN TRUE ELSE IF line = "code" THEN FALSE ELSE @,
              !.intel = IF line = "intel" THEN TRUE ELSE IF line = "att" THEN FALSE ELSE @,
              !.app = IF line = "app" THEN TRUE ELSE IF line = "noapp" THEN FALSE ELSE @]

Instrumentable(s) == s.ok /\ ~ s.csect /\ ~ s.intel /\ ~ s.app

\* A trampoline that waits is written before the next instruction.
Deferred(s, line) ==
    IF Instrumentable(s) /\ s.next /\ line \in {"jcond", "insn"}
    THEN [s EXCEPT !.next = FALSE, !.out = Append(@, Trampoline)] ELSE s

\* After a conditional branch at once; after a label, when code follows.
\* sampled: R(100) < inst_ratio, which a function's label does not ask.
Marked(s, line, sampled, clang) ==
    IF ~ Instrumentable(s) THEN s
    ELSE CASE line = "jcond" /\ sampled -> [s EXCEPT !.out = Append(@, Trampoline)]
           [] line = "func" -> [s EXCEPT !.next = TRUE]
           [] line = "branch" \/ (line = "bb" /\ clang) ->
                IF ~ sampled THEN s
                ELSE IF s.skipLabel THEN [s EXCEPT !.skipLabel = FALSE] ELSE [s EXCEPT !.next = TRUE]
           [] OTHER -> s

LineDone(s, line, sampled, clang) ==
    LET written == [Deferred(s, line) EXCEPT !.out = Append(@, line)]
    IN Marked(Tracked(written, line, clang), line, sampled, clang)

\* sampled: the indexes of the lines that the ratio picks.
add_instrumentation(lines, passThru, sampled, clang) ==
    LET after[k \in 0..Len(lines)] ==
            IF k = 0 THEN Scanner ELSE LineDone(after[k - 1], lines[k], k \in sampled, clang)
        out == after[Len(lines)].out
    IN IF passThru THEN lines
       ELSE out \o When(\E k \in DOMAIN out : out[k] = Trampoline, <<"payload">>)

\* Where the lines 1..k leave the file: in code that may be instrumented?  A
\* reference, from the last directive of each kind.
LastOf(lines, k, kinds) ==
    LET at == {j \in 1..k : lines[j] \in kinds}
    IN IF at = {} THEN "none" ELSE lines[CHOOSE j \in at : \A i \in at : i <= j]
InCode(lines, k) ==
    /\ LastOf(lines, k, {"text", "other"}) = "text"
    /\ LastOf(lines, k, {"code", "offcode"}) # "offcode"
    /\ LastOf(lines, k, {"intel", "att"}) # "intel"
    /\ LastOf(lines, k, {"app", "noapp"}) # "app"

\* The source is kept line by line; a trampoline stands only in .text, outside
\* of Intel syntax, inline assembly and code of the other word size; and every
\* function with code behind its label gets one before the first instruction
\* there; the payload is there exactly when a trampoline calls it.  A file that
\* the compiler did not write stays as it is.
TrampolinesPlaced(lines, file, sampled, clang) ==
    LET asked == edit_params_as(file)
        out == add_instrumentation(lines, asked.passThru, sampled, clang)
        Before(p) == Cardinality({q \in 1..(p - 1) : out[q] \notin {Trampoline, "payload"}})
        tramps == {p \in DOMAIN out : out[p] = Trampoline}
    IN /\ SelectSeq(out, LAMBDA l : l \notin {Trampoline, "payload"}) = lines
       /\ \A p \in tramps : InCode(lines, Before(p))
       /\ file = "elsewhere" => out = lines
       /\ \A f \in DOMAIN lines : (~ asked.passThru /\ lines[f] = "func" /\ InCode(lines, f)) =>
             \A i \in (f + 1)..Len(lines) :
                (/\ lines[i] \in {"jcond", "insn"} /\ InCode(lines, i - 1)
                 /\ \A j \in (f + 1)..(i - 1) : ~ (lines[j] \in {"jcond", "insn"} /\ InCode(lines, j - 1)))
                => \E p \in tramps : Before(p) = i - 1
       /\ ("payload" \in Given(out)) <=> (tramps # {})
=============================================================================
