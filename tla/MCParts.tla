------------------------------ MODULE MCParts ------------------------------
(***************************************************************************)
(* The parts of afl-fuzz and its tools besides the loop of the fuzzer, one *)
(* at a time: job says which, and with which input. A part that has state  *)
(* runs alone, the others stay in their initial states; a part that is an  *)
(* algorithm is applied to the input, and its properties are invariants of *)
(* the only state.                                                         *)
(***************************************************************************)
EXTENDS Havoc, OutDir, Execution, QueueCycle, Setup, TrackedHeap, Dictionary, Messages, Minimizer, Tracing,
        TLC, SequencesExt

VARIABLE job
\* Of HashTable and Preload.
VARIABLES table, content
VARIABLES maps, total_mem, fault
\* Of EmulatorServer.
VARIABLES emu, cache, own, emuAlive, holders, tsl, asked, orders

----------------------------------------------------------------------------
(* Instances *)

MCBlocks == {[min |-> 1, max |-> 1], [min |-> 1, max |-> 2]}
SeqsUpTo(S, n) == UNION {[1..k -> S] : k \in 0..n}
Texts(S, n) == SeqsUpTo(S, n) \ {<<>>}

Cut == INSTANCE Regions WITH
    DnsHeader <- 2, DnsTail <- 1, TlsHeader <- 2, SshField <- 1, SshMac <- 1, DicomHeader <- 2,
    DtlsHeader <- 3, DtlsFragment <- 2

\* Of bytes of 4 bits: numbers that the stages try, letters of two cases, the lines
\* of a dictionary (the first token is the longest, a comment, a higher level), and
\* what flips find: tokens that differ in case, one of the user's, a number.
Interest(width) ==
    CASE width = 1 -> {0, 1, 8, 15} [] width = 2 -> {15, 16, 32, 127, 128}
      [] OTHER -> {27, 255, 256, 32768}
Lower(b) == b % 8
DictLine(level, bytes) == [comment |-> FALSE, level |-> level, data |-> bytes]
MCDictionaries ==
    {<<>>, <<DictLine(0, <<1, 1, 1>>), DictLine(0, <<7, 8>>), [DictLine(0, <<>>) EXCEPT !.comment = TRUE],
      DictLine(0, <<5>>), DictLine(2, <<5, 5, 5>>)>>}
MCFoundTokens == {<<4, 5>>, <<12, 5>>, <<6, 7, 8>>, <<7, 0>>, <<0, 1>>}

Gram == INSTANCE Grammar WITH
    TemplateConsistencyCount <- 5, HeaderSize <- 20, FieldsSize <- 40, MaxEnrichmentTypes <- 2,
    MaxEnrichmentCorpus <- 3, HistoryLength <- 3

Colliding(k) == CASE k = "a" -> 0 [] k = "b" -> 4 [] k = "c" -> 8 [] OTHER -> 1
Kh == INSTANCE HashTable WITH Keys <- {"a", "b", "c", "d"}, Hash <- Colliding, MaxBuckets <- 8

TminModes == [crash : BOOLEAN, exact : {FALSE}]

Look == INSTANCE Inspect WITH
    ByteBits <- 4, XorLow <- 1, Shift <- 4, CksumGap <- 3, MaxAutoExtra <- 6
Cc == INSTANCE Toolchain

SharedBucket(p) == IF p = "p3" THEN 2 ELSE 1
Pre == INSTANCE Preload WITH
    Threads <- {"t1", "t2"}, Lengths <- {0, 1, 3, 5}, PageSize <- 4, Header <- 2, max_mem <- 7,
    SizeT <- 16, MaxMaps <- 3
Rep == INSTANCE Replay

Trampolines == {[obj |-> "o1", loc |-> 1], [obj |-> "o1", loc |-> 2], [obj |-> "o2", loc |-> 3]}
Cells == INSTANCE MapCells WITH EmuMapSize <- 8
MCCell(prev, loc) == Cells!BranchCell(prev, loc)
MCShifted(loc) == Cells!Previous(loc)
Emu == INSTANCE EmulatorServer WITH EmuBlocks <- {"b1", "b2"}, PipeSize <- 2, MaxOrders <- 3
----------------------------------------------------------------------------
(* Jobs *)

Machines == {"havoc", "messages", "dictionary", "runs", "outdir", "table", "tmin", "heap",
             "preload", "cores", "trace", "emulator", "cycle"}

Lines == Texts({Cut!CR, Cut!LF, Cut!Other, 250}, 5)
Heads == Texts({Cut!CR, Cut!LF, Cut!Version, 200}, 5) \cup Texts({Cut!CR, Cut!LF}, 8)
Composed(parts, n) == {FlattenSeq(p) : p \in Texts(parts, n)}
IppParts ==
    {<<Cut!Version>>, <<0>>, <<200>>, <<250>>, <<Cut!CR, Cut!LF, Cut!CR, Cut!LF>>, <<1, 2>>}
\* Records with and without the message that their length promises, a length of 0.
DtlsRecords ==
    {<<Cut!ChangeCipher, Cut!Dtls, 1, 7>>, <<Cut!Alert, Cut!Dtls, 2, 1, 4>>, <<Cut!Handshake, Cut!Dtls, 3, 5, 1, 9>>,
     <<Cut!Handshake, Cut!Dtls, 2, 6, 7>>, <<Cut!Application, Cut!Dtls, 0>>, <<Cut!Heartbeat, Cut!Dtls, 3>>, <<Cut!Other>>}
ProtocolBuffers ==
    [smtp |-> Lines, ftp |-> Lines, rtsp |-> Heads, http |-> Heads,
     sip |-> Texts({Cut!CR, Cut!LF, Cut!Command, Cut!Version, 200}, 4) \cup Texts({Cut!CR, Cut!Command, Cut!Other}, 6),
     ipp |-> Texts({Cut!CR, Cut!LF}, 5) \cup Texts({Cut!Command, Cut!Tag, Cut!Other}, 6) \cup Composed(IppParts, 4),
     dns |-> Texts({0, 1}, 9), tls |-> Texts({0, 1, 2, Cut!Application}, 6),
     ssh |-> Texts({Cut!Ssh, Cut!CR, Cut!LF}, 7) \cup Texts({Cut!Ssh, 1, 2, 20}, 5),
     dicom |-> Texts(0..2, 6),
     dtls12 |-> Texts({Cut!Handshake, Cut!Dtls, Cut!Other, 1}, 6) \cup Composed(DtlsRecords, 3)]

\* Answers and patterns of a language model, and the message types of a seed.
ModelGrammars == {<<<<"h">>, <<"a">>>>, <<<<"h">>, <<"a">>, <<"b">>>>, <<<<"h">>>>, <<<<>>>>}
Answers == {<<>>} \cup {<<g>> : g \in ModelGrammars}
\* Templates without operators, and some whose text is a group, an alternative, a
\* repetition, or does not compile.
PlainTemplates ==
    {<<"P">>, <<Gram!Value>>, <<"P", Gram!Value>>, <<Gram!Value, Gram!LF>>, <<Gram!Value, Gram!Value>>} \X SeqsUpTo({<<Gram!Value>>, <<"P", Gram!Value, Gram!LF>>, <<"x">>}, 2)
OperatorTemplates ==
    ({<<"(", Gram!Value, ")">>, <<"P", ")", "|", "(", "x">>, <<"(", "P">>} \X {<<>>, <<<<"x">>>>})
    \cup ({<<"P">>} \X SeqsUpTo({<<"P", "(", Gram!Value, ")">>, <<"(", "(", "x", ")", "|", Gram!LF, ")", "+">>, <<"*">>, <<"x">>}, 2))
Buckets ==
    {[i \in 1..4 |-> IF i \in d THEN <<"A", "B", "C", "D">>[i] ELSE Gram!EmptyBucket] : d \in SUBSET (1..4)}
Exchanges ==
    {[curl |-> FALSE, status |-> 0, content |-> Gram!NoText], [curl |-> TRUE, status |-> 500, content |-> <<"x">>],
     [curl |-> TRUE, status |-> 200, content |-> Gram!NoText], [curl |-> TRUE, status |-> 200, content |-> <<Gram!LF>>],
     [curl |-> TRUE, status |-> 200, content |-> <<"a", ".">>], [curl |-> TRUE, status |-> 200, content |-> <<Gram!LF, "a", Gram!LF, "b">>]}
Key == Gram!chatafl_runtime_api_key(Gram!NoText, <<"k">>, Gram!NoText)
NoKey == Gram!chatafl_runtime_api_key(<<Gram!LF>>, <<"k">>, <<"k">>)
SeedFiles ==
    {{[base |-> "s1", enriched |-> FALSE, headers |-> h, text |-> <<"a">>],
      [base |-> "s2", enriched |-> e, headers |-> <<"A", "E">>, text |-> <<"b">>]} :
        h \in {<<>>, <<"A">>, <<"B", "A">>}, e \in BOOLEAN}
ModelJob ==
    \/ \E x \in SeedFiles, t \in SUBSET {"A", "B", "C", "D"}, e \in [1..2 -> Exchanges], k \in {Key, NoKey} :
          job = [k |-> "enrich", files |-> x, types |-> t, exchanges |-> e, key |-> k]
    \/ \E x \in SeqsUpTo({"[", "]", Gram!Quote, "a"}, 5) : job = [k |-> "template", text |-> x]
    \/ \E x \in [1..5 -> Answers] : job = [k |-> "votes", answers |-> x]
    \/ \E x \in Texts({"P", Gram!LF, "x"}, 4), t \in PlainTemplates \cup OperatorTemplates :
          job = [k |-> "decompose", buf |-> x, header |-> t[1], fields |-> t[2]]
    \/ \E x \in SeqsUpTo({"a", Gram!LF, Gram!CR, ".", Gram!Backslash, "n"}, 4) : job = [k |-> "request", text |-> x]
    \/ \E x \in SeqsUpTo({"a", Gram!LF, Gram!CR, Gram!Quote}, 5) : job = [k |-> "history", text |-> x]
    \/ \E x \in Buckets, n \in 1..3 : job = [k |-> "combine", buckets |-> x, size |-> n]

\* Runs, checksums of four probes, files of programs and command lines.
Traces == UNION {[S -> {1, 8, 128}] : S \in SUBSET {0, 4, 128}}
Showmap == [edges : BOOLEAN, binary : {FALSE}, cmin : {TRUE}, crashesOnly : {FALSE}, allowAny : {FALSE}]
Sums == {<<9, 9, 9, 9>>, <<9, 1, 9, 2>>, <<1, 1, 1, 1>>, <<1, 2, 1, 2>>, <<0, 0, 0, 0>>}
Programs == {[regular |-> r, executable |-> x, size |-> 4] : r, x \in BOOLEAN}
Argvs == {<<<<"target">>>>} \cup {<<<<"target">>, a>> : a \in Texts({"@@", "x"}, 3)}
EmulatorPlaces == [AFL_PATH : {"unset", "has", "not"}, own : {"has", "not"}, BIN_PATH : {"has"}]
ToolJob ==
    \/ \E x \in Traces, y \in {z \in Traces : DOMAIN z \subseteq {0, 4}}, o \in Showmap : job = [k |-> "tuples", first |-> x, second |-> y, opts |-> o]
    \/ \E f \in {<<0, 15>>, <<3, 8, 3>>, <<1, 0, 0, 4>>} : \E s \in [1..Len(f) -> Sums] :
          job = [k |-> "report", file |-> f, sums |-> s]
    \/ \E p \in {<<>>, <<1>>, <<2, 1>>}, fs1, fs2 \in Programs, a \in Argvs, x \in {FALSE} :
          job = [k |-> "command", path |-> p, fs |-> <<fs1, fs2>>, argv |-> a, qemu |-> x, places |-> "none"]
    \/ \E p \in EmulatorPlaces, a \in Argvs :
          job = [k |-> "command", path |-> <<>>, fs |-> <<>>, argv |-> a, qemu |-> TRUE, places |-> p]

AsmLines == {"text", "other", "p2align", "offcode", "code", "intel", "att", "app", "noapp", "func",
             "branch", "jcond", "insn"}
Options == {"-B", "-x", "-m32", "-c", "-fsanitize=address", "-fsanitize=memory", "f.c", "-pipe"}
CompilerJob ==
    \/ \E l \in SeqsUpTo(AsmLines, 3), c \in BOOLEAN :
          job = [k |-> "assemble", lines |-> <<"text">> \o l, file |-> "temporary", sampled |-> 2..4, clang |-> c]
    \/ \E l \in Texts(AsmLines, 1), f \in {"stdin", "elsewhere"} :
          job = [k |-> "assemble", lines |-> <<"text", "func">> \o l, file |-> f, sampled |-> {}, clang |-> FALSE]
    \/ \E a \in Texts(Options, 3), e \in {{}, {"AFL_USE_ASAN"}, {"AFL_HARDEN", "AFL_USE_MSAN"}} :
          job = [k |-> "compile", argv |-> a, env |-> e, found |-> {"AFL_PATH", "built_in"}]
    \/ \E a \in Texts(Options, 1), f \in {{}, {"beside"}} :
          job = [k |-> "compile", argv |-> a, env |-> {}, found |-> f]

\* Strings that a target compares, and its mappings, one behind the other.
CaseFold == [b \in {0, 1, 70, 102} |-> IF b = 70 THEN 102 ELSE b]
Mappings == {[i \in DOMAIN p |-> [st |-> 2 * i, en |-> 2 * i + 2, r |-> p[i][1], w |-> p[i][2]]] :
                p \in Texts(BOOLEAN \X BOOLEAN, 3)}
CompareJob ==
    \/ \E x, y \in SeqsUpTo({1, 70, 102}, 3), n \in 0..4 : job = [k |-> "compare", one |-> x, two |-> y, len |-> n]
    \/ \E x \in Mappings, n \in 1..3 : job = [k |-> "mappings", lines |-> x, most |-> n]

ReplayJob ==
    \E x \in SeqsUpTo({<<>>, <<1>>, <<2, 3>>}, 3), c \in 0..2, n \in [1..3 -> {"none", "send", "after"}] :
       job = [k |-> "replay", messages |-> x, cut |-> c, net |-> n]

Opt(o, v) == [o |-> o, v |-> v]
OptionSet ==
    {Opt(o, "ok") : o \in {"i", "m", "Q", "w", "W", "d", "n", "S", "M"}} \cup {Opt("t", "plus"), Opt("m", "none"), Opt("t", "bad")}
Needed == <<Opt("i", "ok"), Opt("o", "ok"), Opt("N", "ok"), Opt("P", "ok")>>
Systems == [core_pattern : {"pipe", "core"}, governor : {"performance", "powersave"}, min_freq : {1}, max_freq : {1, 2}]
Hosts == [system : Systems, file : {"none", "set"}, process : {"set", "unset"}]
Targets == [runnable : {TRUE}, in_tmp : BOOLEAN, elf : {TRUE}, instrumented : BOOLEAN,
            persist_sig : BOOLEAN, defer_sig : {FALSE}, asan : {FALSE}]
Ready == [system |-> [core_pattern |-> "core", governor |-> "performance", min_freq |-> 1, max_freq |-> 2],
          file |-> "none", process |-> "none"]
Instrumented == [runnable |-> TRUE, in_tmp |-> FALSE, elf |-> TRUE, instrumented |-> TRUE,
                 persist_sig |-> TRUE, defer_sig |-> FALSE, asan |-> FALSE]
OptionJob ==
    \/ \E more \in [1..3 -> OptionSet], e \in {{}, {"AFL_LD_PRELOAD"}} :
          job = [k |-> "options", opts |-> Needed \o more, env |-> e, host |-> Ready, target |-> Instrumented]
    \/ \E o \in {"e", "Q", "n"}, e \in {{}, {"AFL_SKIP_BIN_CHECK"}}, h \in Hosts, t \in Targets :
          job = [k |-> "options", opts |-> Needed \o <<Opt(o, "ok")>>, env |-> e, host |-> h, target |-> t]

Job ==
    \/ \E m \in Machines : job = [k |-> m]
    \/ \E p \in DOMAIN ProtocolBuffers : \E x \in ProtocolBuffers[p] : job = [k |-> "regions", proto |-> p, buf |-> x]
    \/ \E x \in Texts(0..15, 2) : job = [k |-> "deterministic", buf |-> x]
    \/ \E x \in Texts({7, 8, 9}, 7) : job = [k |-> "flips", sums |-> x]
    \/ job = [k |-> "branches", size |-> 32]
    \/ \E x, y \in Texts({0, 1}, 4) : job = [k |-> "splice", one |-> x, two |-> y]
    \/ \E r \in {-1, 0, 40, 100, 101}, x \in Texts({16, 32, 48, 80}, 3), l \in BOOLEAN :
          job = [k |-> "emulated", ratio |-> r, walk |-> x, libs |-> l]
    \/ ModelJob \/ ToolJob \/ CompilerJob \/ CompareJob \/ ReplayJob \/ OptionJob

----------------------------------------------------------------------------
(* The machines *)

khVars == <<table, content>>
preVars == <<maps, total_mem, fault>>
emuVars == <<emu, cache, own, emuAlive, holders, tsl, asked, orders>>
loopVars == <<tracingVars, emuVars, cycleVars>>

\* At most one of the special modes.
LoopOptions ==
    {o \in [dumb : BOOLEAN, whenDone : {TRUE}, untilCrash : BOOLEAN, justOne : BOOLEAN, sync : BOOLEAN,
            importFirst : BOOLEAN, splicing : BOOLEAN] :
        /\ o.importFirst = o.sync
        /\ Cardinality({m \in {"dumb", "untilCrash", "justOne", "sync"} : o[m]}) <= 1}
IdleCycle ==
    /\ opts = "none" /\ loop = "off" /\ paths = <<>> /\ cur = 0 /\ seek = 0 /\ cycle = 0 /\ prevQueued = 0
    /\ useSplicing = FALSE /\ cyclesWoFinds = 0 /\ syncCount = 0 /\ crashed = FALSE /\ stop = "no"
    /\ server = "killed" /\ offered = <<>>

\* A machine that does not run stays as it starts, one way of starting is enough.
Plain == [mode |-> "dumb", net |-> FALSE, terminate |-> FALSE, reduce |-> FALSE]
Init ==
    /\ Job
    /\ HavocInit /\ MessagesInit /\ OutDirInit /\ Kh!TableInit /\ HeapInit
    /\ Pre!PreloadInit /\ SetupInit
    /\ DictionaryInit /\ (job.k # "dictionary" => extras = <<>>)
    /\ IF job.k = "trace" THEN \E b \in Builds, l \in BOOLEAN : TracingInit(b, l)
       ELSE TracingInit([kind |-> "llvm", sites |-> {}, shm |-> "unset"], FALSE)
    /\ Emu!EmulatorInit
    /\ IF job.k = "cycle" THEN \E o \in LoopOptions : CycleInit(o) ELSE IdleCycle
    /\ IF job.k = "runs" THEN \E c \in Configurations : ExecutionInit(c) ELSE ExecutionInit(Plain)
    /\ IF job.k = "tmin" THEN \E x \in Inputs, m \in Modes : MinimizerInit(x, m)
       ELSE MinimizerInit(<<"0">>, [crash |-> FALSE, exact |-> FALSE])

\* One machine takes a step, the others' variables stay.
Alone(k, others) == job.k = k /\ UNCHANGED job /\ UNCHANGED others

RandomStages ==
    /\ Alone("havoc", <<messagesVars, dictionaryVars, executionVars, outDirVars, khVars,
              minimizerVars, heapVars, preVars, setupVars, loopVars>>)
    /\ HavocNext
SplicedMessages ==
    /\ Alone("messages", <<havocVars, dictionaryVars, executionVars, outDirVars, khVars,
              minimizerVars, heapVars, preVars, setupVars, loopVars>>)
    /\ MessagesNext
Tokens ==
    /\ Alone("dictionary", <<havocVars, messagesVars, executionVars, outDirVars, khVars,
              minimizerVars, heapVars, preVars, setupVars, loopVars>>)
    /\ DictionaryNext
Running == Alone("runs", <<havocVars, messagesVars, dictionaryVars, outDirVars, khVars,
                          minimizerVars, heapVars, preVars, setupVars, loopVars>>)
ServerRuns == Running /\ ExecutionNext
Sessions ==
    /\ Alone("outdir", <<havocVars, messagesVars, dictionaryVars, executionVars, khVars,
              minimizerVars, heapVars, preVars, setupVars, loopVars>>)
    /\ OutDirNext
TableCalls ==
    /\ Alone("table", <<havocVars, messagesVars, dictionaryVars, executionVars, outDirVars,
              minimizerVars, heapVars, preVars, setupVars, loopVars>>)
    /\ Kh!TableNext
Minimizing ==
    /\ Alone("tmin", <<havocVars, messagesVars, dictionaryVars, executionVars, outDirVars,
              khVars, heapVars, preVars, setupVars, loopVars>>)
    /\ MinimizerNext
HeapCalls ==
    /\ Alone("heap", <<havocVars, messagesVars, dictionaryVars, executionVars, outDirVars,
              khVars, minimizerVars, preVars, setupVars, loopVars>>)
    /\ HeapNext
GuardedHeap ==
    /\ Alone("preload", <<havocVars, messagesVars, dictionaryVars, executionVars, outDirVars,
              khVars, minimizerVars, heapVars, setupVars, loopVars>>)
    /\ Pre!PreloadNext
CoreChoice ==
    /\ Alone("cores", <<havocVars, messagesVars, dictionaryVars, executionVars, outDirVars,
              khVars, minimizerVars, heapVars, preVars, loopVars>>)
    /\ SetupNext
settledVars == <<havocVars, messagesVars, dictionaryVars, executionVars, outDirVars, khVars, minimizerVars, heapVars, preVars, setupVars>>
Branches == Alone("trace", <<settledVars, emuVars, cycleVars>>) /\ TracingNext
Emulating == Alone("emulator", <<settledVars, tracingVars, cycleVars>>) /\ Emu!EmulatorNext
QueueCycles == Alone("cycle", <<settledVars, tracingVars, emuVars>>) /\ CycleNext

Next ==
    \/ RandomStages \/ SplicedMessages \/ Tokens \/ ServerRuns \/ Sessions
    \/ TableCalls \/ Minimizing \/ HeapCalls \/ GuardedHeap \/ CoreChoice
    \/ Branches \/ Emulating \/ QueueCycles

vars == <<job, havocVars, messagesVars, dictionaryVars, executionVars, outDirVars, khVars, minimizerVars, heapVars, preVars, setupVars, loopVars>>

\* The fairness of Execution: what the fuzzer, the fork server, the timer and
\* the system do goes on; the server under test may do nothing.
FuzzerRuns == Running /\ FuzzerStep
ForkServerRuns == Running /\ ForkServerStep
TimerFires == Running /\ handle_timeout
OrphansReaped == Running /\ OrphanReaped
Spec ==
    /\ Init /\ [][Next]_vars
    /\ WF_vars(FuzzerRuns) /\ WF_vars(ForkServerRuns) /\ WF_vars(TimerFires) /\ WF_vars(OrphansReaped)
----------------------------------------------------------------------------
(* Properties *)

\* What the server is sent is the seed with the changes meant, and all of these.  A
\* seed is cut into messages without a gap, each message is one message when it is
\* parsed alone, and the states of a part of the responses are the first states of
\* all of them (extract_requests_*, extract_response_codes_*).  The regions that
\* are saved with a new seed cut its file into the messages that were sent; fuzz_one
\* splices two buffers into the head of the first and the tail of the second.  A deterministic stage leaves out an input only if another
\* stage sends that very input (could_be_bitflip, could_be_arith, could_be_interest);
\* tokens that fuzz_one writes over the buffer one after the other, without restoring
\* it, each appear alone, and those that a flip finds are whole.
InputsSound ==
    CASE job.k = "regions" ->
            /\ Cut!CoversBuffer(job.proto, job.buf)
            /\ Cut!CutsAreStable(job.proto, job.buf)
            /\ Cut!PrefixesAgree(job.proto, job.buf)
      [] job.k = "messages" -> RegionsCutFile
      [] job.k = "splice" -> SplicesMix(job.one, job.two)
      [] job.k = "deterministic" -> SkippedWereSent(job.buf)
      [] job.k = "dictionary" -> TokensReplaceExactly(<<1, 2, 3>>, 6)
      [] job.k = "flips" -> AutoTokensExact([i \in DOMAIN job.sums |-> i], job.sums, 7)
      [] OTHER -> TRUE

\* What ChatAFL takes from a language model: templates are separate arrays, a
\* field is kept when enough answers agree, the ranges of a decomposed message lie in
\* it, and are in order, apart and all but what the templates fix if those have no
\* operators of regular expressions, requests end as the protocol wants, the history is not cut
\* inside an escape, no combination of message types is left out, and a seed is
\* enriched with each type it lacks, but for a single one. The hash tables it keeps
\* them in (khash.h) find exactly the keys that are there.
GrammarsSound ==
    CASE job.k = "template" -> Gram!TemplatesSeparate(job.text)
      [] job.k = "votes" -> Gram!FieldsAgreed(job.answers)
      [] job.k = "decompose" -> Gram!DecompositionSound(job.buf, job.header, job.fields)
      [] job.k = "request" -> Gram!RequestsWellFormed(<<"a">>, job.text)
      [] job.k = "enrich" -> Gram!EnrichmentComplete(job.files, job.types, job.exchanges, 2, job.key)
      [] job.k = "history" -> Gram!HistoryCutCleanly(job.text)
      [] job.k = "combine" -> Gram!CombinationsComplete(job.buckets, job.size)
      [] job.k = "table" -> Kh!LookupsTruthful
      [] OTHER -> TRUE

=============================================================================
