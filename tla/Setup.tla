------------------------------- MODULE Setup -------------------------------
(***************************************************************************)
(* How afl-fuzz starts: its options, the checks of the system and of the   *)
(* target, and the core that an instance binds itself to while others      *)
(* start beside it.                                                        *)
(*                                                                         *)
(* The value of an option is "ok", "bad" (refused by its syntax), or what  *)
(* tells settings apart: "none" and "plus" of -m and -t.  The directory of *)
(* an instance is modelled in OutDir, the dictionary in Dictionary.        *)
(***************************************************************************)
EXTENDS Integers, Sequences, FiniteSets

CONSTANTS
    Instances,           \* the fuzzers started on one machine
    Cores                \* 0..(cpu_core_count - 1)

ASSUME SetupAssumption == Cores \subseteq Nat

----------------------------------------------------------------------------
(* Options *)

\* Options that may be given once.  -q and -s may be repeated, and so may -W.
Single == {"i", "o", "f", "x", "t", "m", "d", "B", "C", "n", "T", "Q", "N", "D", "w",
           "e", "P", "K", "E", "R", "F", "c", "l"}

Defaults == [refused |-> FALSE, given |-> {}, mem_limit |-> "default", timeout_given |-> 0,
             skip_deterministic |-> FALSE, force_deterministic |-> FALSE, use_splicing |-> FALSE]

\* -W is refused when -w has been given: the test is of -w's flag.
OptionRefused(s, opt) ==
    \/ opt.v = "bad"
    \/ opt.o \in Single /\ opt.o \in s.given
    \/ opt.o \in {"M", "S"} /\ s.given \cap {"M", "S"} # {}
    \/ opt.o = "W" /\ "w" \in s.given

\* -Q brings a limit of its own, unless one is given.
MemLimit(s, opt) ==
    CASE opt.o = "m" -> opt.v [] opt.o = "Q" /\ "m" \notin s.given -> "qemu" [] OTHER -> s.mem_limit

Parsed(s, opt) ==
    CASE s.refused -> s
      [] ~ s.refused /\ OptionRefused(s, opt) -> [Defaults EXCEPT !.refused = TRUE]
      [] OTHER ->
           [s EXCEPT !.given = @ \cup {opt.o},
                     !.mem_limit = MemLimit(s, opt),
                     !.timeout_given = IF opt.o = "t" THEN IF opt.v = "plus" THEN 2 ELSE 1 ELSE @,
                     !.skip_deterministic = @ \/ opt.o = "d",
                     !.use_splicing = @ \/ opt.o = "d",
                     !.force_deterministic = @ \/ opt.o = "M"]

\* fix_up_sync: a secondary instance leaves out the deterministic stages.
SyncRefused(s) == s.given \cap {"M", "S"} # {} /\ ({"n", "d"} \cap s.given # {})
fix_up_sync(s) ==
    IF "S" \in s.given /\ ~ s.force_deterministic
    THEN [s EXCEPT !.skip_deterministic = TRUE, !.use_splicing = TRUE] ELSE s

\* What must be there, and what excludes what.  env: the AFL_ variables set.
Excluded(s, env) ==
    \/ ~ ({"i", "o", "N", "P"} \subseteq s.given)
    \/ SyncRefused(s)
    \/ "n" \in s.given /\ {"C", "Q"} \cap s.given # {}
    \/ "n" \in s.given /\ {"AFL_DUMB_FORKSRV", "AFL_NO_FORKSRV"} \subseteq env
    \/ "AFL_LD_PRELOAD" \in env

Settings(opts, env) ==
    LET parsed[k \in 0..Len(opts)] == IF k = 0 THEN Defaults ELSE Parsed(parsed[k - 1], opts[k])
        s == parsed[Len(opts)]
    IN IF s.refused \/ Excluded(s, env) THEN [Defaults EXCEPT !.refused = TRUE] ELSE fix_up_sync(s)

----------------------------------------------------------------------------
(* Checks of the system and of the target *)

\* system: what the files under /proc and /sys say.
check_crash_handling(system, env) ==
    system.core_pattern # "pipe" \/ "AFL_I_DONT_CARE_ABOUT_MISSING_CRASHES" \in env
check_cpu_governor(system, env) ==
    \/ "AFL_SKIP_CPUFREQ" \in env
    \/ system.governor \in {"unknown", "performance"} \/ system.min_freq = system.max_freq

\* An effective and permitted capability, of the file and of the process, where
\* they have capabilities at all; one of the two must.
check_ep_capability(file, process) ==
    /\ file # "none" \/ process # "none"
    /\ {file, process} \subseteq {"none", "set"}

\* f: the file found; the signatures in it set the modes of the fork server.
check_binary(s, f, env) ==
    LET modes == [persistent |-> f.persist_sig, deferred |-> f.defer_sig, asan |-> f.asan]
        plain == [persistent |-> FALSE, deferred |-> FALSE, asan |-> FALSE]
    IN CASE ~ f.runnable -> [ok |-> FALSE, modes |-> plain]
         [] f.runnable /\ "AFL_SKIP_BIN_CHECK" \in env -> [ok |-> TRUE, modes |-> plain]
         [] OTHER -> [ok |-> /\ ~ f.in_tmp /\ f.elf
                             /\ ("Q" \in s.given) => ~ f.instrumented
                             /\ (s.given \cap {"Q", "n"} = {}) => f.instrumented,
                      modes |-> modes]

\* main until the campaign runs: host is [system, file, process], the system and
\* the capabilities of afl-fuzz, which only a network namespace (-e) asks for.
Starts(opts, env, host, f) ==
    LET s == Settings(opts, env)
        target == check_binary(s, f, env)
        ok == /\ ~ s.refused /\ target.ok
              /\ "e" \in s.given => check_ep_capability(host.file, host.process)
              /\ check_crash_handling(host.system, env) /\ check_cpu_governor(host.system, env)
    IN IF ok THEN [ok |-> TRUE, settings |-> s, modes |-> target.modes] ELSE [ok |-> FALSE]

\* A campaign starts with the settings its options name, or not at all, in whatever
\* order they are written - but for -w before -W, which is refused by mistake.
OptionsOrderFree(opts, env, host, f) ==
    \A k \in 1..(Len(opts) - 1) :
        LET swapped == [opts EXCEPT ![k] = opts[k + 1], ![k + 1] = opts[k]]
        IN {opts[k].o, opts[k + 1].o} # {"w", "W"} /\ opts[k].o # opts[k + 1].o
           => Starts(swapped, env, host, f) = Starts(opts, env, host, f)

\* A variable that skips a check never refuses what would start, and changes
\* nothing but how much is known of the target.
SkipsOnlyPermit(opts, env, host, f) ==
    \A v \in {"AFL_SKIP_CPUFREQ", "AFL_I_DONT_CARE_ABOUT_MISSING_CRASHES", "AFL_SKIP_BIN_CHECK"} :
        LET plain == Starts(opts, env, host, f)
            skipped == Starts(opts, env \cup {v}, host, f)
        IN plain.ok => /\ skipped.ok /\ skipped.settings = plain.settings
                       /\ v # "AFL_SKIP_BIN_CHECK" => skipped.modes = plain.modes

----------------------------------------------------------------------------
(* Cores *)

VARIABLES
    boundTo,             \* cpu_aff of each instance, or NoCore
    cpu_used,            \* what an instance has read under /proc
    scanned,             \* the processes whose status it has read
    metBy                \* history: instances whose scan was not over when another bound itself

setupVars == <<boundTo, cpu_used, scanned, metBy>>
NoCore == -1
Refuses == -2

SetupInit ==
    /\ boundTo = [p \in Instances |-> NoCore]
    /\ cpu_used = [p \in Instances |-> {}]
    /\ scanned = [p \in Instances |-> {}]
    /\ metBy = [p \in Instances |-> {}]

\* One entry of /proc: Cpus_allowed_list of a process that is bound to one core.
CoreSeen(p, q) == IF boundTo[q] \in Cores THEN {boundTo[q]} ELSE {}

\* Mutant: what was read of the processes before is forgotten.
ReadStatusForgets(p, q) ==
    /\ boundTo[p] = NoCore /\ q # p /\ q \notin scanned[p]
    /\ scanned' = [scanned EXCEPT ![p] = @ \cup {q}]
    /\ cpu_used' = [cpu_used EXCEPT ![p] = CoreSeen(p, q)]
    /\ UNCHANGED <<boundTo, metBy>>

ReadStatus(p, q) ==
    /\ boundTo[p] = NoCore /\ q # p /\ q \notin scanned[p]
    /\ scanned' = [scanned EXCEPT ![p] = @ \cup {q}]
    /\ cpu_used' = [cpu_used EXCEPT ![p] = @ \cup CoreSeen(p, q)]
    /\ UNCHANGED <<boundTo, metBy>>

\* The first core that no process it has read is bound to.
bind_to_free_cpu(p) ==
    LET free == Cores \ cpu_used[p]
    IN /\ boundTo[p] = NoCore /\ scanned[p] = Instances \ {p}
       /\ boundTo' = [boundTo EXCEPT ![p] =
              IF free = {} THEN Refuses ELSE CHOOSE c \in free : \A d \in free : c <= d]
       /\ metBy' = [q \in Instances |->
              IF boundTo[q] = NoCore /\ p \in scanned[q] THEN metBy[q] \cup {p} ELSE metBy[q]]
       /\ UNCHANGED <<cpu_used, scanned>>

\* A fuzzer that ends gives its core back; another may be started in its place.
Ends(p) ==
    /\ boundTo[p] \in Cores \cup {Refuses}
    /\ boundTo' = [boundTo EXCEPT ![p] = NoCore]
    /\ cpu_used' = [cpu_used EXCEPT ![p] = {}]
    /\ scanned' = [scanned EXCEPT ![p] = {}]
    /\ metBy' = [q \in Instances |-> IF q = p THEN {} ELSE metBy[q] \ {p}]

SetupNext ==
    \/ \E p, q \in Instances : ReadStatus(p, q)
    \/ \E p \in Instances : bind_to_free_cpu(p) \/ Ends(p)

SetupSpec == SetupInit /\ [][SetupNext]_setupVars

\* Two fuzzers share a core only if one bound itself while the other had
\* already passed its entry under /proc: the scan and the binding are not one
\* step, and nothing else lets two meet.
CoresNotShared ==
    \A p, q \in Instances :
        (p # q /\ boundTo[p] \in Cores /\ boundTo[p] = boundTo[q]) => (p \in metBy[q] \/ q \in metBy[p])
=============================================================================
