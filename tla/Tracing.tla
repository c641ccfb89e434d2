------------------------------ MODULE Tracing ------------------------------
(***************************************************************************)
(* The code that afl-as and the LLVM pass put into a program: how a        *)
(* process finds the map that afl-fuzz shares with it, becomes the fork    *)
(* server, and counts the branches that it and its forks take.             *)
(*                                                                         *)
(* A 64-bit object file has its own pointer to the map, previous location  *)
(* and mark of a failed setup (.lcomm); one global pointer is shared by    *)
(* all objects. In a 32-bit program, and with LLVM, all of it is common.   *)
(***************************************************************************)
EXTENDS Integers, Sequences, FiniteSets

CONSTANTS
    Objects,      \* object files of the program
    Located,      \* its blocks: [obj, loc]
    MapSize,      \* MAP_SIZE
    CountMod,     \* a cell of the map is this wide
    Cell(_, _),   \* of the branch from a previous location to the next, see MapCells
    Shifted(_),   \* a location as the next block finds it
    MaxBlocks,    \* blocks that a process runs (a bound)
    MaxForks      \* runs that are asked for (a bound)

ASSUME TracingAssumption ==
    /\ Located # {} /\ \A b \in Located : b.obj \in Objects
    /\ IsFiniteSet(Objects)
    /\ MapSize \in Nat /\ CountMod \in Nat /\ CountMod > 1
    /\ MaxBlocks \in Nat /\ MaxForks \in Nat
    /\ \A b \in Located : \A prev \in {0} \cup {Shifted(p.loc) : p \in Located} :
          Cell(prev, b.loc) \in 0..(MapSize - 1)

VARIABLES
    build,        \* how it was built and started, see Builds
    proc,         \* "runs", or "serves" while the fork server waits
    tsArea,       \* the map is known, for each scope
    globalArea,   \* __afl_global_area_ptr is set
    setupFailed,  \* __afl_setup_failure, for each scope
    prevLoc,      \* __afl_prev_loc, for each scope
    trace,        \* the map
    fds,          \* the pipes to afl-fuzz are open in this process
    forkPoint,    \* what a fork resumes with
    walk,         \* the blocks that the process has run
    getenvs, servers, forks

tracingVars == <<build, proc, tsArea, globalArea, setupFailed, prevLoc, trace, fds, forkPoint, walk,
                 getenvs, servers, forks>>

Kinds == {"as32", "as64", "llvm"}
Scopes(kind) == IF kind = "as64" THEN Objects ELSE {"common"}
ScopeOf(kind, b) == IF kind = "as64" THEN b.obj ELSE "common"
NoFork == [block |-> "none"]
Silence == [c \in 0..(MapSize - 1) |-> 0]

\* Every block has its chance of being instrumented: AFL_R(100) >= inst_ratio
\* never holds for a ratio of 100.
runOnModule(ratio) == IF ratio = 100 THEN {Located} ELSE SUBSET Located

Builds ==
    {[kind |-> k, sites |-> s, shm |-> m] :
        k \in Kinds, s \in UNION {runOnModule(r) : r \in {50, 100}}, m \in {"unset", "attached", "broken"}}

\* With LLVM, a constructor has attached the map before the first block runs
\* (or there is an initial one), and the process is a fork of the server.
TracingInit(b, listening) ==
    /\ build = b
    /\ proc = "runs"
    /\ tsArea = [s \in Scopes(b.kind) |-> b.kind = "llvm"]
    /\ setupFailed = [s \in Scopes(b.kind) |-> FALSE]
    /\ prevLoc = [s \in Scopes(b.kind) |-> 0]
    /\ globalArea = FALSE /\ trace = Silence /\ fds = listening /\ forkPoint = NoFork
    /\ walk = <<>> /\ getenvs = 0 /\ servers = 0 /\ forks = 0

----------------------------------------------------------------------------
\* __afl_store.
Stored(b) ==
    LET s == ScopeOf(build.kind, b)
        c == Cell(prevLoc[s], b.loc)
    IN /\ trace' = IF build.kind = "llvm" /\ build.shm # "attached" THEN trace
                   ELSE [trace EXCEPT ![c] = (@ + 1) % CountMod]
       /\ prevLoc' = [prevLoc EXCEPT ![s] = Shifted(b.loc)]

\* A trampoline calls __afl_maybe_log for block b.
Runs(b) ==
    /\ proc = "runs" /\ Len(walk) < MaxBlocks /\ b \in build.sites
    /\ build.kind = "llvm" => build.shm # "broken"      \* the constructor has ended the process
    /\ walk' = Append(walk, b) /\ UNCHANGED <<build, forks>>

Logged(b) ==
    /\ Runs(b) /\ tsArea[ScopeOf(build.kind, b)]
    /\ Stored(b)
    /\ UNCHANGED <<proc, tsArea, globalArea, setupFailed, fds, forkPoint, getenvs, servers>>

\* Setup has failed before and is not tried again.
Unlogged(b) ==
    LET s == ScopeOf(build.kind, b)
    IN /\ Runs(b) /\ ~tsArea[s] /\ setupFailed[s]
       /\ UNCHANGED <<proc, tsArea, globalArea, setupFailed, prevLoc, trace, fds, forkPoint, getenvs, servers>>

\* Another object has found the map.
Adopted(b) ==
    LET s == ScopeOf(build.kind, b)
    IN /\ Runs(b) /\ ~tsArea[s] /\ ~setupFailed[s] /\ globalArea
       /\ tsArea' = [tsArea EXCEPT ![s] = TRUE]
       /\ Stored(b)
       /\ UNCHANGED <<proc, globalArea, setupFailed, fds, forkPoint, getenvs, servers>>

SetupFirst(b) ==
    LET s == ScopeOf(build.kind, b)
    IN Runs(b) /\ ~tsArea[s] /\ ~setupFailed[s] /\ ~globalArea /\ getenvs' = getenvs + 1

\* __afl_setup_abort: the variable is not there, or shmat() fails.
SetupAborts(b) ==
    /\ SetupFirst(b) /\ build.shm # "attached"
    /\ setupFailed' = [setupFailed EXCEPT ![ScopeOf(build.kind, b)] = TRUE]
    /\ UNCHANGED <<proc, tsArea, globalArea, prevLoc, trace, fds, forkPoint, servers>>

\* The map is attached. If afl-fuzz does not read from the pipe, the process
\* goes on without a fork server, the descriptors closed.
SetupResumes(b) ==
    /\ SetupFirst(b) /\ build.shm = "attached" /\ ~fds
    /\ tsArea' = [tsArea EXCEPT ![ScopeOf(build.kind, b)] = TRUE]
    /\ globalArea' = (build.kind = "as64")
    /\ Stored(b)
    /\ UNCHANGED <<proc, setupFailed, fds, forkPoint, servers>>

\* __afl_forkserver: the process stays before the block and waits for orders.
ForkServerUp(b) ==
    /\ SetupFirst(b) /\ build.shm = "attached" /\ fds
    /\ tsArea' = [tsArea EXCEPT ![ScopeOf(build.kind, b)] = TRUE]
    /\ globalArea' = (build.kind = "as64")
    /\ proc' = "serves" /\ servers' = servers + 1
    /\ forkPoint' = [block |-> b, area |-> tsArea', prev |-> prevLoc]
    /\ UNCHANGED <<setupFailed, prevLoc, trace, fds>>

\* __afl_fork_wait_loop, __afl_fork_resume: afl-fuzz has cleared the map; the
\* fork closes the descriptors and resumes with the block.
ForkResumes ==
    /\ proc = "serves" /\ forks < MaxForks
    /\ forks' = forks + 1 /\ proc' = "runs" /\ fds' = FALSE
    /\ LET b == forkPoint.block
           s == ScopeOf(build.kind, b)
       IN /\ tsArea' = forkPoint.area
          /\ prevLoc' = [forkPoint.prev EXCEPT ![s] = Shifted(b.loc)]
          /\ trace' = [Silence EXCEPT ![Cell(forkPoint.prev[s], b.loc)] = 1]
          /\ walk' = <<b>>
    /\ UNCHANGED <<build, globalArea, setupFailed, forkPoint, getenvs, servers>>

\* The fork ends, and what its server had before is what there is again.
ForkEnds ==
    /\ proc = "runs" /\ forkPoint # NoFork
    /\ proc' = "serves" /\ fds' = TRUE
    /\ tsArea' = forkPoint.area /\ prevLoc' = forkPoint.prev
    /\ UNCHANGED <<build, globalArea, setupFailed, trace, forkPoint, walk, getenvs, servers, forks>>

TracingNext ==
    \/ \E b \in Located :
          Logged(b) \/ Unlogged(b) \/ Adopted(b) \/ SetupAborts(b) \/ SetupResumes(b) \/ ForkServerUp(b)
    \/ ForkResumes \/ ForkEnds

TracingSpec == (\E b \in Builds, l \in BOOLEAN : TracingInit(b, l)) /\ [][TracingNext]_tracingVars

----------------------------------------------------------------------------
\* The cells that a walk visits: the branches within each scope.
Latest(positions) == CHOOSE j \in positions : \A l \in positions : l <= j
Within(w, scope) == {j \in DOMAIN w : ScopeOf(build.kind, w[j]) = scope}
PrevAfter(w, scope) ==
    IF Within(w, scope) = {} THEN 0 ELSE Shifted(w[Latest(Within(w, scope))].loc)
CellAt(w, i) == Cell(PrevAfter(SubSeq(w, 1, i - 1), ScopeOf(build.kind, w[i])), w[i].loc)
Expected(w) == [c \in 0..(MapSize - 1) |-> Cardinality({i \in DOMAIN w : CellAt(w, i) = c}) % CountMod]

\* The map holds the branches of the last run and of no other: from the block
\* at which the server was entered on, whichever objects they are in. A program
\* is one fork server at most, none of its forks is one, and it asks for the
\* map once, or once for each object that never gets it.
TracesFaithful ==
    /\ trace = IF build.shm = "attached" /\ (proc = "runs" \/ forks > 0) THEN Expected(walk) ELSE Silence
    /\ servers <= 1 /\ (forks > 0 => servers = 1)
    /\ getenvs <= IF build.shm = "attached" THEN 1 ELSE Cardinality(Scopes(build.kind))
=============================================================================
