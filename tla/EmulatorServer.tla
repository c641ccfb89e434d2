--------------------------- MODULE EmulatorServer ---------------------------
(***************************************************************************)
(* The fork server that a patch puts into QEMU. A fork asks the server to  *)
(* translate the blocks that it had to translate itself, so that later     *)
(* forks find them in the cache; the server collects the requests until    *)
(* nobody holds the other end of the pipe, and waits for the fork then.    *)
(* A target may fork again: its children ask through the same pipe.        *)
(***************************************************************************)
EXTENDS Integers, Sequences, FiniteSets

CONSTANTS
    EmuBlocks,     \* blocks of the target
    PipeSize,      \* requests that the pipe holds
    MaxOrders      \* runs that afl-fuzz asks for (a bound)

VARIABLES
    emu,           \* where the fork server is
    cache,         \* its translation blocks
    own,           \* those of the fork and of a child of it
    emuAlive,      \* which of them run
    holders,       \* which of them have TSL_FD open
    tsl,           \* the pipe
    asked,         \* history: what this run has put into it
    orders         \* runs so far

emuVars == <<emu, cache, own, emuAlive, holders, tsl, asked, orders>>

Forks == {"fork", "grandchild"}

EmulatorInit ==
    /\ emu = "wait" /\ cache = {} /\ own = [p \in Forks |-> {}] /\ emuAlive = {} /\ holders = {}
    /\ tsl = <<>> /\ asked = {} /\ orders = 0

----------------------------------------------------------------------------
\* An order: a new pipe, of which only the fork keeps the end to write to. A
\* process that the last run has left behind has given up its own.
Order ==
    /\ emu = "wait" /\ orders < MaxOrders
    /\ orders' = orders + 1 /\ emu' = "collect" /\ tsl' = <<>> /\ asked' = {}
    /\ own' = [own EXCEPT !["fork"] = cache]
    /\ emuAlive' = emuAlive \cup {"fork"} /\ holders' = {"fork"}
    /\ UNCHANGED cache

\* afl_request_tsl: a block is translated before it runs for the first time.
\* Who has closed the descriptor asks in vain; who finds the pipe full waits.
Translate(p, b) ==
    /\ p \in emuAlive /\ b \notin own[p]
    /\ own' = [own EXCEPT ![p] = @ \cup {b}]
    /\ IF p \in holders THEN Len(tsl) < PipeSize /\ tsl' = Append(tsl, b) /\ asked' = asked \cup {b}
       ELSE UNCHANGED <<tsl, asked>>
    /\ UNCHANGED <<emu, cache, emuAlive, holders, orders>>

TargetForks ==
    /\ "fork" \in emuAlive /\ "grandchild" \notin emuAlive
    /\ emuAlive' = Forks /\ own' = [own EXCEPT !["grandchild"] = own["fork"]]
    /\ holders' = IF "fork" \in holders THEN Forks ELSE holders
    /\ UNCHANGED <<emu, cache, tsl, asked, orders>>

\* A server that goes into the background closes what it has inherited.
ClosesAll(p) ==
    /\ p \in holders /\ holders' = holders \ {p}
    /\ UNCHANGED <<emu, cache, own, emuAlive, tsl, asked, orders>>

\* It ends, or afl-fuzz kills the fork.
ForkEndsOrDies(p) ==
    /\ p \in emuAlive /\ emuAlive' = emuAlive \ {p} /\ holders' = holders \ {p}
    /\ UNCHANGED <<emu, cache, own, tsl, asked, orders>>

\* afl_wait_tsl: one request.
CollectRequest ==
    /\ emu = "collect" /\ tsl # <<>>
    /\ cache' = cache \cup {Head(tsl)} /\ tsl' = Tail(tsl)
    /\ UNCHANGED <<emu, own, emuAlive, holders, asked, orders>>

PipeBroken ==
    /\ emu = "collect" /\ tsl = <<>> /\ holders = {} /\ emu' = "waitpid"
    /\ UNCHANGED <<cache, own, emuAlive, holders, tsl, asked, orders>>

\* waitpid(), and the status is relayed.
StatusRelayed ==
    /\ emu = "waitpid" /\ "fork" \notin emuAlive /\ emu' = "wait"
    /\ UNCHANGED <<cache, own, emuAlive, holders, tsl, asked, orders>>

EmulatorNext ==
    \/ Order \/ TargetForks \/ CollectRequest \/ PipeBroken \/ StatusRelayed
    \/ \E p \in Forks : ClosesAll(p) \/ ForkEndsOrDies(p) \/ \E b \in EmuBlocks : Translate(p, b)

EmulatorSpec == EmulatorInit /\ [][EmulatorNext]_emuVars

----------------------------------------------------------------------------
\* When the server answers, every block that a process of this run has asked
\* for is in its cache and nothing is left in the pipe; what a process that
\* can still ask has translated is in the cache or on its way there, so that
\* no later fork translates it a second time.
CacheMirrors ==
    /\ emu \in {"wait", "waitpid"} => tsl = <<>> /\ asked \subseteq cache
    /\ \A p \in holders : own[p] \subseteq cache \cup {tsl[i] : i \in DOMAIN tsl}
=============================================================================
