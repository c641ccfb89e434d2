------------------------------ MODULE MapCells ------------------------------
(***************************************************************************)
(* Which cell of the map a branch is counted in, for compiled programs and *)
(* for emulated ones. What does not depend on the bits of it is in Tracing *)
(* and in EmulatorServer.                                                  *)
(***************************************************************************)
EXTENDS Integers, Sequences, Bitwise

CONSTANT EmuMapSize    \* MAP_SIZE

\* The cell of the branch to a location (__afl_store), and how a location is
\* remembered for the next branch.
BranchCell(prev, loc) == prev ^^ loc
Previous(loc) == shiftR(loc, 1)

----------------------------------------------------------------------------
(* The map of an emulated run *)

\* afl_setup: AFL_INST_RATIO is brought into range; with it, the map is
\* touched at once; AFL_INST_LIBS opens the whole address space.
NoRatio == -1
Ratio(given) == IF given > 100 THEN 100 ELSE IF given = 0 THEN 1 ELSE given
afl_setup(given, libs, text, most) ==
    [limit |-> IF given = NoRatio THEN EmuMapSize ELSE (EmuMapSize * Ratio(given)) \div 100,
     touched |-> given # NoRatio, from |-> IF libs THEN 0 ELSE text.from, to |-> IF libs THEN most ELSE text.to]

Mangled(pc) == (shiftR(pc, 4) ^^ (pc * 256)) % EmuMapSize
IsLogged(setup, pc) == pc \in setup.from..setup.to /\ Mangled(pc) < setup.limit

\* afl_maybe_log for one block after the other: the previous location and the map.
afl_maybe_log(setup, walk) ==
    LET after[i \in 0..Len(walk)] ==
            IF i = 0 THEN [prev |-> 0, map |-> [c \in 0..(EmuMapSize - 1) |-> IF c = 0 /\ setup.touched THEN 1 ELSE 0]]
            ELSE LET was == after[i - 1]
                     loc == Mangled(walk[i])
                 IN IF ~IsLogged(setup, walk[i]) THEN was
                    ELSE [prev |-> Previous(loc), map |-> [was.map EXCEPT ![BranchCell(was.prev, loc)] = @ + 1]]
    IN after[Len(walk)].map

----------------------------------------------------------------------------
\* A block that is left out leaves the branches between the others as they
\* would be without it; the map is never empty if there is a ratio.
LeavesOutCleanly(given, libs, text, most, walk) ==
    LET setup == afl_setup(given, libs, text, most)
        map == afl_maybe_log(setup, walk)
        Kept(pc) == IsLogged(setup, pc)
    IN /\ map = afl_maybe_log(setup, SelectSeq(walk, Kept))
       /\ given # NoRatio => \E c \in DOMAIN map : map[c] > 0
       /\ given = NoRatio /\ libs => SelectSeq(walk, Kept) = walk

\* A branch and the one back differ, and so do the loops of one block: why
\* the previous location is shifted.
BranchesTold(size) ==
    \A a, b \in 0..(size - 1) :
        a # b => /\ BranchCell(Previous(a), b) # BranchCell(Previous(b), a)
                 /\ BranchCell(Previous(a), a) # BranchCell(Previous(b), b)
==============================================================================
