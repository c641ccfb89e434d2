---------------------------- MODULE TrackedHeap ----------------------------
(***************************************************************************)
(* alloc-inl.h in a debug build: the ck_ functions that the fuzzer and its *)
(* tools allocate with.  A block has a head word, its size and a tail byte *)
(* that show use after free and writes past the end; TRK lists the blocks  *)
(* in use, by bucket, for the report of leaks.                             *)
(*                                                                         *)
(* Not modelled: contents of blocks, where each was allocated, the memory  *)
(* that TRK itself takes; ck_memdup_str, which nothing calls.              *)
(***************************************************************************)
EXTENDS Naturals, Sequences, FiniteSets

CONSTANTS
    Pointers,            \* addresses malloc may return; one may come again after free
    Bucket(_),           \* TRKH
    Sizes, MaxAlloc      \* the sizes asked for; MAX_ALLOC

VARIABLES
    heap,                \* what the head of the block at each address says
    TRK,                 \* slots of each bucket
    heapState            \* "running", or how the program was stopped

heapVars == <<heap, TRK, heapState>>

Null == "NULL"
ASSUME HeapAssumption == Null \notin Pointers /\ Sizes \subseteq Nat /\ MaxAlloc \in Nat
NoBlock == [head |-> "none", size |-> 0]

HeapInit ==
    /\ heap = [p \in Pointers |-> NoBlock]
    /\ TRK = [b \in {Bucket(p) : p \in Pointers} |-> <<>>]
    /\ heapState = "running"

Used == {p \in Pointers : heap[p].head = "C1"}
Slots(trk) == UNION {{<<b, i>> : i \in DOMAIN trk[b]} : b \in DOMAIN trk}
First(S) == CHOOSE i \in S : \A j \in S : i <= j

\* The first empty slot of the bucket, or a new one.
TRK_alloc_buf(trk, p) ==
    LET slots == trk[Bucket(p)]
        empty == {i \in DOMAIN slots : slots[i] = Null}
    IN IF p = Null THEN trk
       ELSE [trk EXCEPT ![Bucket(p)] = IF empty = {} THEN Append(slots, p) ELSE [slots EXCEPT ![First(empty)] = p]]

\* Mutant: only the last slot of the bucket is looked at.
TRK_free_last(trk, p) ==
    IF p = Null THEN trk
    ELSE LET slots == trk[Bucket(p)]
         IN IF slots # <<>> /\ slots[Len(slots)] = p THEN [trk EXCEPT ![Bucket(p)][Len(slots)] = Null] ELSE trk

TRK_free_buf(trk, p) ==
    IF p = Null THEN trk
    ELSE LET slots == trk[Bucket(p)]
             holds == {i \in DOMAIN slots : slots[i] = p}
         IN IF holds = {} THEN trk ELSE [trk EXCEPT ![Bucket(p)][First(holds)] = Null]

Stop(why) == heapState' = why /\ UNCHANGED <<heap, TRK>>
Allocated(h, p, size) == [h EXCEPT ![p] = [head |-> "C1", size |-> size]]
Freed(h, p) == [h EXCEPT ![p].head = "F"]
CHECK_PTR(p) == p = Null \/ heap[p].head = "C1"

\* ck_alloc, ck_alloc_nozero, ck_strdup, ck_memdup: p is what malloc returns.
ck_alloc(size, p) ==
    /\ heapState = "running"
    /\ CASE size = 0 -> p = Null /\ UNCHANGED heapVars
         [] size > MaxAlloc -> Stop("bad alloc request")
         [] OTHER -> /\ p \in Pointers \ Used
                     /\ heap' = Allocated(heap, p, size)
                     /\ TRK' = TRK_alloc_buf(TRK, p)
                     /\ UNCHANGED heapState

\* A block is always moved in a debug build; growing it by steps
\* (ck_realloc_block) is the same there.
ck_realloc(orig, size, p) ==
    /\ heapState = "running"
    /\ CASE ~ CHECK_PTR(orig) -> Stop("use after free")
         [] CHECK_PTR(orig) /\ size = 0 ->
                /\ p = Null
                /\ heap' = IF orig = Null THEN heap ELSE Freed(heap, orig)
                /\ TRK' = TRK_free_buf(TRK, orig)
                /\ UNCHANGED heapState
         [] CHECK_PTR(orig) /\ size > MaxAlloc -> Stop("bad alloc request")
         [] OTHER ->
                /\ p \in Pointers \ Used
                /\ heap' = Allocated(IF orig = Null THEN heap ELSE Freed(heap, orig), p, size)
                /\ TRK' = TRK_alloc_buf(TRK_free_buf(TRK, orig), p)
                /\ UNCHANGED heapState

ck_free(p) ==
    /\ heapState = "running"
    /\ IF CHECK_PTR(p)
       THEN /\ TRK' = TRK_free_buf(TRK, p)
            /\ heap' = IF p = Null THEN heap ELSE Freed(heap, p)
            /\ UNCHANGED heapState
       ELSE heapState' = "use after free" /\ TRK' = TRK_free_buf(TRK, p) /\ UNCHANGED heap

\* A pointer that the program holds: NULL, or one it was given.
Held == {Null} \cup {p \in Pointers : heap[p].head # "none"}

HeapNext ==
    \/ \E size \in Sizes, p \in Pointers \cup {Null} : ck_alloc(size, p)
    \/ \E orig \in Held, size \in Sizes, p \in Pointers \cup {Null} : ck_realloc(orig, size, p)
    \/ \E p \in Held : ck_free(p)

HeapSpec == HeapInit /\ [][HeapNext]_heapVars

\* While the program runs, the report of leaks names every block in use exactly
\* once and no other, across slots and addresses that are used again.
ReportExact ==
    /\ {TRK[s[1]][s[2]] : s \in Slots(TRK)} \ {Null} = Used
    /\ \A s, t \in Slots(TRK) : TRK[s[1]][s[2]] # Null /\ TRK[s[1]][s[2]] = TRK[t[1]][t[2]] => s = t
=============================================================================
