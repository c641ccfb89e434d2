----------------------------- MODULE HashTable -----------------------------
(* khash.h: the open-addressing hash table behind the sets and maps of AFLNet *)
(* and ChatAFL (paths of the state machine, states, message types, tables of  *)
(* the grammars).  Buckets are probed at triangular distances; a deleted      *)
(* bucket keeps its key and is passed by; resizing rehashes in place.         *)
(*                                                                            *)
(* Not modelled: a failed allocation (kh_resize returns -1), which the        *)
(* callers ignore.  Key and value of a bucket always move together: one value *)
(* stands for both.                                                           *)
EXTENDS Integers, FiniteSets

CONSTANTS
    Keys,
    Hash(_),          \* __hash_func
    MaxBuckets        \* bound: the table is not grown past it

VARIABLES
    table,            \* [n, size, occupied, upper, flags, keys]
    content           \* history: the keys the callers think it has

tableVars == <<table, content>>

Junk == "junk"        \* keys[] is not initialised
Least(S) == CHOOSE x \in S : \A y \in S : x <= y

Empty(n) == [i \in 0..(n - 1) |-> "empty"]

\* The bucket of the step-th probe.
Probe(k, n, step) == (Hash(k) + (step * (step + 1)) \div 2) % n

\* The probes come back to where they began only after 2n - 1 steps.
Rounds(n) == 0..(2 * n - 2)
UpperBound(n) == (n * 77 + 50) \div 100

kh_init == [n |-> 0, size |-> 0, occupied |-> 0, upper |-> 0,
            flags |-> Empty(0), keys |-> [i \in {} |-> Junk]]

kh_clear(h) == [h EXCEPT !.flags = Empty(h.n), !.size = 0, !.occupied = 0]

(* Where a search for k stops: at an empty bucket or at k itself. *)
Stops(h, k) ==
    {s \in Rounds(h.n) : LET i == Probe(k, h.n, s)
                         IN  h.flags[i] = "empty" \/ (h.flags[i] = "used" /\ h.keys[i] = k)}

\* kh_get; kh_end (the number of buckets) when the key is not there.
kh_get(h, k) ==
    IF h.n = 0 \/ Stops(h, k) = {} THEN h.n
    ELSE LET i == Probe(k, h.n, Least(Stops(h, k)))
         IN  IF h.flags[i] = "used" THEN i ELSE h.n

-----------------------------------------------------------------------------
(* kh_resize *)

RECURSIVE RoundUp(_, _)
RoundUp(n, p) == IF p >= n THEN p ELSE RoundUp(n, 2 * p)

\* The bucket of k in the new table of n buckets.
FreeFor(k, n, flags) == Probe(k, n, Least({s \in Rounds(n) : flags[Probe(k, n, s)] = "empty"}))

\* The kick-out process for key k: [old, new, keys]; an element of the old table that is in the
\* way is replaced and moved in its turn.
RECURSIVE KickOut(_, _, _, _)
KickOut(w, k, n, n0) ==
    LET i == FreeFor(k, n, w.new)
        placed == [w EXCEPT !.new[i] = "used", !.keys[i] = k]
    IN  IF i < n0 /\ w.old[i] = "used"
        THEN KickOut([placed EXCEPT !.old[i] = "deleted"], w.keys[i], n, n0)
        ELSE placed

RECURSIVE Rehash(_, _, _, _)
Rehash(w, j, n, n0) ==
    IF j = n0 THEN w
    ELSE IF w.old[j] # "used" THEN Rehash(w, j + 1, n, n0)
    ELSE Rehash(KickOut([w EXCEPT !.old[j] = "deleted"], w.keys[j], n, n0), j + 1, n, n0)

kh_resize(h, wanted) ==
    LET n == RoundUp(wanted, 4)
        keys == [i \in 0..((IF n > h.n THEN n ELSE h.n) - 1) |-> IF i < h.n THEN h.keys[i] ELSE Junk]
        w == Rehash([old |-> h.flags, new |-> Empty(n), keys |-> keys], 0, n, h.n)
    IN  IF h.size >= UpperBound(n) THEN h
        ELSE [n |-> n, size |-> h.size, occupied |-> h.size, upper |-> UpperBound(n),
              flags |-> w.new, keys |-> [i \in 0..(n - 1) |-> w.keys[i]]]

-----------------------------------------------------------------------------
(* kh_put and kh_del *)

Grown(h) ==
    IF h.occupied < h.upper THEN h
    ELSE IF h.n > 2 * h.size THEN kh_resize(h, h.n - 1) ELSE kh_resize(h, h.n + 1)

\* The bucket that gets k: k's own, else the last deleted one on the way to an empty one.
SiteFor(h, k) ==
    LET stop == IF Stops(h, k) = {} THEN 2 * h.n - 1 ELSE Least(Stops(h, k))
        deleted == {s \in 0..(stop - 1) : h.flags[Probe(k, h.n, s)] = "deleted"}
        last == CHOOSE s \in deleted : \A t \in deleted : t <= s
    IN  IF Stops(h, k) # {} /\ (h.flags[Probe(k, h.n, stop)] = "used" \/ deleted = {})
        THEN Probe(k, h.n, stop)
        ELSE Probe(k, h.n, last)

\* [table, bucket, ret]: ret is 0 for a key that is present, else 1 or 2.
kh_put(h0, k) ==
    LET h == Grown(h0)
        x == SiteFor(h, k)
        stored == [h EXCEPT !.keys[x] = k, !.flags[x] = "used", !.size = @ + 1]
    IN  CASE h.flags[x] = "used"    -> [table |-> h, bucket |-> x, ret |-> 0]
          [] h.flags[x] = "deleted" -> [table |-> stored, bucket |-> x, ret |-> 2]
          [] h.flags[x] = "empty"   -> [table |-> [stored EXCEPT !.occupied = @ + 1],
                                        bucket |-> x, ret |-> 1]

kh_del(h, x) ==
    IF x # h.n /\ h.flags[x] = "used" THEN [h EXCEPT !.flags[x] = "deleted", !.size = @ - 1]
    ELSE h

-----------------------------------------------------------------------------
(* What the callers do *)

TableInit == table = kh_init /\ content = {}

Put(k) ==
    /\ Grown(table).n <= MaxBuckets
    /\ table' = kh_put(table, k).table
    /\ content' = content \cup {k}

\* kh_get, then kh_del of what it returned.
Delete(k) == table' = kh_del(table, kh_get(table, k)) /\ content' = content \ {k}

Clear == table.n > 0 /\ table' = kh_clear(table) /\ content' = {}

TableNext == Clear \/ \E k \in Keys : Put(k) \/ Delete(k)
TableSpec == TableInit /\ [][TableNext]_tableVars

-----------------------------------------------------------------------------
(* The table is a set: whatever was put, deleted and moved by rehashing, kh_get finds exactly the *)
(* keys that are in it, each in one bucket, kh_size is their number, a put tells a new key from   *)
(* an old one, and a probe always has an empty bucket to end at. *)
LookupsTruthful ==
    /\ \A k \in Keys : LET x == kh_get(table, k)
                       IN  IF k \in content THEN x < table.n /\ table.keys[x] = k ELSE x = table.n
    /\ {table.keys[i] : i \in {j \in DOMAIN table.flags : table.flags[j] = "used"}} = content
    /\ table.size = Cardinality(content)
    /\ \A k \in Keys : (kh_put(table, k).ret = 0) <=> (k \in content)
    /\ table.n > 0 => \E i \in DOMAIN table.flags : table.flags[i] = "empty"
=============================================================================
