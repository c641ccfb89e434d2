------------------------------ MODULE Messages ------------------------------
(***************************************************************************)
(* The list of messages that a seed is sent as (klist.h, aflnet.c), and    *)
(* how common_fuzz_stuff puts the messages of a mutated buffer, the new    *)
(* M2, in the place of the old between the prefix M1 and the suffix M3.    *)
(*                                                                         *)
(* A node has a value and a next node; the tail is a node without a value. *)
(* Nodes that are given back are kept in a pool and taken again, last      *)
(* first, with what they hold.                                             *)
(***************************************************************************)
EXTENDS Integers, SequencesExt

CONSTANTS
    NodeCount,       \* bound: nodes of all lists, see MessagesAssumption
    MaxMessages,     \* the longest seed, and the longest mutated buffer
    MaxSeedRegions   \* max_seed_region_count

\* A spliced list, what is pushed to its end, and a tail; malloc() has no bound.
ASSUME MessagesAssumption ==
    /\ MaxMessages \in Nat \ {0} /\ MaxSeedRegions \in Nat
    /\ NodeCount \in Nat /\ NodeCount >= 3 * MaxMessages

VARIABLES
    list,            \* [head, tail, size, next, val, pool] or NoList
    m2Prev, m2Next,  \* M2_prev (or NoNode) and M2_next
    m1, m2, m3       \* what the three parts should hold

messagesVars == <<list, m2Prev, m2Next, m1, m2, m3>>

Nodes == 1..NodeCount
NoNode == 0
NoList == [pool |-> [i \in Nodes |-> NodeCount + 1 - i]]

\* kl_init takes a node for the tail; the pool's last is taken first.
EmptyList ==
    [head |-> 1, tail |-> 1, size |-> 0, next |-> [n \in Nodes |-> NoNode],
     val |-> [n \in Nodes |-> NoNode], pool |-> [i \in 1..(NodeCount - 1) |-> NodeCount + 1 - i]]

\* kl_pushp: the tail takes the value, a new tail follows.
kl_pushp(l, v) ==
    LET p == Last(l.pool)
    IN [head |-> l.head, tail |-> p, size |-> l.size + 1, pool |-> Front(l.pool),
        next |-> [l.next EXCEPT ![l.tail] = p, ![p] = NoNode], val |-> [l.val EXCEPT ![l.tail] = v]]

kmp_free(pool, n) == Append(pool, n)

\* The nodes from a up to, not including, b; at most all of them.
Chain(l, a, b) ==
    LET walk[i \in 0..NodeCount] ==
            IF i = 0 THEN <<a>>
            ELSE LET w == walk[i - 1]
                 IN IF Last(w) \in {b, NoNode} THEN w ELSE Append(w, l.next[Last(w)])
        all == walk[NodeCount]
    IN IF Last(all) = b THEN Front(all) ELSE all

Contents(l) == LET c == Chain(l, l.head, l.tail) IN [i \in DOMAIN c |-> l.val[c[i]]]

get_last_message(l) == Last(Chain(l, l.head, l.tail))

construct_kl_messages(msgs) ==
    LET pushed[i \in 0..Len(msgs)] ==
            IF i = 0 THEN EmptyList ELSE kl_pushp(pushed[i - 1], msgs[i])
    IN pushed[Len(msgs)]

\* kl_shift frees the head.
kl_shift(l) == [l EXCEPT !.head = l.next[@], !.size = @ - 1, !.pool = kmp_free(@, l.head)]

\* Until the list is empty; its tail goes with it.
delete_kl_messages(l) ==
    LET rest[i \in 0..NodeCount] ==
            IF i = 0 THEN l
            ELSE LET k == rest[i - 1] IN IF k.next[k.head] = NoNode THEN k ELSE kl_shift(k)
    IN [pool |-> Append(rest[NodeCount].pool, rest[NodeCount].tail)]

\* A message is as many bytes as its value says.
Bytes(v) == [i \in 1..v |-> v]

\* The file of a seed, of at most max_count messages.
save_kl_messages_to_file(l, max_count) ==
    LET c == Contents(l)
        sent == [i \in {j \in DOMAIN c : j <= max_count} |-> c[i]]
    IN FoldLeft(LAMBDA file, v : file \o Bytes(v), <<>>, sent)

\* Where the messages start and end in it, to the last byte.
\* Mutant: a message starts at the last byte of the one before.
RegionsOverlapping(l, max_count) ==
    FoldLeft(LAMBDA regions, v :
                LET start == IF regions = <<>> THEN 0 ELSE Last(regions).end
                IN IF Len(regions) = max_count THEN regions
                   ELSE Append(regions, [start |-> start, end |-> start + v - 1]),
             <<>>, Contents(l))
convert_kl_messages_to_regions(l, max_count) ==
    FoldLeft(LAMBDA regions, v :
                LET start == IF regions = <<>> THEN 0 ELSE Last(regions).end + 1
                IN IF Len(regions) = max_count THEN regions
                   ELSE Append(regions, [start |-> start, end |-> start + v - 1]),
             <<>>, Contents(l))

----------------------------------------------------------------------------
(* Splicing *)

\* All the messages that are too many for a seed become one, the last.
Limited(msgs) ==
    IF Len(msgs) <= MaxSeedRegions THEN msgs
    ELSE Append(SubSeq(msgs, 1, MaxSeedRegions), Last(msgs))

\* M2_next follows the tail, when it is the tail.
\* Mutant: it stays at the node that was the tail.
PushedBeforeStale(r, v) == [r EXCEPT !.list = kl_pushp(@, v)]
PushedBefore(r, v) ==
    LET l == kl_pushp(r.list, v)
    IN [list |-> l, m2Next |-> IF l.next[r.m2Next] = l.tail THEN l.tail ELSE r.m2Next]

PushedAll(l0, next0, msgs) ==
    LET pushed[i \in 0..Len(msgs)] ==
            IF i = 0 THEN [list |-> l0, m2Next |-> next0] ELSE PushedBefore(pushed[i - 1], msgs[i])
    IN pushed[Len(msgs)]

\* The new messages are pushed, moved before M2_next, and the old M2 is freed,
\* node by node (kmp_free).
Spliced(l0, prev, next0, msgs) ==
    LET lastOld == get_last_message(l0)
        r == PushedAll(l0, next0, msgs)
        l == r.list
        first == l.next[lastOld]
        lastNew == get_last_message(l)
        oldStart == IF prev = NoNode THEN l.head ELSE l.next[prev]
        next == [n \in Nodes |->
                    IF n = lastOld THEN l.tail ELSE IF n = lastNew THEN r.m2Next
                    ELSE IF n = prev THEN first ELSE l.next[n]]
        linked == [l EXCEPT !.head = IF prev = NoNode THEN first ELSE @, !.next = next]
        old == Chain(linked, oldStart, r.m2Next)
    IN [list |-> [linked EXCEPT !.pool = @ \o old, !.size = @ - Len(old)],
        m2Next |-> r.m2Next]

----------------------------------------------------------------------------

MessagesInit ==
    /\ list = NoList /\ m2Prev = NoNode /\ m2Next = NoNode
    /\ m1 = <<>> /\ m2 = <<>> /\ m3 = <<>>

\* Messages of a seed and of a mutated buffer; a value is a size too.
SeedMessages == {[i \in 1..k |-> i] : k \in 1..MaxMessages}
MutatedMessages == {[i \in 1..k |-> MaxMessages + i] : k \in 1..MaxMessages}

\* fuzz_one: the list of the seed, and M2 of count messages from start on.
OpenSeed ==
    /\ list = NoList
    /\ \E msgs \in SeedMessages : \E start \in 0..(Len(msgs) - 1) :
       \E count \in 1..(Len(msgs) - start) :
          LET l == construct_kl_messages(msgs)
              nodes == Append(Chain(l, l.head, l.tail), l.tail)
          IN /\ list' = l
             /\ m2Prev' = IF start = 0 THEN NoNode ELSE nodes[start]
             /\ m2Next' = nodes[start + count + 1]
             /\ m1' = SubSeq(msgs, 1, start)
             /\ m2' = SubSeq(msgs, start + 1, start + count)
             /\ m3' = SubSeq(msgs, start + count + 1, Len(msgs))

\* The head of common_fuzz_stuff, with the messages of the mutated buffer.
MutateM2 ==
    /\ list # NoList
    /\ \E msgs \in MutatedMessages :
          LET r == Spliced(list, m2Prev, m2Next, Limited(msgs))
          IN /\ list' = r.list /\ m2Next' = r.m2Next
             /\ m2' = Limited(msgs)
    /\ UNCHANGED <<m2Prev, m1, m3>>

CloseSeed ==
    /\ list # NoList
    /\ list' = NoList
    /\ m2Prev' = NoNode /\ m2Next' = NoNode /\ m1' = <<>> /\ m2' = <<>> /\ m3' = <<>>

MessagesNext == OpenSeed \/ MutateM2 \/ CloseSeed
MessagesSpec == MessagesInit /\ [][MessagesNext]_messagesVars

----------------------------------------------------------------------------

\* However often a seed is mutated, what is sent is its prefix, the mutated
\* part and its suffix, the size is right, and deleting the list gives back
\* every node, none of them twice.
SplicesKeepContext ==
    list # NoList =>
        /\ Contents(list) = m1 \o m2 \o m3
        /\ list.size = Len(Contents(list))
        /\ LET pool == delete_kl_messages(list).pool
           IN ToSet(pool) = Nodes /\ Len(pool) = NodeCount

\* The regions of a new seed, of as many messages as were sent, cut its file
\* into these messages.
RegionsCutFile ==
    list # NoList =>
        \A sent \in 1..(Len(Contents(list)) + 1) :
            LET regions == convert_kl_messages_to_regions(list, sent)
                file == save_kl_messages_to_file(list, sent)
                cut == [i \in DOMAIN regions |-> SubSeq(file, regions[i].start + 1, regions[i].end + 1)]
            IN FlattenSeq(cut) = file /\ \A i \in DOMAIN cut : cut[i] = Bytes((m1 \o m2 \o m3)[i])
=============================================================================
