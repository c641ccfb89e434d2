------------------------------ MODULE Preload ------------------------------
(***************************************************************************)
(* The libraries that a target is started with: libdislocator, whose heap  *)
(* puts every block against a page that cannot be touched, and libtokencap, *)
(* which writes down the constants that a target compares its input with.  *)
(*                                                                         *)
(* total_mem is counted per thread, modulo 2^w as size_t is; a block may   *)
(* be freed by another thread than the one that allocated it.              *)
(*                                                                         *)
(* Not modelled: contents of blocks, messages, failure of mmap, mprotect.  *)
(***************************************************************************)
EXTENDS Integers, Sequences, FiniteSets, FiniteSetsExt

CONSTANTS
    Threads, Lengths,    \* the sizes that are asked for
    PageSize, Header,    \* PAGE_SIZE; the 8 bytes of length and canary
    max_mem, SizeT,       \* AFL_LD_LIMIT_MB; 2^w
    MaxMaps              \* bound: blocks ever allocated

VARIABLES
    maps,                \* every mapping: [base, len, live]
    total_mem,           \* by thread
    fault                \* the process was stopped

preloadVars == <<maps, total_mem, fault>>

PG_COUNT(l) == (l + PageSize - 1) \div PageSize

\* The address handed out, and the one that free computes from it.
UserPtr(base, len) == base + PageSize * PG_COUNT(len + Header) - len - Header + Header

BaseOf(ptr, len) == ptr - (PageSize * PG_COUNT(len + Header) - len - Header) - Header

\* Mappings do not overlap; the guard page is the last of each.
NextBase == LET Ends == {m.base + (1 + PG_COUNT(m.len + Header)) * PageSize : m \in {maps[i] : i \in DOMAIN maps}}
            IN IF Ends = {} THEN 0 ELSE Max(Ends)

PreloadInit == maps = <<>> /\ total_mem = [t \in Threads |-> 0] /\ fault = FALSE

Refuses(t, len) == LET total == (total_mem[t] + len) % SizeT IN total > max_mem \/ total < total_mem[t]
Mapped(len) == Append(maps, [base |-> NextBase, len |-> len, live |-> TRUE])

\* malloc and calloc: NULL beyond the limit, or the end of the process (AFL_LD_HARD_FAIL).
dislocator_alloc(t, len) ==
    /\ ~ fault
    /\ IF Refuses(t, len)
       THEN UNCHANGED <<maps, total_mem>> /\ fault' \in BOOLEAN
       ELSE /\ Len(maps) < MaxMaps
            /\ maps' = Mapped(len)
            /\ total_mem' = [total_mem EXCEPT ![t] = (@ + len) % SizeT]
            /\ UNCHANGED fault

\* calloc of a product that overflows.
calloc_overflow(t) == ~ fault /\ fault' \in BOOLEAN /\ UNCHANGED <<maps, total_mem>>

\* Reading the canary of a block that was freed stops the process.
Unmapped(m, i) == [m EXCEPT ![i].live = FALSE]

Subtracted(total, t, len) == [total EXCEPT ![t] = (@ - len) % SizeT]

free(t, i) ==
    /\ ~ fault
    /\ IF maps[i].live
       THEN /\ maps' = Unmapped(maps, i)
            /\ total_mem' = Subtracted(total_mem, t, maps[i].len)
            /\ UNCHANGED fault
       ELSE fault' = TRUE /\ UNCHANGED <<maps, total_mem>>

\* A new block first: both count until the old one is freed.
realloc(t, i, len) ==
    /\ ~ fault
    /\ CASE Refuses(t, len) -> UNCHANGED <<maps, total_mem>> /\ fault' \in BOOLEAN
         [] ~ Refuses(t, len) /\ ~ maps[i].live -> fault' = TRUE /\ UNCHANGED <<maps, total_mem>>
         [] OTHER ->
              /\ Len(maps) < MaxMaps
              /\ maps' = Unmapped(Mapped(len), i)
              /\ total_mem' = Subtracted([total_mem EXCEPT ![t] = (@ + len) % SizeT], t, maps[i].len)
              /\ UNCHANGED fault

PreloadNext ==
    \E t \in Threads :
        \/ \E len \in Lengths : dislocator_alloc(t, len)
        \/ calloc_overflow(t)
        \/ \E i \in DOMAIN maps : free(t, i)
        \/ \E i \in DOMAIN maps, len \in Lengths : realloc(t, i, len)

PreloadSpec == PreloadInit /\ [][PreloadNext]_preloadVars

LiveBytes == LET live == {i \in DOMAIN maps : maps[i].live} IN FoldSet(LAMBDA i, sum : sum + maps[i].len, 0, live)
AllTotals == FoldSet(LAMBDA t, sum : sum + total_mem[t], 0, Threads)

\* What the threads have counted is what is live, up to the width of the
\* counter, whichever thread frees a block; the first byte behind a block is in a page that
\* cannot be touched; and free protects the very pages the block was given.
HeapAccounted ==
    /\ AllTotals % SizeT = LiveBytes % SizeT
    /\ \A i \in DOMAIN maps :
          LET m == maps[i]
              ptr == UserPtr(m.base, m.len)
          IN /\ ptr + m.len = m.base + PageSize * PG_COUNT(m.len + Header)
             /\ ptr - Header >= m.base
             /\ BaseOf(ptr, m.len) = m.base

----------------------------------------------------------------------------
(* libtokencap *)

\* Mappings are of [st, en, r, w]; en is the first address behind one.
load_mappings(lines, MaxMappings) ==
    LET ro == SelectSeq(lines, LAMBDA l : l.r /\ ~ l.w)
    IN SubSeq(ro, 1, IF Len(ro) < MaxMappings THEN Len(ro) ELSE MaxMappings)
is_ro(ptr, ro) == \E i \in DOMAIN ro : ro[i].st <= ptr /\ ptr <= ro[i].en

\* Strings and memory are sequences of bytes; zeros follow a string's last byte.
\* A token is written when its length, which strncmp takes from its caller, is
\* within MIN_AUTO_EXTRA..MAX_AUTO_EXTRA; text is written up to its first zero.
ByteAt(s, i) == IF i \in DOMAIN s THEN s[i] ELSE 0
UpToZero(bytes) == LET z == {i \in DOMAIN bytes : bytes[i] = 0}
                   IN IF z = {} THEN bytes ELSE SubSeq(bytes, 1, Min(z) - 1)
dump(s, len, isText, accepted) ==
    LET bytes == [i \in 1..len |-> ByteAt(s, i)]
    IN IF len \notin accepted THEN {} ELSE {IF isText THEN UpToZero(bytes) ELSE bytes}

Sign(a, b) == IF a = b THEN 0 ELSE IF a > b THEN 1 ELSE -1
FirstOr(S, default) == IF S = {} THEN default ELSE Min(S)

\* fold, a function on bytes: tolower for strcasecmp and strncasecmp, the identity
\* for the others.
strcmp(one, two, fold) ==
    LET differ == {i \in 1..(Len(one) + Len(two) + 1) : fold[ByteAt(one, i)] # fold[ByteAt(two, i)]}
        i == FirstOr(differ, 1)
    IN Sign(fold[ByteAt(one, i)], fold[ByteAt(two, i)])

\* The end of the first string is looked at before the difference.
strncmp(one, two, len, fold) ==
    LET stop == {i \in 1..len : ByteAt(one, i) = 0 \/ fold[ByteAt(one, i)] # fold[ByteAt(two, i)]}
        i == Min(stop)
    IN IF stop = {} \/ ByteAt(one, i) = 0 THEN 0 ELSE Sign(fold[ByteAt(one, i)], fold[ByteAt(two, i)])

memcmp(one, two, len) ==
    LET differ == {i \in 1..len : ByteAt(one, i) # ByteAt(two, i)}
        i == Min(differ)
    IN IF differ = {} THEN 0 ELSE Sign(ByteAt(one, i), ByteAt(two, i))

\* strstr and strcasestr: where the needle starts, or 0.
strstr(haystack, needle, fold) ==
    FirstOr({i \in 1..(Len(haystack) + 1 - Len(needle)) :
                \A k \in DOMAIN needle : fold[haystack[i + k - 1]] = fold[needle[k]]}, 0)

\* A target compares as it does without the library, but for strncmp of a string
\* that the other one continues within len, which is taken as equal to it; and the
\* functions agree with each other: memcmp is strncmp where no string ends, strstr
\* is the first suffix that strncmp finds equal.
ComparesAsLibc(one, two, len, fold) ==
    LET continued == Len(one) < len /\ Len(one) < Len(two)
                     /\ \A i \in DOMAIN one : fold[one[i]] = fold[two[i]]
        Suffix(i) == SubSeq(two, i, Len(two))
        same == [b \in DOMAIN fold |-> b]
        Cut(s) == SubSeq(s, 1, IF len < Len(s) THEN len ELSE Len(s))
    IN /\ strncmp(one, two, len, fold) = IF continued THEN 0 ELSE strcmp(Cut(one), Cut(two), fold)
       /\ strcmp(one, two, fold) = - strcmp(two, one, fold)
       /\ (len <= Len(one) /\ len <= Len(two)) => memcmp(one, two, len) = strncmp(one, two, len, same)
       /\ \A i \in 1..(Len(two) + 1) :
             (strstr(two, one, fold) = i) <=>
                /\ strncmp(one, Suffix(i), Len(one), fold) = 0
                /\ \A j \in 1..(i - 1) : strncmp(one, Suffix(j), Len(one), fold) # 0
       /\ (strstr(two, one, fold) = 0) => strcmp(one, two, fold) # 0

\* What is written is a token of the argument: text without a zero, no longer than
\* accepted.  It may be shorter, and then it may be empty, which afl-fuzz refuses
\* in a dictionary, only where a caller of strncmp gives more than the string has.
TokensOfArguments(s, len, accepted) ==
    /\ \A t \in dump(s, Len(s), TRUE, accepted) : t = s /\ Len(t) \in accepted
    /\ \A t \in dump(s, len, TRUE, accepted) :
          /\ t = SubSeq(s, 1, Len(t)) /\ Len(t) <= Max(accepted)
          /\ Len(t) < Min(accepted) => len > Len(s)
    /\ \A t \in dump(s, len, FALSE, accepted) : Len(t) = len

\* Bytes that the target may write are not taken for constants, but for the first
\* one behind a read-only mapping; every constant is, while there is room.
ConstantsOnly(lines, MaxMappings) ==
    LET ro == load_mappings(lines, MaxMappings)
        In(l, ptr) == l.st <= ptr /\ ptr < l.en
        readOnly == SelectSeq(lines, LAMBDA l : l.r /\ ~ l.w)
    IN \A i \in DOMAIN lines : \A ptr \in {lines[i].st, lines[i].en - 1} :
          /\ (lines[i].w /\ is_ro(ptr, ro)) => (i > 1 /\ ptr = lines[i].st /\ ~ lines[i - 1].w)
          /\ (Len(readOnly) <= MaxMappings /\ lines[i].r /\ ~ lines[i].w) => is_ro(ptr, ro)
=============================================================================
