----------------------------- MODULE Dictionary -----------------------------
(***************************************************************************)
(* The tokens of afl-fuzz: extras, given by the user, and a_extras, which  *)
(* bitflip 1/1 finds, the deterministic stages and havoc insert, and       *)
(* save_auto keeps for the next start.                                     *)
(*                                                                         *)
(* A byte is a number; Fold gives letters of both cases the same.          *)
(***************************************************************************)
EXTENDS Deterministic, SequencesExt

CONSTANTS
    Dictionaries,    \* of the user, <<>> for none: lines, [comment, level, data]
    DictLevel,       \* dict_level
    Fold(_),         \* tolower
    FoundTokens,     \* what AutoTokens may find
    MaxAutoExtras,   \* MAX_AUTO_EXTRAS
    UseAutoExtras,   \* USE_AUTO_EXTRAS
    MaxDictFile,     \* MAX_DICT_FILE
    MaxHits          \* bound of hit_cnt

ASSUME DictionaryAssumption ==
    /\ Dictionaries \subseteq Seq([comment : BOOLEAN, level : Nat, data : Seq(Nat)])
    /\ FoundTokens \subseteq Seq(Nat)
    /\ \A t \in FoundTokens : Len(t) \in MinAutoExtra..MaxAutoExtra
    /\ MaxAutoExtras \in Nat \ {0} /\ UseAutoExtras \in Nat \ {0}

VARIABLES
    extras,          \* tokens, by length
    aExtras,         \* [data, hits]
    autoChanged,     \* auto_changed
    autoFiles,       \* the tokens in .state/auto_extras
    atStart          \* history: those that this session was started with

dictionaryVars == <<extras, aExtras, autoChanged, autoFiles, atStart>>

InUse(cnt) == IF UseAutoExtras <= cnt THEN UseAutoExtras ELSE cnt
Words(a) == [i \in DOMAIN a |-> a[i].data]
UsedTokens(a) == Words(SubSeq(a, 1, InUse(Len(a))))

\* The orders that sort the positions of a sequence by Less; ties are open.
Orders(n, Less(_, _)) ==
    {p \in [1..n -> 1..n] : /\ \A i, j \in 1..n : i # j => p[i] # p[j]
                            /\ \A i, j \in 1..n : i < j => ~ Less(p[j], p[i])}
Sorted(s, Less(_, _)) ==
    {[i \in DOMAIN s |-> s[p[i]]] : p \in Orders(Len(s), LAMBDA i, j : Less(s[i], s[j]))}

\* Lines: comments and tokens of a higher level are passed over; a line that is
\* malformed, empty or too long ends the program.
load_extras_file(lines) ==
    LET read[i \in 0..Len(lines)] ==
            IF i = 0 THEN <<>>
            ELSE IF lines[i].level > DictLevel \/ lines[i].comment THEN read[i - 1]
            ELSE Append(read[i - 1], lines[i].data)
    IN read[Len(lines)]
ValidLine(line) == line.comment \/ (line.data # <<>> /\ Len(line.data) <= MaxDictFile)

ByLength(t, u) == Len(t) < Len(u)
\* Mutant: the tokens stay in the order of the file.
UnsortedExtras(lines) == {load_extras_file(lines)}
load_extras(lines) == Sorted(load_extras_file(lines), ByLength)

\* memcmp_nocase
SameToken(t, u) == Len(t) = Len(u) /\ \A i \in DOMAIN t : Fold(t[i]) = Fold(u[i])

\* The scan of extras starts at the first that is as long as the token and ends
\* before the first that is longer: it relies on their order.
Scanned(e, t) ==
    {i \in DOMAIN e : \A j \in 1..i : Len(e[j]) >= Len(t) => \A k \in j..i : Len(e[k]) = Len(t)}

\* Runs of one byte, numbers of the interest stages and known tokens.  A
\* negative interesting_16 is compared as such and equals no word.
IsRejected(e, t) ==
    \/ \A i \in 2..Len(t) : t[i] = t[1]
    \/ /\ Len(t) \in {2, 4}
       /\ \E v \in Interesting(Len(t)) :
             \/ Word(t, 0, Len(t)) = v /\ (Len(t) = 4 \/ v < (Base ^ 2) \div 2)
             \/ Word(t, 0, Len(t)) = Swapped(v, Len(t))
    \/ \E i \in Scanned(e, t) : SameToken(e[i], t)

\* sort_a_extras: by use, then those in use by length.
ByHits(x, y) == x.hits > y.hits
ByTextLength(x, y) == ByLength(x.data, y.data)
SortedAuto(a) ==
    UNION {{top \o SubSeq(b, InUse(Len(b)) + 1, Len(b)) : top \in Sorted(SubSeq(b, 1, InUse(Len(b))), ByTextLength)} :
              b \in Sorted(a, ByHits)}

\* A token that is known is counted; a new one takes, when there is no room,
\* the place of one of the lower half.
WithToken(a, t) ==
    LET known == {i \in DOMAIN a : SameToken(a[i].data, t)}
        new == [data |-> t, hits |-> 0]
    IN IF known # {} THEN {[a EXCEPT ![CHOOSE i \in known : \A j \in known : i <= j].hits = @ + 1]}
       ELSE IF Len(a) < MaxAutoExtras THEN {Append(a, new)}
       ELSE {[a EXCEPT ![i] = new] : i \in (MaxAutoExtras \div 2 + 1)..MaxAutoExtras}

\* maybe_add_auto, with the user's tokens e.
Added(e, a, t) == IF IsRejected(e, t) THEN {a} ELSE UNION {SortedAuto(b) : b \in WithToken(a, t)}
maybe_add_auto(t) ==
    /\ aExtras' \in Added(extras, aExtras, t)
    /\ autoChanged' = (autoChanged \/ ~ IsRejected(extras, t))

----------------------------------------------------------------------------

\* A dictionary that gives no token ends the program; without one nothing is read.
Usable(lines) ==
    lines # <<>> => (\A i \in DOMAIN lines : ValidLine(lines[i])) /\ load_extras_file(lines) # <<>>
ReadExtras == UNION {load_extras(lines) : lines \in {d \in Dictionaries : Usable(d)}}

DictionaryInit ==
    /\ extras \in ReadExtras
    /\ aExtras = <<>> /\ autoChanged = FALSE /\ autoFiles = <<>> /\ atStart = {}

FindToken ==
    /\ \E t \in FoundTokens :
          /\ \A i \in DOMAIN aExtras : SameToken(aExtras[i].data, t) => aExtras[i].hits < MaxHits
          /\ maybe_add_auto(t)
    /\ UNCHANGED <<extras, autoFiles, atStart>>

\* The files of tokens that are no longer in use stay behind the new ones.
save_auto ==
    /\ autoChanged
    /\ autoChanged' = FALSE
    /\ LET t == UsedTokens(aExtras)
       IN autoFiles' = t \o SubSeq(autoFiles, Len(t) + 1, Len(autoFiles))
    /\ UNCHANGED <<extras, aExtras, atStart>>

\* A new start on the old queue: the tokens are added one after the other, none
\* of them with the hits that it had, and before the user's are there.
Loaded(tokens) ==
    LET load[i \in 0..Len(tokens)] ==
            IF i = 0 THEN {<<>>}
            ELSE UNION {Added(<<>>, a, tokens[i]) : a \in load[i - 1]}
    IN load[Len(tokens)]
load_auto ==
    /\ aExtras' \in Loaded(SubSeq(autoFiles, 1, InUse(Len(autoFiles))))
    /\ autoChanged' = (aExtras' # <<>>)
    /\ atStart' = {aExtras'[i].data : i \in DOMAIN aExtras'}

\* The new queue has no files of tokens yet, and the dictionary may be another.
StartAgain == load_auto /\ extras' \in ReadExtras /\ autoFiles' = <<>>

DictionaryNext == FindToken \/ save_auto \/ StartAgain
DictionarySpec == DictionaryInit /\ [][DictionaryNext]_dictionaryVars

----------------------------------------------------------------------------

\* Overwriting a buffer with the tokens, one after the other without restoring
\* it in between, sends exactly one token in its place each time, because the
\* tokens come shortest first: whatever was found, counted, evicted and loaded.
\* Inserting the user's tokens, in a buffer that is not restored either, sends the
\* seed with one token in it, at every position.
TokensReplaceExactly(buf, maxFile) ==
    /\ \A tokens \in {extras, UsedTokens(aExtras)} :
           \A s \in UserExtrasOver(buf, 0..Len(buf), tokens) : s[3] = Over(buf, s[1], tokens[s[2]])
    /\ UserExtrasInsert(buf, extras, maxFile)
       = {<<i, t, SubSeq(buf, 1, i) \o t \o SubSeq(buf, i + 1, Len(buf))>> :
             i \in 0..Len(buf), t \in {extras[j] : j \in {k \in DOMAIN extras : Len(buf) + Len(extras[k]) <= maxFile}}}

\* No token is there twice, in letters of either case, and what is found is none of
\* the user's: whatever was found and counted, evicted, sorted, saved and loaded,
\* though maybe_add_auto looks only at those extras that their order leads it to.
\* A token may be one of the user's only if it comes from an earlier session: main
\* calls load_auto before load_extras.
TokensDistinct ==
    /\ \A i, j \in DOMAIN aExtras : i # j => ~ SameToken(aExtras[i].data, aExtras[j].data)
    /\ \A i \in DOMAIN aExtras, j \in DOMAIN extras :
          SameToken(aExtras[i].data, extras[j]) => aExtras[i].data \in atStart
=============================================================================
