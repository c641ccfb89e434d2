------------------------------ MODULE Grammar ------------------------------
(***************************************************************************)
(* What ChatAFL takes from a language model (chat-llm.c and its callers in *)
(* afl-fuzz.c): the templates of the protocol's messages, voted on over    *)
(* several answers and turned into patterns that decompose a buffer into   *)
(* mutable ranges; the seeds enriched with message types they lack; the    *)
(* next message of a seed that brings nothing new.                         *)
(*                                                                         *)
(* A text is a sequence of characters. Positions count from 0, as there.   *)
(***************************************************************************)
EXTENDS Integers, SequencesExt, FiniteSetsExt, TLC

CONSTANTS
    TemplateConsistencyCount,   \* TEMPLATE_CONSISTENCY_COUNT
    HeaderSize, FieldsSize,     \* the buffers of the two patterns, in bytes
    MaxEnrichmentTypes,         \* MAX_ENRICHMENT_MESSAGE_TYPES
    MaxEnrichmentCorpus,        \* MAX_ENRICHMENT_CORPUS_SIZE
    HistoryLength               \* HISTORY_PROMPT_LENGTH

Quote == "\""
Backslash == "\\"
CR == "\r"
LF == "\n"
CRLF == <<CR, LF>>
Value == "<<VALUE>>"     \* the placeholder of a template, as one character
NoText == <<"null">>

-----------------------------------------------------------------------------
(* Asking the model *)

\* An exchange is [curl, status, content]; content is the text of the answer's
\* first choice, or NoText when it is not JSON or lacks a part of an
\* OpenAI-compatible completion.
parse_llm_response(x) ==
    IF x.status \notin 200..299 \/ x.content \in {NoText, <<>>} THEN NoText
    ELSE IF Head(x.content) = LF THEN Tail(x.content) ELSE x.content

\* A key file that is named but unusable leaves no key; the environment's
\* and the compiled default are for when none is named.
chatafl_runtime_api_key(file, environment, default) ==
    IF file # NoText
    THEN (IF Len(file) \in 1..65536 /\ \E i \in DOMAIN file : file[i] \notin {CR, LF}
          THEN SubSeq(file, 1, Max({i \in DOMAIN file : file[i] \notin {CR, LF}})) ELSE NoText)
    ELSE IF environment \notin {NoText, <<>>} THEN environment ELSE default

\* Up to tries requests, none without a key.
chat_with_llm(exchanges, tries, key) ==
    LET answer(i) == IF exchanges[i].curl THEN parse_llm_response(exchanges[i]) ELSE NoText
        good == {i \in 1..tries : answer(i) # NoText}
    IN IF key = NoText THEN [requests |-> 0, answer |-> NoText]
       ELSE IF good = {} THEN [requests |-> tries, answer |-> NoText]
       ELSE [requests |-> Min(good), answer |-> answer(Min(good))]

-----------------------------------------------------------------------------
(* Templates: the arrays of strings in an answer *)

\* The position (from 1) of the bracket that closes the one at start, or 0.
find_json_array_end(s, start) ==
    LET step(r, i) ==
            IF r.end # 0 \/ i < start THEN r
            ELSE IF r.inString
            THEN IF r.escaped THEN [r EXCEPT !.escaped = FALSE]
                 ELSE [r EXCEPT !.escaped = s[i] = Backslash, !.inString = s[i] # Quote]
            ELSE CASE s[i] = Quote -> [r EXCEPT !.inString = TRUE]
                   [] s[i] = "["   -> [r EXCEPT !.depth = @ + 1]
                   [] s[i] = "]"   -> [r EXCEPT !.depth = @ - 1, !.end = IF r.depth = 1 THEN i ELSE 0]
                   [] OTHER        -> r
    IN FoldLeft(step, [depth |-> 0, inString |-> FALSE, escaped |-> FALSE, end |-> 0],
                [i \in DOMAIN s |-> i]).end

\* Where the arrays that are parsed begin and end.

extract_message_grammars(s) ==
    LET from[p \in 1..(Len(s) + 1)] ==
            LET open == {i \in p..Len(s) : s[i] = "["}
                end == IF open = {} THEN 0 ELSE find_json_array_end(s, Min(open))
            IN IF end = 0 THEN <<>> ELSE <<[start |-> Min(open), end |-> end]>> \o from[end + 1]
    IN from[1]

\* Of the arrays, those are kept that hold strings only, none of them empty.
valid_grammar_array(items) == items # <<>> /\ \A i \in DOMAIN items : items[i] \notin {<<>>, NoText}

\* The model is asked TEMPLATE_CONSISTENCY_COUNT times, twice each; an answer
\* holds the arrays of both, and none when either question got no answer.
Grammars(answer) == SelectSeq(answer, valid_grammar_array)

\* How often a field was given below a header, over all answers.
FieldVotes(answers, header, field) ==
    LET inGrammar(g) == Cardinality({i \in 2..Len(g) : Head(g) = header /\ g[i] = field})
        inAnswer(a) == FoldLeft(LAMBDA n, g : n + inGrammar(g), 0, Grammars(a))
    IN FoldLeft(LAMBDA n, a : n + inAnswer(a), 0, answers)

Headers(answers) == {Head(g) : g \in UNION {ToSet(Grammars(a)) : a \in ToSet(answers)}}

Consistent(votes) == votes >= (TemplateConsistencyCount \div 2) + (TemplateConsistencyCount % 2)

FieldsOf(answers, header) ==
    {f \in UNION {ToSet(g) : g \in UNION {ToSet(Grammars(a)) : a \in ToSet(answers)}} :
        FieldVotes(answers, header, f) > 0 /\ Consistent(FieldVotes(answers, header, f))}

-----------------------------------------------------------------------------
(* Patterns, and the decomposition of a buffer *)

\* A pattern is compiled as it stands, so that these are operators in a template,
\* too. Every other character stands for itself here: classes, counts, assertions and
\* a second quantifier behind the first are not among the templates looked at.
Openings == {"(", "(?:", "(?|"}
Quantifiers == {"*", "+", "?"}
Operators == Openings \cup Quantifiers \cup {")", "|", ".", "^"}
Plain(text) == ToSet(text) \cap Operators = {}

NoPattern == [type |-> NoText]
AnyText == <<"(", ".", "+", ")">>

\* The last placeholder becomes a group, the rest is taken over as it is. An
\* empty text is no template.
parse_pattern(text) ==
    LET v == {i \in DOMAIN text : text[i] = Value}
        body == IF v = {} THEN text
                ELSE SubSeq(text, 1, Max(v) - 1) \o <<"(", ".", "*", ")">> \o SubSeq(text, Max(v) + 1, Len(text))
    IN <<"(?:">> \o body \o <<")">>

PatternSize(p) == Len(p) + 2 * Cardinality({i \in DOMAIN p : p[i] \in {"(?:", "(?|"}})

\* pcre2_compile: a tree of alternatives, each a sequence of items, or NoPattern.
\* Groups are numbered as they open; the alternatives of "(?|" begin with the same
\* number. The stack holds what is open.
Frame(c, n) == [opening |-> c, number |-> n, base |-> n, alts |-> <<<<>>>>, most |-> n]
pcre2_compile(pattern) ==
    LET failed == [stack |-> <<>>, groups |-> 0]
        add(stack, item) ==
            LET top == Last(stack)
            IN Append(Front(stack), [top EXCEPT !.alts = Append(Front(@), Append(Last(@), item))])
        close(top) == [op |-> "group", number |-> IF top.opening = "(" THEN top.number ELSE 0, alts |-> top.alts]
        quantify(stack, c) ==
            LET top == Last(stack)
                item == [op |-> "repeat", of |-> Last(Last(top.alts)), least |-> IF c = "+" THEN 1 ELSE 0, many |-> c # "?"]
            IN Append(Front(stack), [top EXCEPT !.alts = Append(Front(@), Append(Front(Last(@)), item))])
        step(r, c) ==
            LET top == Last(r.stack)
                n == IF c = "(" THEN r.groups + 1 ELSE r.groups
                most == Max({top.most, r.groups})
            IN IF r.stack = <<>> THEN r
               ELSE CASE c \in Openings -> [stack |-> Append(r.stack, Frame(c, n)), groups |-> n]
                      [] c = ")" ->
                            IF Len(r.stack) = 1 THEN failed
                            ELSE [stack |-> add(Front(r.stack), close(top)),
                                  groups |-> IF top.opening = "(?|" THEN most ELSE r.groups]
                      [] c = "|" ->
                            [stack |-> Append(Front(r.stack), [top EXCEPT !.alts = Append(@, <<>>), !.most = most]),
                             groups |-> IF top.opening = "(?|" THEN top.base ELSE r.groups]
                      [] c \in Quantifiers ->
                            IF Last(top.alts) = <<>> \/ Last(Last(top.alts)).op \in {"repeat", "start"} THEN failed
                            ELSE [r EXCEPT !.stack = quantify(@, c)]
                      [] c = "^" -> [r EXCEPT !.stack = add(@, [op |-> "start"])]
                      [] OTHER -> [r EXCEPT !.stack = add(@, [op |-> IF c = "." THEN "any" ELSE "char", c |-> c])]
        end == FoldLeft(step, [stack |-> <<Frame("(?:", 0)>>, groups |-> 0], pattern)
    IN IF Len(end.stack) = 1 THEN close(end.stack[1]) ELSE NoPattern

\* The fields come in the order of the hash table. A pattern that does not
\* fit its buffer, or does not compile, costs the whole message type.
extract_message_pattern(header, fields) ==
    LET h == <<"^">> \o parse_pattern(header)
        joined == FlattenSeq([i \in DOMAIN fields |-> (IF i = 1 THEN <<>> ELSE <<"|">>) \o parse_pattern(fields[i])])
        f == IF fields = <<>> THEN AnyText ELSE <<"(?|">> \o joined \o <<")">>
        stop == {i \in DOMAIN header : header[i] \in {" ", CR, LF, Backslash}} \cup {Len(header) + 1}
        compiled == [header |-> pcre2_compile(h), fields |-> pcre2_compile(f)]
    IN IF <<>> \in {header} \cup ToSet(fields) \/ PatternSize(h) >= HeaderSize \/ PatternSize(f) >= FieldsSize
          \/ NoPattern \in {compiled.header, compiled.fields}
       THEN NoPattern
       ELSE compiled @@ [type |-> SubSeq(header, 1, Min(stop) - 1)]

\* The ways in which an item matches a line from o on, the preferred one first,
\* with what the groups in it take: as much as they can, the last time they match.
RECURSIVE Matches(_, _, _), MatchesOfAll(_, _, _)
Matches(item, line, o) ==
    LET here(ok, e) == IF ok THEN <<[end |-> e, groups |-> <<>>]>> ELSE <<>>
        alternative(items) ==
            LET ways == MatchesOfAll(items, line, o)
            IN IF item.number = 0 THEN ways
               ELSE [k \in DOMAIN ways |->
                        [ways[k] EXCEPT !.groups = (item.number :> [start |-> o, len |-> ways[k].end - o]) @@ @]]
        again(m) ==
            IF m.end = o \/ ~item.many THEN <<m>>
            ELSE LET rest == Matches([item EXCEPT !.least = 0], line, m.end)
                 IN [k \in DOMAIN rest |-> [rest[k] EXCEPT !.groups = @ @@ m.groups]]
    IN CASE item.op = "start" -> here(o = 0, o)
         [] item.op = "any"   -> here(o < Len(line) /\ line[o + 1] # LF, o + 1)
         [] item.op = "char"  -> here(o < Len(line) /\ line[o + 1] = item.c, o + 1)
         [] item.op = "group" -> FlattenSeq([k \in DOMAIN item.alts |-> alternative(item.alts[k])])
         [] item.op = "repeat" ->
               LET once == Matches(item.of, line, o)
               IN FlattenSeq([k \in DOMAIN once |-> again(once[k])]) \o here(item.least = 0, o)
MatchesOfAll(items, line, o) ==
    IF items = <<>> THEN <<[end |-> o, groups |-> <<>>]>>
    ELSE LET first == Matches(Head(items), line, o)
             then(m) == LET rest == MatchesOfAll(Tail(items), line, m.end)
                        IN [k \in DOMAIN rest |-> [rest[k] EXCEPT !.groups = @ @@ m.groups]]
         IN FlattenSeq([k \in DOMAIN first |-> then(first[k])])

\* pcre2_match: the leftmost match from offset on, its groups by their number.
Match(m, start) ==
    LET numbers == SetToSortSeq(DOMAIN m.groups, <)
    IN {[start |-> start, end |-> m.end, groups |-> [k \in DOMAIN numbers |-> m.groups[numbers[k]]]]}
pcre2_match(pattern, line, offset) ==
    LET from[o \in offset..(Len(line) + 1)] ==
            LET ways == Matches(pattern, line, o)
            IN IF o > Len(line) THEN {} ELSE IF ways = <<>> THEN from[o + 1] ELSE Match(Head(ways), o)
    IN from[offset]

\* The groups of the header, then the whole match.
starts_with(line, pattern) ==
    LET found == pcre2_match(pattern, line, 0)
        pushed(m) == Append(m.groups, [start |-> m.start, len |-> m.end - m.start])
    IN IF found = {} THEN <<>> ELSE pushed(CHOOSE m \in found : TRUE)

\* Text between matches is mutable, as is every group in them; after a match that
\* is empty the search goes on one byte further.
get_mutable_ranges(line, offset, pattern) ==
    LET upto(o, e) == IF o < e THEN <<[start |-> o, len |-> e - o]>> ELSE <<>>
        from[o \in 0..(Len(line) + 1)] ==
            LET found == pcre2_match(pattern, line, o)
                pushed(m) == upto(o, m.start) \o m.groups \o from[IF o = m.end THEN o + 1 ELSE m.end]
            IN IF found = {} THEN upto(o, Len(line)) ELSE pushed(CHOOSE m \in found : TRUE)
    IN from[offset]

\* The first message type whose header fits; the whole buffer if none does, or if
\* that leaves no range. The fields are looked for behind as many bytes as the
\* header matched; mutant: from the first byte on.
Fitting(buf, patterns) == SelectSeq(patterns, LAMBDA p : starts_with(buf, p.header) # <<>>)
OrWhole(ranges, buf) == IF ranges = <<>> THEN <<[start |-> 0, len |-> Len(buf)]>> ELSE ranges

parse_buffer_from_start(buf, patterns) ==
    LET ranges(p) == Front(starts_with(buf, p.header)) \o get_mutable_ranges(buf, 0, p.fields)
        fitting == Fitting(buf, patterns)
    IN OrWhole(IF fitting = <<>> THEN <<>> ELSE ranges(Head(fitting)), buf)

parse_buffer(buf, patterns) ==
    LET behind(header, p) == Front(header) \o get_mutable_ranges(buf, Last(header).len, p.fields)
        ranges(p) == behind(starts_with(buf, p.header), p)
        fitting == Fitting(buf, patterns)
    IN OrWhole(IF fitting = <<>> THEN <<>> ELSE ranges(Head(fitting)), buf)

-----------------------------------------------------------------------------
(* Texts made into requests *)

\* Every line end becomes CR LF, and an empty line ends the message.

format_request_message(m) ==
    IF m \in {NoText, <<>>} THEN m
    ELSE FoldLeft(LAMBDA r, i : r \o (IF m[i] = LF /\ (i = 1 \/ m[i - 1] # CR) THEN CRLF ELSE <<m[i]>>),
                  <<>>, [i \in DOMAIN m |-> i]) \o CRLF \o CRLF

\* A backslash at the very end takes the terminator with it.
unescape_string(s) ==
    LET escaped == [c \in {"n", "r", "t"} |-> CASE c = "n" -> LF [] c = "r" -> CR [] OTHER -> "\t"]
        step(r, c) ==
            IF r.skip THEN [out |-> Append(r.out, IF c \in {"n", "r", "t"} THEN escaped[c] ELSE c), skip |-> FALSE]
            ELSE IF c = Backslash THEN [r EXCEPT !.skip = TRUE]
            ELSE [r EXCEPT !.out = Append(@, c)]
    IN FoldLeft(step, [out |-> <<>>, skip |-> FALSE], s).out

Space == {LF, CR, " ", "\t"}
WithoutLead(s) ==
    LET kept == {i \in DOMAIN s : s[i] \notin Space}
    IN IF kept = {} THEN <<>> ELSE SubSeq(s, Min(kept), Len(s))

\* A text of stops only is trimmed past its own start (undefined): what is
\* left of the text itself is empty.
format_string(s) ==
    LET t == WithoutLead(s)
        kept == {i \in DOMAIN t : t[i] \notin {LF, CR, " ", "."}}
    IN IF kept = {} THEN <<>> ELSE SubSeq(t, 1, Max(kept))

write_new_seeds(contents) ==
    LET t == WithoutLead(contents)
    IN IF IsSuffix(CRLF \o CRLF, t) THEN t ELSE t \o CRLF \o CRLF

\* The model's message is what follows the first line of its answer, or the
\* first two when the first is empty.
extract_stalled_message(m) ==
    LET ends == {i \in DOMAIN m : m[i] = LF}
        blank == m[1] = LF \/ (m[1] = CR /\ Len(m) > 1 /\ m[2] = LF)
    IN IF m = <<>> \/ ends = {} THEN NoText
       ELSE IF blank /\ Cardinality(ends) > 1
       THEN SubSeq(m, Min(ends \ {Min(ends)}) + 1, Len(m))
       ELSE SubSeq(m, Min(ends) + 1, Len(m))

\* The end of the history is kept; it does not begin within an escape.

TrimHistory(h) ==
    LET offset == Len(h) - HistoryLength
    IN IF offset <= 0 THEN h
       ELSE SubSeq(h, offset + 1 + (IF h[offset] = Backslash THEN 1 ELSE 0), Len(h))

\* json_object_to_json_string, without the quotes around it.
Escaped(text) ==
    LET esc(c) == CASE c = LF -> <<Backslash, "n">> [] c = CR -> <<Backslash, "r">>
                    [] c \in {Quote, Backslash} -> <<Backslash, c>> [] OTHER -> <<c>>
    IN FlattenSeq([i \in DOMAIN text |-> esc(text[i])])

-----------------------------------------------------------------------------
(* Seeds enriched with the message types they lack *)

Missing(types, headers) == types \ ToSet(headers)

\* Types are dropped at random down to MAX_ENRICHMENT_CORPUS_SIZE.
Corpora(missing) ==
    IF Cardinality(missing) <= MaxEnrichmentCorpus THEN {missing} ELSE kSubset(MaxEnrichmentCorpus, missing)

\* The hash table's buckets, from st on, some of them empty; data is chosen.
EmptyBucket == "-"
Enough(buckets, i, needed) == Len(buckets) - i + 1 >= needed
RECURSIVE make_combination(_, _, _, _)
make_combination(buckets, data, st, size) ==
    IF Len(data) = size THEN <<ToSet(data)>>
    ELSE FlattenSeq([k \in 1..(Len(buckets) - st) |->
            LET i == st + k - 1
            IN IF buckets[i + 1] # EmptyBucket /\ Enough(buckets, i, size - Len(data))
               THEN make_combination(buckets, Append(data, buckets[i + 1]), i + 1, size) ELSE <<>>])

message_combinations(buckets, size) == make_combination(buckets, <<>>, 0, size)

\* What one answer adds: nothing when there is none, or it is empty or the
\* seed itself.
enrich_sequence(seed, answer) ==
    LET text == format_string(unescape_string(answer))
    IN IF answer = NoText THEN NoText
       ELSE IF text \in {<<>>, format_string(seed)} THEN NoText
       ELSE write_new_seeds(format_request_message(text))

\* Files are [base, enriched, headers, text]; those of an earlier enrichment are
\* passed over.  Without any type the table of a file has no flags, and kh_exist
\* reads them for its first header.
Faults(files, types) == types = {} /\ \E f \in files : ~ f.enriched /\ f.headers # <<>>

\* chosen are the missing types left for each file, answers what is said of it.
get_seeds_with_message_types(files, types, chosen, answers) ==
    LET own == {f \in files : ~ f.enriched}
        sets(f) == kSubset(MaxEnrichmentTypes, chosen[f.base])
    IN UNION {{[base |-> f.base, enriched |-> s, text |-> enrich_sequence(f.text, answers[f.base])] :
                  s \in {t \in sets(f) : enrich_sequence(f.text, answers[f.base]) # NoText}} : f \in own}

-----------------------------------------------------------------------------
(* What should hold of them *)

\* The templates of an answer do not overlap, and none of them is passed over
\* unless a bracket before it is never closed. A bracket counts as closed by the first one
\* that leaves as many closing as opening ones outside of the strings between.
ClosedBy(s, i, j) ==
    LET outside(k) == s[k] # Quote /\ Cardinality({q \in i..(k - 1) : s[q] = Quote}) % 2 = 0
        count(c) == Cardinality({k \in i..j : s[k] = c /\ outside(k)})
    IN s[i] = "[" /\ s[j] = "]" /\ outside(j) /\ count("[") = count("]")
TemplatesSeparate(s) ==
    LET a == extract_message_grammars(s)
    IN /\ \A k \in DOMAIN a : ClosedBy(s, a[k].start, a[k].end)
                              /\ \A j \in a[k].start..(a[k].end - 1) : ~ClosedBy(s, a[k].start, j)
       /\ \A k, l \in DOMAIN a : k < l => a[k].end < a[l].start
       /\ \A i \in DOMAIN s :
             s[i] = "[" /\ (\A k \in DOMAIN a : i \notin a[k].start..a[k].end) =>
                \E p \in 1..i : s[p] = "[" /\ \A j \in p..Len(s) : ~ClosedBy(s, p, j)

\* A field is in the pattern of a header only if most of the answers gave it,
\* when none of them gave it twice: one strange answer does not change what is
\* mutated.
FieldsAgreed(answers) ==
    \A h \in Headers(answers) : \A f \in FieldsOf(answers, h) :
        2 * Cardinality({i \in DOMAIN answers : FieldVotes(<<answers[i]>>, h, f) > 0}) > Len(answers)

\* Whatever the templates, a buffer has a range and its ranges lie in it. Of templates
\* without operators, the ranges are in order and apart, as the havoc stage needs
\* them, and only what a template fixes is in none of them: every other byte may
\* change, but for one that is passed over behind an empty match.
RangesInOrder(r) == \A i, j \in DOMAIN r : i < j => r[i].start + r[i].len <= r[j].start
DecompositionSound(buf, header, fields) ==
    LET texts == {header} \cup ToSet(fields)
        open(r, k) == \E i \in DOMAIN r : k \in r[i].start..(r[i].start + r[i].len - 1)
        sound(r) ==
            /\ r # <<>> /\ \A i \in DOMAIN r : r[i].start >= 0 /\ r[i].start + r[i].len <= Len(buf)
            /\ (\A t \in texts : Plain(t)) =>
                  /\ RangesInOrder(r)
                  /\ <<Value>> \notin ToSet(fields) =>
                        \A k \in DOMAIN buf : open(r, k - 1) \/ \E t \in texts : buf[k] \in ToSet(t)
    IN sound(parse_buffer(buf, SelectSeq(<<extract_message_pattern(header, fields)>>, LAMBDA p : p # NoPattern)))

\* What is written as a seed, or sent for a stalled one, is a sequence of
\* CR LF lines that ends with an empty one, and has no other line ends.
WellFormedRequest(m) ==
    m \in {NoText, <<>>} \/ (IsSuffix(CRLF \o CRLF, m) /\ \A i \in DOMAIN m : m[i] = LF => i > 1 /\ m[i - 1] = CR)
RequestsWellFormed(seed, answer) ==
    /\ WellFormedRequest(enrich_sequence(seed, answer))
    /\ WellFormedRequest(format_request_message(extract_stalled_message(answer)))

\* A history that holds no backslash of its own is cut between its escapes.
HistoryCutCleanly(text) ==
    Backslash \notin ToSet(text) =>
        \E i \in 0..Len(text) : TrimHistory(Escaped(text)) = Escaped(SubSeq(text, i + 1, Len(text)))

\* A start with the seeds of an earlier one enriches none of what the model wrote,
\* asks for no type that a seed has, and misses none: every type left for a seed
\* is in a new one if the model answers, unless it is the only one; what the
\* model says to one request is not asked again, and is not the seed itself.
EnrichmentComplete(files, types, exchanges, tries, key) ==
    LET said == chat_with_llm(exchanges, tries, key)
        choices == [{f.base : f \in files} -> UNION {Corpora(Missing(types, f.headers)) : f \in files}]
        Suits(c) == \A f \in files : c[f.base] \in Corpora(Missing(types, f.headers))
    IN \A chosen \in {c \in choices : Suits(c)} :
          LET out == get_seeds_with_message_types(files, types, chosen, [b \in DOMAIN chosen |-> said.answer])
              From(f) == {o \in out : o.base = f.base}
          IN /\ said.answer = NoText => out = {}
             /\ ~ Faults(files, types) => \A f \in files :
                   /\ f.enriched => From(f) = {}
                   /\ \A o \in From(f) : o.enriched \cap ToSet(f.headers) = {}
                                       /\ WellFormedRequest(o.text) /\ format_string(o.text) # format_string(f.text)
                   /\ (enrich_sequence(f.text, said.answer) # NoText /\ ~ f.enriched)
                         => UNION {o.enriched : o \in From(f)}
                            = IF Cardinality(chosen[f.base]) < MaxEnrichmentTypes THEN {} ELSE chosen[f.base]
             /\ said.requests <= tries
             /\ \A i \in 1..(said.requests - 1) : chat_with_llm(<<exchanges[i]>>, 1, key).answer = NoText

\* The subsets a seed is enriched with are all of their size, each once.
CombinationsComplete(buckets, size) ==
    LET c == message_combinations(buckets, size)
    IN ToSet(c) = kSubset(size, ToSet(buckets) \ {EmptyBucket}) /\ IsInjective(c)
=============================================================================
