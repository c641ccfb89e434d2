----------------------------- MODULE Minimizer -----------------------------
(* afl-tmin.c: a file is made shorter and plainer while the target behaves on *)
(* it as it did on the original.  The target is an oracle that answers at     *)
(* random, but the same way each time it is asked: verdicts remembers.        *)
(*                                                                            *)
(* Not modelled: fork, limits and the temporary file of one run; a target     *)
(* that does not always behave the same; messages and counters.               *)
EXTENDS Integers, SequencesExt

CONSTANTS
    Symbols, Zero,       \* the bytes; Zero is '0'
    MaxInput,            \* bound: bytes of the input file
    Modes,               \* of [crash, exact]: crash_mode, exact_mode
    TrimSteps,           \* TRIM_START_STEPS
    SetSteps, SetMin     \* TMIN_SET_STEPS, TMIN_SET_MIN_SIZE

ASSUME MinimizerAssumption ==
    /\ Zero \in Symbols /\ MaxInput \in Nat
    /\ Modes \subseteq [crash : BOOLEAN, exact : BOOLEAN]
    /\ TrimSteps \in Nat \ {0} /\ SetSteps \in Nat \ {0} /\ SetMin \in Nat \ {0}

VARIABLES
    data,                \* in_data
    verdicts,            \* history: what run_target returned, by input
    step,                \* [stage, pos, len, prevDel, changed, pass, syms]
    tmp,                 \* tmp_buf of the character stage
    tminMode, outFile    \* what is in the output file, or NoFile

minimizerVars == <<data, verdicts, step, tmp, tminMode, outFile>>

NoFile == <<"none">>
Outcomes == [hang : BOOLEAN, crash : BOOLEAN, sameTrace : BOOLEAN]

\* run_target after the dry run: is the change kept?
Keeps(outcome, mode) ==
    /\ ~ outcome.hang /\ outcome.crash = mode.crash
    /\ outcome.sameTrace \/ (mode.crash /\ ~ mode.exact)

\* The loop ends within val rounds.
next_p2(val) ==
    LET ret[i \in 0..val] ==
            IF i = 0 THEN 1 ELSE IF val > ret[i - 1] THEN 2 * ret[i - 1] ELSE ret[i - 1]
    IN ret[val]

AtLeast(n, least) == IF n < least THEN least ELSE n
Replaced(buf, from, size) ==
    [i \in DOMAIN buf |-> IF from < i /\ i <= from + size THEN Zero ELSE buf[i]]
Without(buf, from, size) == SubSeq(buf, 1, from) \o SubSeq(buf, from + size + 1, Len(buf))
Stage(name, len) == [step EXCEPT !.stage = name, !.pos = 0, !.len = len, !.prevDel = TRUE]
BlockLength(buf) == AtLeast(next_p2(Len(buf) \div TrimSteps), 1)

Inputs == UNION {[1..n -> Symbols] : n \in 1..MaxInput}
MinimizerInit(input, m) ==
    /\ data = input /\ tminMode = m
    /\ verdicts = {<<data, TRUE>>}
    /\ step = [stage |-> "normalize", pos |-> 0, prevDel |-> TRUE, changed |-> FALSE, pass |-> 0,
               syms |-> {}, len |-> AtLeast(next_p2(Len(data) \div SetSteps), SetMin)]
    /\ tmp = <<>> /\ outFile = NoFile

\* One call of run_target, whose answer is kept.
Tried(buf, kept) ==
    /\ IF \E v \in verdicts : v[1] = buf THEN <<buf, kept>> \in verdicts
       ELSE \E outcome \in Outcomes : kept = Keeps(outcome, tminMode)
    /\ verdicts' = verdicts \cup {<<buf, kept>>}

\* A pass that has changed nothing is the last.
\* Mutant: the first pass is.
SettledAtOnce(s) == s.stage = "characters" /\ s.pos >= Len(data)
Settled(s) == s.stage = "characters" /\ s.pos >= Len(data) /\ ~ s.changed

-----------------------------------------------------------------------------
(* Stage 0, block normalization: once *)
NormalizeBlock ==
    /\ step.stage = "normalize" /\ step.pos < Len(data)
    /\ LET plain == Replaced(data, step.pos, step.len)
       IN  IF plain = data THEN UNCHANGED <<data, verdicts>>
           ELSE \E kept \in BOOLEAN : Tried(plain, kept) /\ data' = (IF kept THEN plain ELSE data)
    /\ step' = [step EXCEPT !.pos = @ + step.len]
    /\ UNCHANGED <<tmp, tminMode, outFile>>

NextPass ==
    /\ \/ step.stage = "normalize" /\ step.pos >= Len(data)
       \/ step.stage = "characters" /\ step.pos >= Len(data) /\ ~ Settled(step)
    /\ step' = [Stage("delete", BlockLength(data)) EXCEPT !.changed = FALSE, !.pass = @ + 1]
    /\ UNCHANGED <<data, verdicts, tmp, tminMode, outFile>>

(* Stage 1, block deletion. A block like the one before, which could not go, is skipped. *)
IsNoOp(buf, s) ==
    /\ ~ s.prevDel /\ s.pos + s.len < Len(buf)
    /\ SubSeq(buf, s.pos - s.len + 1, s.pos) = SubSeq(buf, s.pos + 1, s.pos + s.len)

DeleteBlock ==
    /\ step.stage = "delete" /\ step.pos < Len(data)
    /\ IF IsNoOp(data, step)
       THEN step' = [step EXCEPT !.pos = @ + step.len] /\ UNCHANGED <<data, verdicts>>
       ELSE \E kept \in BOOLEAN :
               /\ Tried(Without(data, step.pos, step.len), kept)
               /\ IF kept
                  THEN /\ data' = Without(data, step.pos, step.len)
                       /\ step' = [step EXCEPT !.prevDel = TRUE, !.changed = TRUE]
                  ELSE /\ step' = [step EXCEPT !.prevDel = FALSE, !.pos = @ + step.len]
                       /\ UNCHANGED data
    /\ UNCHANGED <<tmp, tminMode, outFile>>

\* Half the block length; after length 1, the alphabet, unless a pass has changed nothing.
AfterDeletion ==
    /\ step.stage = "delete" /\ step.pos >= Len(data)
    /\ step' = IF step.len > 1 /\ data # <<>> THEN Stage("delete", step.len \div 2)
               ELSE IF step.pass > 1 /\ ~ step.changed THEN Stage("finalize", 0)
               ELSE [Stage("alphabet", 0) EXCEPT !.syms = ToSet(data) \ {Zero}]
    /\ UNCHANGED <<data, verdicts, tmp, tminMode, outFile>>

(* Stage 2: every symbol of the file, in all its places at once. In the order of the bytes in the
   code; any order here. *)
ReplaceSymbol ==
    /\ step.stage = "alphabet"
    /\ \E c \in step.syms, kept \in BOOLEAN :
          LET plain == [i \in DOMAIN data |-> IF data[i] = c THEN Zero ELSE data[i]]
          IN  /\ Tried(plain, kept)
              /\ data' = (IF kept THEN plain ELSE data)
              /\ step' = [step EXCEPT !.syms = @ \ {c}, !.changed = @ \/ kept]
    /\ UNCHANGED <<tmp, tminMode, outFile>>

AfterAlphabet ==
    /\ step.stage = "alphabet" /\ step.syms = {}
    /\ tmp' = data /\ step' = Stage("characters", 0)
    /\ UNCHANGED <<data, verdicts, tminMode, outFile>>

(* Stage 3: one character at a time *)
ReplaceCharacter ==
    /\ step.stage = "characters" /\ step.pos < Len(data)
    /\ LET i == step.pos + 1
           plain == [tmp EXCEPT ![i] = Zero]
       IN  IF tmp[i] = Zero
           THEN step' = [step EXCEPT !.pos = i] /\ UNCHANGED <<data, verdicts, tmp>>
           ELSE \E kept \in BOOLEAN :
                   /\ Tried(plain, kept)
                   /\ tmp' = (IF kept THEN plain ELSE tmp)
                   /\ data' = (IF kept THEN [data EXCEPT ![i] = Zero] ELSE data)
                   /\ step' = [step EXCEPT !.pos = i, !.changed = @ \/ kept]
    /\ UNCHANGED <<tminMode, outFile>>

Finalize ==
    /\ \/ step.stage = "finalize"
       \/ Settled(step)
    /\ step' = Stage("done", 0) /\ outFile' = data
    /\ UNCHANGED <<data, verdicts, tmp, tminMode>>

\* A stop signal is seen after a run: the file as it is goes out.
AbortByUser ==
    /\ step.stage \notin {"done", "aborted"}
    /\ step' = Stage("aborted", 0) /\ outFile' = data
    /\ UNCHANGED <<data, verdicts, tmp, tminMode>>

MinimizerNext ==
    \/ NormalizeBlock \/ NextPass \/ DeleteBlock \/ AfterDeletion
    \/ ReplaceSymbol \/ AfterAlphabet \/ ReplaceCharacter \/ Finalize \/ AbortByUser
MinimizerSpec == (\E input \in Inputs, m \in Modes : MinimizerInit(input, m)) /\ [][MinimizerNext]_minimizerVars

-----------------------------------------------------------------------------
(* What afl-tmin writes behaves like the original, even if it is interrupted; and when it is not  *)
(* interrupted, taking away any single byte has been tried and changes the behaviour.  (Characters *)
(* made plain late may allow others to be: the last pass does not try them again.) *)
MinimalAndSame ==
    /\ outFile # NoFile => <<outFile, TRUE>> \in verdicts
    /\ step.stage = "done" =>
          \A i \in DOMAIN data :
             /\ <<Without(data, i - 1, 1), TRUE>> \notin verdicts
             /\ \E v \in verdicts : v[1] = Without(data, i - 1, 1)
=============================================================================
