---------------------------- MODULE AnalysisText ----------------------------
(***************************************************************************)
(* What an analysis sends to the model: the lines made of a session's      *)
(* steps (transcript/sequences.go, ToAnalysisSequences, and antigravity.go,*)
(* ParseSequences), the chunks they are split into (SplitIntoSafeChunks),  *)
(* and how the answers are put together again (ai/orchestrator.go,         *)
(* recursivelyConsolidate, Normalize, LocalMerge).                         *)
(*                                                                         *)
(* A step is [type, text, chars, failed]; a line is [label, text, chars].  *)
(* Lines and answers are counted in characters, a token being a fixed      *)
(* number of them; the length of labels and separators is left out.  The    *)
(* text of a summary, which merging cuts, is the sequence of its characters,*)
(* without the blanks and control characters at its ends that are removed.  *)
(***************************************************************************)
EXTENDS Integers, Sequences, FiniteSets, FiniteSetsExt, SequencesExt

CONSTANTS
    Blank,
    FinalMax, OtherMaxEach, OtherBudget,    \* 2000, 500, 2000
    MaxTokensPerChunk, MaxConsolidationTokens,
    AnswerTokens,                           \* a consolidated analysis
    MaxItems, MaxRecommendations,           \* 40, 30
    MaxSummaryChars,                        \* 8000
    Bounded                                 \* item |-> item cut to MaxItemChars

Line(label, step, limit) ==
    [label |-> label, text |-> step.text, chars |-> Min({step.chars, limit})]

-----------------------------------------------------------------------------
(* DeduplicateSequence: a run of equal lines becomes one, with its length. *)

SameAsLast(runs, line) == runs # <<>> /\ Last(runs).line = line

DeduplicateSequence(lines) == FoldLeft(LAMBDA runs, line :
    IF SameAsLast(runs, line) THEN [runs EXCEPT ![Len(runs)].times = @ + 1]
    ELSE Append(runs, [line |-> line, times |-> 1]), <<>>, lines)

-----------------------------------------------------------------------------
(* ToAnalysisSequences, for Codex and Claude Code *)

IsMessage(s) == s.type = "MESSAGE" /\ s.text # Blank
LastMessageIndex(steps) == SelectLastInSeq(steps, IsMessage)

AnalysisLine(s) ==
    CASE s.type = "USER_INPUT" -> <<Line("USER REQUEST", s, 2000)>>
      [] s.type = "FUNCTION_CALL" -> <<Line("AGENT ACTION", s, 2000)>>
      [] s.type = "FUNCTION_OUTPUT" /\ s.failed -> <<Line("SYSTEM EVENT/ERROR", s, 500)>>
      [] OTHER -> <<>>

\* Mutant: a message is cut to its own maximum, whatever is left.
LimitEach(budget) == OtherMaxEach
LimitOther(budget) == Min({OtherMaxEach, budget})

\* The line of a step and the budget left after it.
Condense(steps, i, budget) ==
    LET s == steps[i] IN
    IF s.type # "MESSAGE" THEN [lines |-> AnalysisLine(s), budget |-> budget]
    ELSE IF s.text = Blank THEN [lines |-> <<>>, budget |-> budget]
    ELSE IF i = LastMessageIndex(steps)
         THEN [lines |-> <<Line("ASSISTANT", s, FinalMax)>>, budget |-> budget]
    ELSE IF budget > 0
         THEN LET line == Line("ASSISTANT", s, LimitOther(budget))
              IN  [lines |-> <<line>>, budget |-> budget - line.chars]
    ELSE [lines |-> <<>>, budget |-> budget]

Close(done, current) ==
    IF current = <<>> THEN done ELSE Append(done, DeduplicateSequence(current))

Splits(step) == step.type = "USER_INPUT"

ToAnalysisSequences(steps) ==
    LET end == FoldLeftDomain(LAMBDA a, i :
            LET c == Condense(steps, i, a.budget) IN
            IF c.lines = <<>> THEN a
            ELSE IF Splits(steps[i])
                 THEN [done |-> Close(a.done, a.current), current |-> c.lines, budget |-> c.budget]
            ELSE [a EXCEPT !.current = @ \o c.lines, !.budget = c.budget],
            [done |-> <<>>, current |-> <<>>, budget |-> OtherBudget], steps)
    IN  Close(end.done, end.current)

-----------------------------------------------------------------------------
(* ParseSequences, for Antigravity: a step has the types of that format, any *)
(* number of calls (its text, times "calls"), and "source".                  *)

AntigravityLines(s) ==
    IF s.type = "USER_INPUT" \/ s.source = "USER_EXPLICIT" THEN <<Line("USER REQUEST", s, 2000)>>
    ELSE IF s.type = "PLANNER_RESPONSE" \/ s.source = "MODEL"
         THEN [i \in 1..s.calls |-> Line("AGENT ACTION", s, 2000)]
    ELSE IF s.failed THEN <<Line("SYSTEM EVENT/ERROR", s, 500)>>
    ELSE <<>>

ParseSequences(steps) ==
    LET end == FoldLeft(LAMBDA a, s :
            IF s.type = "USER_INPUT" \/ s.source = "USER_EXPLICIT"
            THEN [done |-> Close(a.done, a.current), current |-> AntigravityLines(s)]
            ELSE [a EXCEPT !.current = @ \o AntigravityLines(s)],
            [done |-> <<>>, current |-> <<>>], steps)
    IN  Close(end.done, end.current)

-----------------------------------------------------------------------------
(* SplitIntoSafeChunks and buildChunks: a line is its length. *)

CharsOf(chars, lo, hi) == MapThenSumSet(LAMBDA i : chars[i], lo..hi)

\* The counter's answer, or half the characters if it fails.
Tokens(chars, lo, hi, counts) ==
    CharsOf(chars, lo, hi) \div (IF counts THEN 4 ELSE 2)

\* The chunks of lines lo..hi, as pairs of positions.
FirstHalf(lo, hi) == lo + (hi - lo + 1) \div 2 - 1

SplitIntoSafeChunks(chars, counts) ==
    LET n == Len(chars)
        split[lo \in 1..(n + 1), hi \in 0..n] ==
            IF lo > hi THEN <<>>
            ELSE IF Tokens(chars, lo, hi, counts) <= MaxTokensPerChunk \/ lo = hi THEN <<<<lo, hi>>>>
            ELSE split[lo, FirstHalf(lo, hi)] \o split[lo + (hi - lo + 1) \div 2, hi]
    IN  split[1, n]

-----------------------------------------------------------------------------
(* recursivelyConsolidate: the prompts sent for answers lo..hi, in order.    *)
(* "of" is the answers of the chunks in a prompt; a prompt that joins two    *)
(* consolidated halves has none.                                             *)

SizeOf(sizes, lo, hi) == MapThenSumSet(LAMBDA i : sizes[i], lo..hi)

\* Mutant: a prompt of two answers is sent whatever its size.
FitsPair(sizes, lo, hi) == hi <= lo + 1 \/ SizeOf(sizes, lo, hi) <= MaxConsolidationTokens
Fits(sizes, lo, hi) == lo = hi \/ SizeOf(sizes, lo, hi) <= MaxConsolidationTokens

ConsolidationPrompts(sizes) ==
    LET n == Len(sizes)
        prompts[lo \in 1..(n + 1), hi \in 0..n] ==
            IF lo > hi \/ Fits(sizes, lo, hi)
            THEN <<[of |-> [i \in 1..(hi - lo + 1) |-> lo + i - 1], tokens |-> SizeOf(sizes, lo, hi)]>>
            ELSE LET mid == lo + (hi - lo + 1) \div 2
                 IN  prompts[lo, mid - 1] \o prompts[mid, hi]
                     \o <<[of |-> <<>>, tokens |-> 2 * AnswerTokens]>>
    IN  prompts[1, n]

-----------------------------------------------------------------------------
(* Normalize and LocalMerge: an answer is [title, flow, actions,             *)
(* recommendations, summary]; actions stand for the issues as well, which    *)
(* have the same limit and rule.                                             *)

\* The first items that are not blank, as many as the limit allows.
Kept(items, limit) ==
    LET cleaned == SelectSeq([i \in DOMAIN items |-> Bounded[items[i]]], LAMBDA t : t # Blank)
    IN  SubSeq(cleaned, 1, Min({limit, Len(cleaned)}))

\* Mutant: a text of exactly the allowed length is cut as well.
BoundedTextEarly(text, maxChars) ==
    IF Len(text) < maxChars THEN text ELSE Append(SubSeq(text, 1, maxChars), "...")
BoundedText(text, maxChars) ==
    IF Len(text) <= maxChars THEN text ELSE Append(SubSeq(text, 1, maxChars), "...")

Normalize(r) ==
    [title |-> IF Bounded[r.title] = Blank THEN "Session Summary" ELSE Bounded[r.title],
     flow |-> Kept(r.flow, MaxItems), actions |-> Kept(r.actions, MaxItems),
     recommendations |-> Kept(r.recommendations, MaxRecommendations),
     summary |-> BoundedText(r.summary, MaxSummaryChars)]

AddNew(seen, item) == IF item = Blank \/ Contains(seen, item) THEN seen ELSE Append(seen, item)

\* The note "(Combined from ...)" before the summaries and the blank line between
\* two of them count as a character each.
Combined(summaries) == FoldLeft(LAMBDA text, s :
    IF s = <<>> THEN text ELSE text \o (IF Len(text) = 1 THEN s ELSE <<"break">> \o s),
    <<"note">>, summaries)

\* What is joined is normalized: of many or long summaries only the beginning of
\* the joined text is kept.
LocalMerge(partials) ==
    LET titled == SelectSeq(partials, LAMBDA p : p.title # Blank)
        all(Of(_)) == FlattenSeq([i \in DOMAIN partials |-> Of(partials[i])])
    IN  Normalize(
          [title |-> IF titled = <<>> THEN "Session Summary" ELSE titled[1].title,
           flow |-> FoldLeft(AddNew, <<>>, all(LAMBDA p : p.flow)),
           actions |-> all(LAMBDA p : p.actions),
           recommendations |-> FoldLeft(AddNew, <<>>, all(LAMBDA p : p.recommendations)),
           summary |-> Combined([i \in DOMAIN partials |-> partials[i].summary])])
=============================================================================
