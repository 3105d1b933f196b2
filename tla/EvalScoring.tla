----------------------------- MODULE EvalScoring -----------------------------
(***************************************************************************)
(* How an analysis is graded without a model (internal/insights/eval.go,   *)
(* ScoreSession), how the grades of many sessions are put together         *)
(* (ForFlavor, and aggregateVariantResults of optimize.go), and the digest *)
(* of a transcript that is sent to a judge (buildJudgeDigest) or to the    *)
(* prompt lab (optimizeTranscriptText).                                    *)
(*                                                                         *)
(* A text is the sequence of its tokens (of blanks, <<>>); a result is the *)
(* set of the checks that passed.  A mean is kept in tenths, exactly, where the code rounds  *)
(* a float64.                                                              *)
(***************************************************************************)
EXTENDS Integers, Sequences, FiniteSets, FiniteSetsExt, SequencesExt

CONSTANTS
    MaxConsecutive,     \* 6 in the code
    MaxSummary,         \* bytes of a concise summary: 2000 in the code
    MaxWorst,           \* worst cases listed: 10 in the code
    MaxDigest,          \* bytes after which a digest is cut: 6000 or 12000
    Marker              \* the bytes of "...(truncated)"

CheckNames == {"schema-complete", "has-recommendations", "issues-have-fixes",
               "concise-summary", "not-degenerate", "error-coverage"}

-----------------------------------------------------------------------------
(* ScoreSession *)

\* A token is [word, form, long]: words are compared without regard to case.
SameWord(a, b) == a.word = b.word

\* The length of the run of equal tokens that ends at each token.  Mutant: the
\* run is not ended by another token.
RunsOverall(text) ==
    FoldLeftDomain(LAMBDA runs, i :
        Append(runs, IF i > 1 /\ SameWord(text[i], text[i - 1]) THEN runs[i - 1] + 1
                     ELSE IF i > 1 THEN runs[i - 1] ELSE 1), <<>>, text)
Runs(text) ==
    FoldLeftDomain(LAMBDA runs, i :
        Append(runs, IF i > 1 /\ SameWord(text[i], text[i - 1]) THEN runs[i - 1] + 1 ELSE 1),
        <<>>, text)

IsDegenerateText(text) ==
    \/ \E i \in DOMAIN text : text[i].long
    \/ \E i \in 2..Len(text) : Runs(text)[i] >= MaxConsecutive

\* An analysis is [title, summary, bytes, flow, recs, fixes]: the tokens of the
\* summary and its length, blanks included, a flow of Nat or -1 if there is none,
\* and for every issue whether it has a fix.  A summary of blanks alone has no
\* token, and yet is one that is concise.
Passed(hadError, a) == {c \in CheckNames :
    CASE c = "schema-complete" -> a.title /\ a.summary # <<>> /\ a.flow > 0
      [] c = "has-recommendations" -> a.recs > 0
      [] c = "issues-have-fixes" -> \A i \in DOMAIN a.fixes : a.fixes[i]
      [] c = "concise-summary" -> a.bytes > 0 /\ a.bytes <= MaxSummary
      [] c = "not-degenerate" -> ~IsDegenerateText(a.summary)
      [] c = "error-coverage" -> hadError => a.fixes # <<>>}

\* round(100 * passed / checks)
Score(passed) == (200 * Cardinality(passed) + 6) \div 12

-----------------------------------------------------------------------------
(* The figures of many results. *)

Sum(scores) == FoldLeft(+, 0, scores)
Tenths(sum, n) == (20 * sum + n) \div (2 * n)

Average(scores) == IF scores = <<>> THEN 0 ELSE Tenths(Sum(scores), Len(scores))

PassRates(results) ==
    [c \in CheckNames |-> Cardinality({i \in DOMAIN results : c \in results[i]})]

\* A stable sort by score, and the first MaxWorst of it.
Worse(scores, i, j) == scores[i] < scores[j] \/ (scores[i] = scores[j] /\ i < j)
WorstCases(scores) ==
    LET ranked == SortSeq([i \in DOMAIN scores |-> i], LAMBDA i, j : Worse(scores, i, j))
    IN  SubSeq(ranked, 1, Min({MaxWorst, Len(ranked)}))

ScoresOf(results) == [i \in DOMAIN results |-> Score(results[i])]

ForFlavor(results) ==
    [evaluated |-> Len(results), avgScore |-> Average(ScoresOf(results)),
     passRates |-> PassRates(results), worst |-> WorstCases(ScoresOf(results))]

AggregateVariantResults(results) ==
    [scored |-> Len(results), avgScore |-> Average(ScoresOf(results)),
     checkPassRates |-> PassRates(results)]

-----------------------------------------------------------------------------
(* Digests *)

\* A step is [kind, width]: a tool call, an error, what the user or the agent
\* says (left out if it is blank), and the bytes of its line.  The judge is not
\* shown what the agent says.
LineWidth(step, forJudge) ==
    IF \/ step.kind \in {"user", "agent"} /\ step.width = 0
       \/ step.kind = "agent" /\ forJudge
    THEN 0 ELSE step.width

Full(bytes) == bytes >= MaxDigest

\* [lines: positions of the steps shown, bytes, cut], one step at a time.
Digest(steps, forJudge) ==
    FoldLeftDomain(LAMBDA d, i :
        IF d.cut THEN d
        ELSE IF Full(d.bytes) THEN [d EXCEPT !.cut = TRUE, !.bytes = @ + Marker]
        ELSE IF LineWidth(steps[i], forJudge) = 0 THEN d
        ELSE [d EXCEPT !.lines = Append(@, i), !.bytes = @ + LineWidth(steps[i], forJudge)],
        [lines |-> <<>>, bytes |-> 0, cut |-> FALSE], steps)

BuildJudgeDigest(steps) == Digest(steps, TRUE)
OptimizeTranscriptText(steps) == Digest(steps, FALSE)
=============================================================================
