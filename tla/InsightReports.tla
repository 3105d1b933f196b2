--------------------------- MODULE InsightReports ---------------------------
(***************************************************************************)
(* The reports over many sessions (internal/insights): the fleet's tallies *)
(* (fleet.go, AggregateFleet), the sessions behind one item of a tally     *)
(* (SessionsFor), the patterns a miner finds (miner.go, MinePatterns) and  *)
(* the key errors are grouped by (error_normalizer.go).                    *)
(*                                                                         *)
(* A session is a record of its steps and its stored analysis.  A counter  *)
(* (orderedCounter) is the sequence of the names it was incremented with.  *)
(* Session ids and titles, durations and the wording of keys are left out; *)
(* a session is named by its position.                                     *)
(***************************************************************************)
EXTENDS Integers, Sequences, FiniteSets, FiniteSetsExt, SequencesExt

CONSTANTS
    Blank,          \* the empty string
    Missing,        \* a field that is not there
    NoAnalysis,     \* a session without a stored summary
    Cleaned,        \* text |-> the text trimmed and cut to 200 bytes; what the cut
                    \* makes of a character it divides is left out
    Lowered,        \* cleaned text |-> its lower-case form
    Width,          \* tool name |-> its length in bytes
    FleetTopN, MinerTopN, MinSequenceSessions, MaxDrilldown

Positions(s) == [i \in DOMAIN s |-> i]
FirstOf(s, n) == SubSeq(s, 1, Min({n, Len(s)}))
At(s, is) == [k \in DOMAIN is |-> s[is[k]]]

-----------------------------------------------------------------------------
(* orderedCounter *)

\* Where each name is seen first: the counter's "order".
Order(c) == SelectSeq(Positions(c), LAMBDA i : \A j \in 1..(i - 1) : c[j] # c[i])
Count(c, name) == Cardinality({i \in DOMAIN c : c[i] = name})
Tally(c, is) == [k \in DOMAIN is |-> [name |-> c[is[k]], count |-> Count(c, c[is[k]])]]

Before(c, i, j) == Count(c, c[i]) > Count(c, c[j]) \/ (Count(c, c[i]) = Count(c, c[j]) /\ i < j)
TopN(c, limit) ==
    Tally(c, FirstOf(SortSeq(Order(c), LAMBDA i, j : Before(c, i, j)), limit))

-----------------------------------------------------------------------------
(* What a session contributes. *)

\* A line of an error's text: [class, key], where key is what is left of it
\* when numbers, paths, quoted texts and hex values are replaced.
Lines(raw, class) == SelectSeq(raw, LAMBDA l : l.class = class)
Meaningful(raw) == SelectSeq(raw, LAMBDA l : l.class \notin {"blank", "metadata"})

SalientErrorLine(raw) ==
    LET strong == Lines(raw, "strong")
        weak == Lines(raw, "weak")
    IN  Head(IF strong # <<>> THEN strong ELSE IF weak # <<>> THEN weak ELSE Meaningful(raw))

NormalizeError(raw) ==
    IF Meaningful(raw) = <<>> THEN "Unknown error" ELSE SalientErrorLine(raw).key

IsStepError(step) ==
    \/ step.status = "ERROR" \/ step.type = "ERROR_MESSAGE"
    \/ step.type = "RUN_COMMAND" /\ step.commandFailed

StepErrorKey(step) ==
    IF step.type = "RUN_COMMAND" THEN "Command execution failed"
    ELSE NormalizeError(IF step.error # Missing THEN step.error ELSE step.content)

\* Mutant: a call without a name keeps its empty name.
NameAsGiven(name) == name
ToolName(name) == IF name = Blank THEN "unknown" ELSE name

ToolsOf(s) == LET called == FlattenSeq([i \in DOMAIN s.steps |-> s.steps[i].tools])
              IN  [i \in DOMAIN called |-> ToolName(called[i])]
ErrorsOf(s) == LET failed == SelectSeq(s.steps, IsStepError)
               IN  [i \in DOMAIN failed |-> StepErrorKey(failed[i])]
RecommendationsOf(s) ==
    IF s.analysis = NoAnalysis THEN <<>>
    ELSE SelectSeq([i \in DOMAIN s.analysis.recs |-> Cleaned[s.analysis.recs[i]]],
                   LAMBDA t : t # Blank)
IssuesOf(s) ==
    IF s.analysis = NoAnalysis THEN <<>>
    ELSE SelectSeq([i \in DOMAIN s.analysis.issues |->
                       [error |-> Cleaned[s.analysis.issues[i].error],
                        fix |-> Cleaned[s.analysis.issues[i].fix]]],
                   LAMBDA x : x.error # Blank)
IssueTextsOf(s) == LET is == IssuesOf(s) IN [i \in DOMAIN is |-> is[i].error]

-----------------------------------------------------------------------------
(* AggregateFleet and SessionsFor *)

AggregateFleet(sessions) ==
    LET all(Of(_)) == FlattenSeq([i \in DOMAIN sessions |-> Of(sessions[i])])
        failing == {i \in DOMAIN sessions : ErrorsOf(sessions[i]) # <<>>}
    IN  [toolCalls |-> Len(all(ToolsOf)),
         withErrors |-> Cardinality(failing),
         clean |-> Len(sessions) - Cardinality(failing),
         tool |-> TopN(all(ToolsOf), FleetTopN),
         error |-> TopN(all(ErrorsOf), FleetTopN),
         recommendation |-> TopN(all(RecommendationsOf), FleetTopN),
         issue |-> TopN(all(IssueTextsOf), FleetTopN)]

\* The distinct pairs and triples of consecutive calls, pairs first.
Grams(tools, n) == [i \in 1..Max({0, Len(tools) - n + 1}) |-> SubSeq(tools, i, i + n - 1)]
GramsOf(tools) == Grams(tools, 2) \o Grams(tools, 3)
SequencesInSteps(s) == LET grams == GramsOf(ToolsOf(s)) IN At(grams, Order(grams))

Matches(category, key, s) ==
    CASE category = "tool" -> Contains(ToolsOf(s), key)
      [] category = "error" -> Contains(ErrorsOf(s), key)
      [] category = "recommendation" -> Contains(RecommendationsOf(s), key)
      [] category = "issue" -> Contains(IssueTextsOf(s), key)
      [] category = "workflow" -> Contains(SequencesInSteps(s), key)

\* Nothing is listed for an empty key.
SessionsFor(category, key, sessions) ==
    IF key = Blank THEN <<>>
    ELSE SelectSeq(Positions(sessions), LAMBDA i : Matches(category, key, sessions[i]))

Drilldown(category, key, sessions) ==
    LET all == SessionsFor(category, key, sessions)
    IN  [totalMatches |-> Len(all), sessions |-> FirstOf(all, MaxDrilldown)]

-----------------------------------------------------------------------------
(* MinePatterns *)

\* " -> " between the names of a sequence takes five bytes.
GramWidth(g) == MapThenSumSet(LAMBDA i : Width[g[i]], DOMAIN g) + 5 * (Len(g) - 1)

\* A longer sequence comes before a shorter one that is as frequent.
Mined(c, i, j) ==
    \/ Count(c, c[i]) > Count(c, c[j])
    \/ /\ Count(c, c[i]) = Count(c, c[j])
       /\ \/ GramWidth(c[i]) > GramWidth(c[j])
          \/ GramWidth(c[i]) = GramWidth(c[j]) /\ i < j

TopMinedSequences(c) ==
    LET recurring == SelectSeq(Order(c), LAMBDA i : Count(c, c[i]) >= MinSequenceSessions)
    IN  Tally(c, FirstOf(SortSeq(recurring, LAMBDA i, j : Mined(c, i, j)), MinerTopN))

OfferFix(fix, candidate) == IF fix = Blank /\ candidate # Blank THEN candidate ELSE fix

\* One accumulator per error, whatever its case, under the text it is seen
\* with first; it counts a session once.
AddIssue(accs, session, issue) ==
    LET key == Lowered[issue.error]
        known == SelectInSeq(accs, LAMBDA a : a.key = key)
    IN  IF known = 0
        THEN Append(accs, [key |-> key, error |-> issue.error,
                           fix |-> OfferFix(Blank, issue.fix), sessions |-> {session}])
        ELSE [accs EXCEPT ![known].fix = OfferFix(@, issue.fix),
                          ![known].sessions = @ \cup {session}]

AddIssues(accs, session, issues) ==
    FoldLeft(LAMBDA as, issue : AddIssue(as, session, issue), accs, issues)

TopMinedFixes(accs) ==
    LET n(i) == Cardinality(accs[i].sessions)
        ranked == SortSeq(Positions(accs), LAMBDA i, j : n(i) > n(j) \/ (n(i) = n(j) /\ i < j))
        top == FirstOf(ranked, MinerTopN)
    IN  [k \in DOMAIN top |-> [error |-> accs[top[k]].error, fix |-> accs[top[k]].fix,
                               count |-> n(top[k])]]

MinePatterns(sessions) ==
    LET all(Of(_)) == FlattenSeq([i \in DOMAIN sessions |-> Of(sessions[i])])
        distinct(s) == LET r == RecommendationsOf(s) IN At(r, Order(r))
        accs == FoldLeft(LAMBDA as, i : AddIssues(as, i, IssuesOf(sessions[i])),
                         <<>>, Positions(sessions))
    IN  [workflow |-> TopMinedSequences(all(SequencesInSteps)),
         fixes |-> TopMinedFixes(accs),
         recommendation |-> TopN(all(distinct), MinerTopN)]

HasEvidence(p) == p.workflow # <<>> \/ p.fixes # <<>> \/ p.recommendation # <<>>

\* What MinerService.ForFlavor answers: the evidence, and the model's proposal
\* if there is evidence, a model is configured and it answers.
Mining(sessions, configured, proposal) ==
    LET p == MinePatterns(sessions)
    IN  [evidence |-> p, aiGenerated |-> HasEvidence(p) /\ configured /\ proposal # Missing]
=============================================================================
