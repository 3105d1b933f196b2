----------------------------- MODULE Algorithms -----------------------------
(***************************************************************************)
(* The sequential algorithms of the reports, the normalizers and the       *)
(* analysis, on the inputs that Exchanges grows.                           *)
(***************************************************************************)
EXTENDS Exchanges

CONSTANTS
    Missing, NoAnalysis,
    Cleaned, Lowered, Width, FleetTopN, MinerTopN, MinSequenceSessions, MaxDrilldown,
    MaxConsecutive, MaxSummary, MaxWorst, MaxDigest, Marker,
    FinalMax, OtherMaxEach, OtherBudget, MaxTokensPerChunk, MaxConsolidationTokens,
    AnswerTokens, MaxItems, MaxRecommendations, MaxSummaryChars, Bounded

Reports == INSTANCE InsightReports
Scoring == INSTANCE EvalScoring
Text == INSTANCE AnalysisText

-----------------------------------------------------------------------------
(* Reports over sessions. *)

SessionsWhere(P(_)) == {i \in DOMAIN input : P(input[i])}

\* A tally is in descending order, has an item once, and leaves out only what
\* is not more frequent than everything it lists.
Ranked(tally, counted, limit) ==
    LET names == {tally[k].name : k \in DOMAIN tally} IN
    /\ Len(tally) = Min({limit, Cardinality(ToSet(counted))}) /\ Cardinality(names) = Len(tally)
    /\ \A k \in 2..Len(tally) : tally[k].count <= tally[k - 1].count
    /\ \A x \in ToSet(counted) \ names : \A k \in DOMAIN tally :
          Cardinality({i \in DOMAIN counted : counted[i] = x}) <= tally[k].count

\* Every row of the fleet's report leads to the sessions behind it: each has
\* some, never more than it counts, and together the rows of a tally that is
\* not cut lead to every session that has a tool call, or an error.
FleetRowsLeadToSessions == kind = "sessions" =>
    LET report == Reports!AggregateFleet(input)
        behind(category) == UNION {ToSet(Reports!SessionsFor(category, row.name, input)) :
                                      row \in ToSet(report[category])}
    IN  /\ \A category \in {"tool", "error", "recommendation", "issue"} :
              \A row \in ToSet(report[category]) :
                 Len(Reports!SessionsFor(category, row.name, input)) \in 1..row.count
        /\ Len(report.error) < FleetTopN =>
              /\ behind("error") = SessionsWhere(LAMBDA s :
                    \E i \in DOMAIN s.steps : Reports!IsStepError(s.steps[i]))
              /\ Cardinality(behind("error")) = report.withErrors
        /\ Len(report.tool) < FleetTopN =>
              behind("tool") = SessionsWhere(LAMBDA s : \E i \in DOMAIN s.steps : s.steps[i].tools # <<>>)
        /\ Ranked(report.tool, FlattenSeq([i \in DOMAIN input |-> Reports!ToolsOf(input[i])]), FleetTopN)

\* The miner counts sessions: a row of its sequences or recommendations counts
\* exactly the sessions its drill-down lists.  A pair of an error and its fix
\* counts the sessions that have the error in whatever case, and has a fix if
\* any of them recorded one.
MinedRowsCountSessions == kind = "sessions" =>
    LET mined == Reports!Mining(input, TRUE, "proposal").evidence
        same(a, b) == Lowered[a] = Lowered[b]
        fixes(error) == UNION {{x.fix : x \in {y \in ToSet(Reports!IssuesOf(input[i])) : same(y.error, error)}} :
                                  i \in DOMAIN input}
    IN  /\ \A category \in {"workflow", "recommendation"} : \A row \in ToSet(mined[category]) :
              row.count = Reports!Drilldown(category, row.name, input).totalMatches
        /\ \A row \in ToSet(mined.workflow) : row.count >= MinSequenceSessions
        /\ \A row \in ToSet(mined.fixes) :
              /\ row.count = Cardinality(SessionsWhere(LAMBDA s :
                    \E x \in ToSet(Reports!IssuesOf(s)) : same(x.error, row.error)))
              /\ Len(Reports!SessionsFor("issue", row.error, input)) \in 1..row.count
              /\ row.fix \in fixes(row.error) /\ (row.fix = Blank => fixes(row.error) = {Blank})

\* The fix of a mined pair does not change as later sessions repeat the error.
MinedFixesStay == kind = "sessions" /\ input # <<>> =>
    \A old \in ToSet(Reports!MinePatterns(Front(input)).fixes),
       new \in ToSet(Reports!MinePatterns(input).fixes) :
          Lowered[old.error] = Lowered[new.error] =>
             old.error = new.error /\ old.count <= new.count /\ old.fix \in {Blank, new.fix}

\* The key of an error depends neither on blank and metadata lines nor on the
\* parts that vary, is never blank, and comes from a line with a stronger
\* signal wherever there is one.
ErrorKeysAreStable == kind = "error" =>
    LET key == Reports!NormalizeError(input)
        telling == SelectSeq(input, LAMBDA l : l.class \notin {"blank", "metadata"})
        best == IF \E l \in ToSet(telling) : l.class = "strong" THEN "strong"
                ELSE IF \E l \in ToSet(telling) : l.class = "weak" THEN "weak" ELSE "plain"
    IN  /\ key = Reports!NormalizeError(telling) /\ key # Blank
        /\ telling # <<>> => key \in {l.key : l \in {x \in ToSet(telling) : x.class = best}}

\* What a report says leads to the sessions it says it of, and stays said.
RowsLeadToSessions == FleetRowsLeadToSessions /\ MinedRowsCountSessions /\ MinedFixesStay /\ ErrorKeysAreStable

-----------------------------------------------------------------------------
(* Scores. *)

\* A summary is degenerate exactly if it has an over-long token or the same
\* word MaxConsecutive times in a row, in whatever case.
DegenerateMeansRepeated == kind = "summary" =>
    LET repeats == \E i \in DOMAIN input : i + MaxConsecutive - 1 <= Len(input)
                      /\ \A j \in i..(i + MaxConsecutive - 1) : input[j].word = input[i].word
    IN  Scoring!IsDegenerateText(input) <=> repeats \/ \E i \in DOMAIN input : input[i].long

\* In the evaluation and in the prompt lab, the mean lies between the lowest and
\* the highest score, and the checks passed are all accounted for; the worst cases
\* are the lowest scores there are.
FiguresAreOfTheResults == kind = "results" /\ input # <<>> =>
    LET eval == Scoring!ForFlavor(input)
        lab == Scoring!AggregateVariantResults(input)
        scores == Scoring!ScoresOf(input)
    IN  /\ \A mean \in {eval.avgScore, lab.avgScore} :
              mean \in (10 * Min(ToSet(scores)))..(10 * Max(ToSet(scores)))
        /\ \A rates \in {eval.passRates, lab.checkPassRates} :
              MapThenSumSet(LAMBDA c : rates[c], Scoring!CheckNames)
                 = MapThenSumSet(LAMBDA i : Cardinality(input[i]), DOMAIN input)
        /\ \A i \in DOMAIN input \ ToSet(eval.worst) : \A w \in ToSet(eval.worst) : scores[w] <= scores[i]

\* A digest shows the steps in order from the first, is longer than its bound
\* by a line and the marker at most, and leaves nothing out unless it says so.
DigestsArePrefixes == kind = "digest" =>
    \A forJudge \in BOOLEAN :
        LET d == IF forJudge THEN Scoring!BuildJudgeDigest(input) ELSE Scoring!OptimizeTranscriptText(input)
            shown == {i \in DOMAIN input : Scoring!LineWidth(input[i], forJudge) > 0}
        IN  /\ \A i \in shown \ ToSet(d.lines), j \in ToSet(d.lines) : j < i
            /\ ToSet(d.lines) # shown => d.cut
            /\ d.bytes < MaxDigest + Max({0} \cup {input[i].width : i \in DOMAIN input}) + Marker

\* The figures and digests of the evaluation and of the prompt lab are right.
ScoresAgree == DegenerateMeansRepeated /\ FiguresAreOfTheResults /\ DigestsArePrefixes

-----------------------------------------------------------------------------
(* Transcripts. *)

\* A conversation is written down by each agent in its own format: one item per
\* line by Codex, and by Claude Code in messages of one or more blocks.  An
\* event is [by, text, failed].
CodexLine(e) == [outer |-> "response_item", kind |-> e.by, text |-> e.text, failed |-> e.failed]
Side(e) == CASE e.by = "user" -> "prompt" [] e.by = "function_call_output" -> "user" [] OTHER -> "assistant"
Block(e) == [type |-> CASE e.by = "assistant" -> "text" [] e.by = "reasoning" -> "thinking"
                        [] e.by = "function_call" -> "tool_use" [] OTHER -> "tool_result",
             text |-> e.text, failed |-> e.failed]
Message(e) == IF e.by = "user" THEN [type |-> "user", text |-> e.text, blocks |-> <<>>]
              ELSE [type |-> Side(e), text |-> NoText, blocks |-> <<Block(e)>>]

\* Blocks of one side join the message before them, except where "apart" says.
ClaudeLines(events, apart) == FoldLeftDomain(LAMBDA lines, i :
    IF i > 1 /\ i \notin apart /\ events[i].by # "user" /\ Side(events[i]) = Side(events[i - 1])
    THEN [lines EXCEPT ![Len(lines)].blocks = Append(@, Block(events[i]))]
    ELSE Append(lines, Message(events[i])), <<>>, events)

\* The same conversation gives the same steps, whichever agent wrote it down
\* and however its messages are divided.
FormatsAgree == kind = "conversation" =>
    LET steps == Steps!CodexToTimelineSteps([i \in DOMAIN input |-> CodexLine(input[i])])
    IN  \A apart \in SUBSET DOMAIN input :
           Steps!ClaudeCodeToTimelineSteps(ClaudeLines(input, apart)) = steps

\* A title, once found, stays as the transcript grows, until a line of a kind
\* that decides comes first: a user_message event, or a summary.
TitlesStay == (kind \in {"codex", "claude"} /\ input # <<>>) =>
    LET title(lines) == IF kind = "codex" THEN Steps!CodexDeriveShortTitle(lines)
                        ELSE Steps!ClaudeCodeDeriveShortTitle(lines)
        deciding(l) == /\ l.text # Blank
                       /\ IF kind = "codex" THEN l.outer = "event_msg" /\ l.kind = "user_message"
                          ELSE l.type = "summary"
        decided == \E i \in DOMAIN Front(input) : deciding(input[i])
    IN  /\ title(Front(input)) # Blank /\ title(Front(input)) # title(input) =>
              deciding(Last(input)) /\ ~decided
        /\ decided => title(input) = title(Front(input))
        /\ deciding(Last(input)) /\ ~decided => title(input) = Last(input).text

\* The files accepted are the first of those with a path and a content that is
\* not too long, as many as fit; one that is dropped takes nobody's place.
FilesAreTheFirst == kind = "files" =>
    LET good == SelectSeq(input, LAMBDA f : f.path # Blank /\ f.chars <= MaxFileChars)
    IN  Steps!AcceptableFiles(input) = SubSeq(good, 1, Min({MaxFilesPerSession, Len(good)}))

\* A transcript reads the same whoever wrote it down, and as it grows.
TranscriptsReadAlike == FormatsAgree /\ TitlesStay /\ FilesAreTheFirst

-----------------------------------------------------------------------------
(* What the model is sent, and what is made of its answers. *)

Expanded(sequence) == FlattenSeq([i \in DOMAIN sequence |-> [n \in 1..sequence[i].times |-> sequence[i].line]])
AllLines(sequences) == FlattenSeq([i \in DOMAIN sequences |-> Expanded(sequences[i])])
SequencesOf(steps) == IF kind = "antigravity" THEN Text!ParseSequences(steps)
                      ELSE Text!ToAnalysisSequences(steps)

\* Every request of the user begins a sequence and every sequence but the first
\* begins with one; requests, calls, and failures that are not the user's or the
\* model's own, are all there, with runs of equal lines counted, not lost.
NoStepIsLost == kind \in {"steps", "antigravity"} =>
    LET sequences == SequencesOf(input)
        lines == AllLines(sequences)
        byUser(s) == s.type = "USER_INPUT" \/ s.source = "USER_EXPLICIT"
        byModel(s) == s.type = "PLANNER_RESPONSE" \/ s.source = "MODEL"
        asked == SelectSeq(input, byUser)
        told(label) == SelectSeq(lines, LAMBDA l : l.label = label)
    IN  /\ \A i \in DOMAIN sequences : sequences[i] # <<>> /\ \A j \in DOMAIN sequences[i] :
              /\ i > 1 /\ j = 1 => sequences[i][j].line.label = "USER REQUEST"
              /\ sequences[i][j].line.label = "USER REQUEST" => j = 1 /\ sequences[i][j].times = 1
        /\ [i \in DOMAIN told("USER REQUEST") |-> told("USER REQUEST")[i].text] = [i \in DOMAIN asked |-> asked[i].text]
        /\ Len(told("AGENT ACTION")) =
              MapThenSumSet(LAMBDA i : input[i].calls, DOMAIN input)
        /\ Len(told("SYSTEM EVENT/ERROR")) =
              Cardinality({i \in DOMAIN input : input[i].failed /\ ~byUser(input[i]) /\ ~byModel(input[i])})

\* The last message is sent up to FinalMax; the others share OtherBudget, each
\* with OtherMaxEach at most, and the earlier come first.
MessagesKeepTheBudget == kind = "steps" =>
    LET said == SelectSeq(input, LAMBDA s : s.type = "MESSAGE" /\ s.text # Blank)
        sent == SelectSeq(AllLines(Text!ToAnalysisSequences(input)), LAMBDA l : l.label = "ASSISTANT")
        others == MapThenSumSet(LAMBDA i : sent[i].chars, 1..(Len(sent) - 1))
    IN  IF said = <<>> THEN sent = <<>>
        ELSE /\ Last(sent).text = Last(said).text /\ Last(sent).chars = Min({Last(said).chars, FinalMax})
             /\ \A i \in 1..(Len(sent) - 1) :
                   sent[i].text = said[i].text /\ sent[i].chars <= OtherMaxEach
             /\ others <= OtherBudget
             /\ Len(sent) < Len(said) => others = OtherBudget

\* A failure the reports count is shown to the model, for every agent whose
\* transcript is normalized.
FailuresReachTheModel == kind = "conversation" =>
    LET steps == Steps!CodexToTimelineSteps([i \in DOMAIN input |-> CodexLine(input[i])])
        given == [i \in DOMAIN steps |-> [type |-> steps[i].type, text |-> steps[i].text,
                                          failed |-> steps[i].failed, chars |-> 1]]
    IN  Len(SelectSeq(AllLines(Text!ToAnalysisSequences(given)), LAMBDA l : l.label = "SYSTEM EVENT/ERROR"))
           = Len(SelectSeq(steps, LAMBDA s : s.failed))

\* The model is told of every step it has to know about.
ModelSeesEveryStep == NoStepIsLost /\ MessagesKeepTheBudget /\ FailuresReachTheModel

\* Every line is in one chunk, in order, and a chunk of more than one line is
\* within the budget, whether or not tokens can be counted.
ChunksCoverTheLines == kind = "chunks" =>
    \A counts \in BOOLEAN :
        LET chunks == Text!SplitIntoSafeChunks(input, counts) IN
        /\ FlattenSeq([i \in DOMAIN chunks |-> [k \in 1..(chunks[i][2] - chunks[i][1] + 1) |-> chunks[i][1] + k - 1]])
              = [k \in DOMAIN input |-> k]
        /\ \A i \in DOMAIN chunks : chunks[i][1] < chunks[i][2] =>
              Text!Tokens(input, chunks[i][1], chunks[i][2], counts) <= MaxTokensPerChunk

\* Every answer is consolidated once, in order; a prompt with several answers
\* is within the budget; and n answers take fewer than 2n calls.
AnswersAreConsolidatedOnce == kind = "answers" /\ input # <<>> =>
    LET prompts == Text!ConsolidationPrompts(input) IN
    /\ FlattenSeq([i \in DOMAIN prompts |-> prompts[i].of]) = [k \in DOMAIN input |-> k]
    /\ \A p \in ToSet(prompts) : Len(p.of) > 1 => p.tokens <= MaxConsolidationTokens
    /\ Len(prompts) < 2 * Len(input)
    /\ Last(prompts).of = <<>> \/ Len(prompts) = 1

\* A list of what was given, without repetitions, is as long as its limit
\* allows, and has an item twice only if two texts are cut to it.
ListsWhatFits(listed, given, limit) ==
    /\ Len(listed) = Min({limit, Cardinality({t \in given : Bounded[t] # Blank})})
    /\ \A item \in ToSet(listed) :
          Cardinality({i \in DOMAIN listed : listed[i] = item})
             \in 1..Cardinality({t \in given : Bounded[t] = item})

\* A local merge leaves out what is past a limit and nothing else: its lists are
\* full or have every item; a summary that ends within MaxSummaryChars of the
\* joined text is there, whole and in its place; the text says that it was cut
\* exactly if it was; and normalizing the merge again changes nothing.
MergesKeepWhatFits == kind = "partials" =>
    LET merged == Text!LocalMerge(input)
        given(Of(_)) == UNION {ToSet(Of(input[i])) : i \in DOMAIN input}
        actions == FlattenSeq([i \in DOMAIN input |-> input[i].actions])
        written == {i \in DOMAIN input : input[i].summary # <<>>}
        end(i) == 1 + MapThenSumSet(LAMBDA j : Len(input[j].summary), written \cap 1..i)
                    + Cardinality(written \cap 1..i) - 1
        cut == \E i \in written : end(i) > MaxSummaryChars
    IN  /\ Text!Normalize(merged) = merged
        /\ ListsWhatFits(merged.flow, given(LAMBDA p : p.flow), MaxItems)
        /\ ListsWhatFits(merged.recommendations, given(LAMBDA p : p.recommendations), MaxRecommendations)
        /\ Len(merged.actions) = Min({MaxItems, Len(SelectSeq(actions, LAMBDA t : Bounded[t] # Blank))})
        /\ \A i \in written : end(i) <= MaxSummaryChars =>
              SubSeq(merged.summary, end(i) - Len(input[i].summary) + 1, end(i)) = input[i].summary
        /\ Last(merged.summary) = "..." <=> cut
        /\ cut => Len(merged.summary) = MaxSummaryChars + 1

\* From the lines of a transcript to the stored analysis, only the limits of
\* what is stored leave anything out.
OnlyLimitsLeaveOut == ChunksCoverTheLines /\ AnswersAreConsolidatedOnce /\ MergesKeepWhatFits
=============================================================================
