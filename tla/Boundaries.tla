------------------------------ MODULE Boundaries ------------------------------
(***************************************************************************)
(* The sequential code where texts change hands, on the inputs that        *)
(* Exchanges grows: into SQL, logs and prompts, and out of models'         *)
(* answers.                                                                *)
(***************************************************************************)
EXTENDS Algorithms

CONSTANTS
    LogSafeMaxLength, Ordinal, Null, Malformed, Failure

Texts == INSTANCE Texts
Answers == INSTANCE ModelAnswers

-----------------------------------------------------------------------------
(* Texts. *)

\* A JSON text for a jsonb column loses its NULs, and nothing else: not even a
\* backslash that is written before the characters u0000.
NulsVanish == kind = "json" =>
    LET spelled(token) == CASE token = "backslash" -> <<"\\", "\\">> [] token = "nul" -> <<"\\", "u0000">>
                            [] token = "escape" -> <<"\\", "n">> [] OTHER -> <<token>>
        text(tokens) == FlattenSeq([i \in DOMAIN tokens |-> spelled(tokens[i])])
    IN  Texts!sanitizePostgresJSONB(text(input)) = text(SelectSeq(input, LAMBDA t : t \notin {"nul", "zero"}))

\* What is put in the place of a parameter stays there: a statement with its
\* values in it has no parameter left, whatever the values spell, and ends
\* inside a literal or a comment only if it did before.
InterpolationIsFinal == kind = "query" =>
    \A value \in {[type |-> "text", text |-> <<"'", "$1", "-", "-">>], [type |-> "text", text |-> <<>>],
                  [type |-> "number", text |-> <<"7">>]} :
        LET once == Texts!InterpolateParams(input, <<value>>)
            twice == Texts!InterpolateParams(once.out, <<[type |-> "number", text |-> <<"8">>]>>)
        IN  twice.out = once.out /\ twice.mode = once.mode

\* A log line shows the longest beginning of a text that fits, as a title does,
\* on one line, and says so if there was more.
CutsAgree == kind = "log" =>
    LET shown == Texts!Units(Texts!truncateChars(input, LogSafeMaxLength))
        line == Texts!EscapeLog(input)
    IN  /\ line = FlattenSeq([i \in DOMAIN shown |-> Texts!EscapedUnit(shown[i])])
                     \o (IF Len(Texts!Units(input)) > LogSafeMaxLength THEN <<"...[truncated]">> ELSE <<>>)
        /\ ToSet(line) \cap {"newline", "control"} = {}

\* Text for a prompt has no invisible characters, and nothing in it spells the
\* beginning of a fence, not even around such characters; text without either
\* is left alone.  A line made of it is one line of single blanks.
PromptsAreInert == kind = "prompt" =>
    LET fences(text) == \E i \in DOMAIN text : text[i] = "un" /\ Texts!At(text, i + 1) = "trusted"
        block == Texts!StripControlAndFormat(input)
        line == Texts!BoundedLine(input, 3)
    IN  /\ ~fences(block) /\ ToSet(block) \cap {"format", "control"} = {}
        /\ ~fences(input) /\ ToSet(input) \cap {"format", "control"} = {} => block = input
        /\ "newline" \notin ToSet(line) /\ Len(line) <= 4
        /\ \A i \in DOMAIN line : line[i] = " " => i > 1 /\ Texts!At(line, i + 1) \notin {" ", "end"}

\* A value of a .env file means what was meant: a text in quotes it does not
\* contain, whatever follows them, or one without quotes and comments.
QuotedValuesAreKept == kind = "value" =>
    LET clean(value) == Texts!cleanDotEnvValue(value)
        remark == <<" ", "#", "x">>
        comments == \E i \in DOMAIN input : input[i] = " " /\ Texts!At(input, i + 1) = "#"
    IN  /\ \A quote \in {"'", "dq"} \ ToSet(input) : clean(<<quote>> \o input \o <<quote>> \o remark) = input
        /\ ~comments /\ Texts!At(input, 1) \notin {"'", "dq"} /\ Texts!Trim(input) = input =>
              clean(input) = input /\ clean(input \o remark) = input

\* The object of an answer is found in whatever prose surrounds it.
ObjectsAreFound == kind = "object" =>
    LET prose == {<<>>, <<"x">>, <<" ", "x", " ">>} IN
    /\ Len(input) > 1 /\ Head(input) = "{" /\ Last(input) = "}" =>
          \A before, after \in prose : Texts!ExtractJSONObject(before \o input \o after) = input
    /\ Texts!ExtractJSONObject(Texts!ExtractJSONObject(input)) = Texts!ExtractJSONObject(input)

\* An analysis reads back as it was stored, its lists are never null, and a
\* call fails exactly if there is no text that decodes, of either provider.
AnalysesReadBack == kind = "wire" => \A first \in {Blank, Malformed} \cup ToSet(input), status \in {200, 500} :
    LET response == [arrived |-> TRUE, status |-> status, decoded |-> TRUE, candidates |-> <<<<first>>, input>>,
                     message |-> first, response |-> IF input = <<>> THEN Blank ELSE Head(input)]
        analysis == Answers!call(Answers!GeminiGenerateJSON(response))
    IN  /\ Answers!OllamaGenerateJSON(response) = Answers!GeminiGenerateJSON(response)
        /\ IF status = 500 \/ first = Malformed \/ (first = Blank /\ input = <<>>) THEN analysis = Failure
           ELSE /\ analysis # Failure
                /\ \A list \in {"flow", "agentActions", "issues", "recommendations"} : analysis[list] # Null
                /\ Answers!UnmarshalJSON(Answers!MarshalJSON(analysis)) = analysis

\* So does a proposal of the miner's, which keeps the rules the model gave
\* under either name.
ProposalsReadBack == kind = "wire" /\ input = <<>> =>
    \A wire \in [{"skills", "agentsRules", "rules", "toolingGaps"} -> {Null, <<>>, <<"x">>}] :
        LET p == Answers!Propose(wire) IN
        /\ Null \notin {p.skills, p.agentsRules, p.toolingGaps}
        /\ Answers!UnmarshalProposal(Answers!MarshalProposal(p)) = p
        /\ p.agentsRules = <<>> => <<"x">> \notin {wire.agentsRules, wire.rules} \/ wire.agentsRules = <<>>

TextsKeepTheirMeaning ==
    NulsVanish /\ InterpolationIsFinal /\ CutsAgree /\ PromptsAreInert /\ QuotedValuesAreKept
    /\ ObjectsAreFound /\ AnalysesReadBack /\ ProposalsReadBack

=============================================================================
