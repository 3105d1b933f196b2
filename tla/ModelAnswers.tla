----------------------------- MODULE ModelAnswers -----------------------------
(***************************************************************************)
(* What is made of a model's answer (internal/ai/models.go): the text of   *)
(* the HTTP response, and the analysis, verdict or proposal it spells.     *)
(*                                                                         *)
(* A response is [arrived, status, decoded] and its texts, in the format   *)
(* of the provider.  A text is what its JSON object decodes to, or         *)
(* Malformed; a list that JSON lacks or has as null is Null.  An item of a *)
(* flow is a tuple of its parts.                                           *)
(***************************************************************************)
EXTENDS Integers, Sequences, SequencesExt

CONSTANTS Blank, Null, Malformed, Failure

\* The first of the texts that is not blank, of a response that has one.
FirstText(response, texts) ==
    LET written == SelectSeq(texts, LAMBDA t : t # Blank) IN
    IF ~response.arrived \/ response.status \notin 200..299 \/ ~response.decoded \/ written = <<>>
    THEN Failure ELSE Head(written)

\* Gemini answers with candidates, each a sequence of parts.
GeminiGenerateJSON(response) == FirstText(response, FlattenSeq(response.candidates))

\* Ollama answers with a message, or with a response.
OllamaGenerateJSON(response) == FirstText(response, <<response.message, response.response>>)

-----------------------------------------------------------------------------

nonNil(list) == IF list = Null THEN <<>> ELSE list

\* An object of a flow: its action and its description, where it has them.
FlowText(obj) == SelectSeq(<<obj.action, obj.description>>, LAMBDA s : s # Blank)

\* A flow is [of, items]: strings, objects, or something else.
parseFlexibleStringSlice(flow) ==
    CASE flow = Null -> <<>>
      [] flow # Null /\ flow.of = "strings" -> flow.items
      [] flow # Null /\ flow.of = "objects" ->
            SelectSeq([i \in DOMAIN flow.items |-> FlowText(flow.items[i])], LAMBDA s : s # <<>>)
      [] OTHER -> <<>>

UnmarshalJSON(wire) == [wire EXCEPT
    !.flow = parseFlexibleStringSlice(@), !.agentActions = nonNil(@), !.issues = nonNil(@),
    !.recommendations = nonNil(@)]

MarshalJSON(analysis) == [analysis EXCEPT
    !.flow = [of |-> "strings", items |-> nonNil(@)], !.agentActions = nonNil(@), !.issues = nonNil(@),
    !.recommendations = nonNil(@)]

\* What a service makes of the model's text, its object decoded.
call(raw) == IF raw \in {Failure, Malformed} THEN Failure ELSE UnmarshalJSON(raw)

-----------------------------------------------------------------------------

\* A proposal names its rules "agentsRules" or "rules".
UnmarshalProposal(wire) ==
    [skills |-> nonNil(wire.skills), toolingGaps |-> nonNil(wire.toolingGaps),
     agentsRules |-> IF wire.agentsRules # Null THEN wire.agentsRules ELSE nonNil(wire.rules)]

Propose(raw) == IF raw \in {Failure, Malformed} THEN Failure ELSE UnmarshalProposal(raw)

MarshalProposal(p) ==
    [skills |-> nonNil(p.skills), agentsRules |-> nonNil(p.agentsRules), rules |-> Null,
     toolingGaps |-> nonNil(p.toolingGaps)]
=============================================================================
