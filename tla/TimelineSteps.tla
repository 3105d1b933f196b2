---------------------------- MODULE TimelineSteps ----------------------------
(***************************************************************************)
(* The normalizers (internal/transcript): a pushed transcript, line by     *)
(* line, becomes the steps that are stored, and a title; and the files the *)
(* push attaches are sifted (ingestor.go, acceptableFiles).                *)
(*                                                                         *)
(* A line is a record of what the code looks at; a line that is blank or   *)
(* does not parse has the kind "other".  A text is a member of a set, with *)
(* Blank for one of white space only.  A step is [type, text, failed].     *)
(* Timestamps and the arguments of tool calls are left out.                *)
(***************************************************************************)
EXTENDS Integers, Sequences, FiniteSets, SequencesExt

CONSTANTS
    Blank,
    NoText,                 \* content that is not a string
    MaxFilesPerSession,     \* 50 in the code
    MaxFileChars

Step(type, text, failed) == <<[type |-> type, text |-> text, failed |-> failed]>>
StepUnlessBlank(type, text, failed) == IF text = Blank THEN <<>> ELSE Step(type, text, failed)

-----------------------------------------------------------------------------
(* Codex: one line, one item. *)

\* A line is [outer, kind, text, failed].
CodexStepFor(l) ==
    CASE l.kind = "user" -> StepUnlessBlank("USER_INPUT", l.text, FALSE)
      [] l.kind = "assistant" -> StepUnlessBlank("MESSAGE", l.text, FALSE)
      [] l.kind = "function_call" -> Step("FUNCTION_CALL", l.text, FALSE)
      [] l.kind = "function_call_output" -> StepUnlessBlank("FUNCTION_OUTPUT", l.text, l.failed)
      [] l.kind = "reasoning" -> StepUnlessBlank("REASONING", l.text, FALSE)
      [] OTHER -> <<>>

CodexToTimelineSteps(lines) == FlattenSeq([i \in DOMAIN lines |->
    IF lines[i].outer = "response_item" THEN CodexStepFor(lines[i]) ELSE <<>>])

-----------------------------------------------------------------------------
(* Claude Code: a line is [type, text, blocks]: a message whose content is a *)
(* string, or a list of blocks [type, text, failed].                         *)

UserBlock(b) == IF b.type = "tool_result" THEN StepUnlessBlank("FUNCTION_OUTPUT", b.text, b.failed)
                ELSE <<>>

AssistantBlock(b) ==
    CASE b.type = "text" -> StepUnlessBlank("MESSAGE", b.text, FALSE)
      [] b.type = "thinking" -> StepUnlessBlank("REASONING", b.text, FALSE)
      [] b.type = "tool_use" -> Step("FUNCTION_CALL", b.text, FALSE)
      [] OTHER -> <<>>

\* Mutant: only the first block of a message is looked at.
FirstBlockOnly(l) == IF l.blocks = <<>> THEN <<>>
    ELSE IF l.type = "user" THEN UserBlock(l.blocks[1]) ELSE AssistantBlock(l.blocks[1])
BlockSteps(l) == FlattenSeq([i \in DOMAIN l.blocks |->
    IF l.type = "user" THEN UserBlock(l.blocks[i]) ELSE AssistantBlock(l.blocks[i])])

ClaudeCodeToTimelineSteps(lines) == FlattenSeq([i \in DOMAIN lines |->
    CASE lines[i].type = "user" /\ lines[i].text # NoText ->
            StepUnlessBlank("USER_INPUT", lines[i].text, FALSE)
      [] lines[i].type \in {"user", "assistant"} -> BlockSteps(lines[i])
      [] OTHER -> <<>>])

-----------------------------------------------------------------------------
(* Titles: found by reading on until the line that decides. *)

NoTitle == [title |-> Blank, decided |-> FALSE]
Decide(t, text) == IF t.decided \/ text = Blank THEN t ELSE [title |-> text, decided |-> TRUE]
Propose(t, text) == IF t.decided \/ t.title # Blank THEN t ELSE [t EXCEPT !.title = text]

CodexDeriveShortTitle(lines) == FoldLeft(LAMBDA t, l :
    CASE l.outer = "event_msg" /\ l.kind = "user_message" -> Decide(t, l.text)
      [] l.outer = "response_item" /\ l.kind = "user" -> Propose(t, l.text)
      [] OTHER -> t, NoTitle, lines).title

ClaudeCodeDeriveShortTitle(lines) == FoldLeft(LAMBDA t, l :
    CASE l.type = "summary" -> Decide(t, l.text)
      [] l.type = "user" /\ l.text # NoText -> Propose(t, l.text)
      [] OTHER -> t, NoTitle, lines).title

-----------------------------------------------------------------------------
(* Attached files: a file is [path, chars]. *)

AtCap(accepted, seen) == Len(accepted) >= MaxFilesPerSession

\* The state s of the loop: the files accepted, and whether it has ended.
Accept(files, s, i) ==
    IF s.ended \/ files[i].path = Blank THEN s
    ELSE IF AtCap(s.accepted, i - 1) THEN [s EXCEPT !.ended = TRUE]
    ELSE IF files[i].chars > MaxFileChars THEN s
    ELSE [s EXCEPT !.accepted = Append(@, files[i])]

AcceptableFiles(files) ==
    FoldLeftDomain(LAMBDA s, i : Accept(files, s, i), [accepted |-> <<>>, ended |-> FALSE], files).accepted
=============================================================================
