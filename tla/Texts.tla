-------------------------------- MODULE Texts --------------------------------
(***************************************************************************)
(* The conversions of texts on their way into SQL, logs, prompts, settings *)
(* and analyses.  A text is a sequence of items: an item is one character, *)
(* or a stretch of characters that the code never tells apart.             *)
(***************************************************************************)
EXTENDS Integers, Sequences, FiniteSets, FiniteSetsExt, SequencesExt

CONSTANTS
    LogSafeMaxLength,       \* 512 UTF-16 units in the code
    Ordinal                 \* placeholder |-> the number it names

At(text, i) == IF i \in DOMAIN text THEN text[i] ELSE "end"

Trim(text) == LET solid == {i \in DOMAIN text : text[i] # " "} IN
    IF solid = {} THEN <<>> ELSE SubSeq(text, Min(solid), Max(solid))

-----------------------------------------------------------------------------
(* JSON for a jsonb column: a backslash, "u0000" (those five characters), a  *)
(* zero byte and "n" (any other) are the items.                              *)

sanitizePostgresText(text) == SelectSeq(text, LAMBDA c : c # "zero")

EscapedByNeighbor(text, i) == At(text, i - 1) = "\\"

\* There is an odd number of backslashes right before i.
Escaped(text, i) ==
    Max({k \in 0..(i - 1) : \A j \in (i - k)..(i - 1) : text[j] = "\\"}) % 2 = 1

sanitizePostgresJSONB(text) ==
    LET s == sanitizePostgresText(text)
        nulAt(i) == At(s, i) = "\\" /\ At(s, i + 1) = "u0000" /\ ~Escaped(s, i)
    IN  FoldLeftDomain(LAMBDA out, i : IF nulAt(i) \/ nulAt(i - 1) THEN out ELSE Append(out, s[i]), <<>>, s)

-----------------------------------------------------------------------------
(* SQL: quotes, dashes, slashes, stars, line ends and placeholders.  A value *)
(* is [type, text].                                                          *)

Doubled(text) == FlattenSeq([i \in DOMAIN text |-> IF text[i] = "'" THEN <<"'", "'">> ELSE <<text[i]>>])

formatLiteral(value) ==
    IF value.type = "text" THEN <<"'">> \o Doubled(value.text) \o <<"'">> ELSE value.text

\* What follows the item at i, read outside of literals and comments.
Opens(query, i) ==
    CASE query[i] = "'" -> "literal"
      [] query[i] = "-" /\ At(query, i + 1) = "-" -> "line"
      [] query[i] = "/" /\ At(query, i + 1) = "*" -> "block"
      [] OTHER -> "code"

\* One item: s is [out, mode, skip, missing]; skip counts items already read.
Interpolated(s, query, i, args) ==
    LET emit(mode) == [s EXCEPT !.out = Append(@, query[i]), !.mode = mode]
        pair(mode) == [s EXCEPT !.out = @ \o <<query[i], At(query, i + 1)>>, !.mode = mode, !.skip = 1]
    IN  CASE s.skip > 0 -> [s EXCEPT !.skip = @ - 1]
          [] s.skip = 0 /\ s.mode = "literal" ->
                IF query[i] # "'" THEN emit("literal")
                ELSE IF At(query, i + 1) = "'" THEN pair("literal") ELSE emit("code")
          [] s.skip = 0 /\ s.mode = "line" -> emit(IF query[i] = "newline" THEN "code" ELSE "line")
          [] s.skip = 0 /\ s.mode = "block" ->
                IF query[i] = "*" /\ At(query, i + 1) = "/" THEN pair("code") ELSE emit("block")
          [] OTHER ->
                IF query[i] \notin DOMAIN Ordinal
                THEN IF Opens(query, i) = "block" THEN pair("block") ELSE emit(Opens(query, i))
                ELSE IF Ordinal[query[i]] \notin DOMAIN args THEN [s EXCEPT !.missing = TRUE]
                ELSE [s EXCEPT !.out = @ \o formatLiteral(args[Ordinal[query[i]]])]

InterpolateParams(query, args) ==
    IF args = <<>> THEN [out |-> query, mode |-> "code", skip |-> 0, missing |-> FALSE]
    ELSE FoldLeftDomain(LAMBDA s, i : IF s.missing THEN s ELSE Interpolated(s, query, i, args),
                        [out |-> <<>>, mode |-> "code", skip |-> 0, missing |-> FALSE], query)

-----------------------------------------------------------------------------
(* Logs and titles: "wide" is a character of two UTF-16 units.             *)

Units(text) == FlattenSeq([i \in DOMAIN text |-> IF text[i] = "wide" THEN <<"high", "low">> ELSE <<text[i]>>])

truncateChars(text, max) ==
    SubSeq(text, 1, Max({n \in 0..Len(text) : n = 0 \/ Len(Units(SubSeq(text, 1, n))) <= max}))

EscapedUnit(unit) == CASE unit = "newline" -> <<"\\n">> [] unit = "control" -> <<"\\u0007">> [] OTHER -> <<unit>>

\* The number of units kept: never the first half of a pair alone.
Cut(units) == LET end == Min({Len(units), LogSafeMaxLength}) IN
    IF end < Len(units) /\ end > 0 /\ units[end] = "high" THEN end - 1 ELSE end

EscapeLog(text) ==
    LET units == Units(text) IN
    FlattenSeq([i \in 1..Cut(units) |-> EscapedUnit(units[i])])
       \o (IF Len(units) > LogSafeMaxLength THEN <<"...[truncated]">> ELSE <<>>)

-----------------------------------------------------------------------------
(* Prompts: "format" is an invisible character, "control" a control         *)
(* character or a line separator, "-" punctuation, "un" and "trusted" the   *)
(* halves of the word that begins a fence.                                  *)

scrub(text, keepLineBreaks) ==
    LET scrubbed(item) == CASE item = "newline" /\ keepLineBreaks -> <<item>>
                            [] item = "format" -> <<>>
                            [] item = "control" \/ (item = "newline" /\ ~keepLineBreaks) -> <<" ">>
                            [] OTHER -> <<item>>
    IN  FlattenSeq([i \in DOMAIN text |-> scrubbed(text[i])])

Gap == {"-", " ", "newline"}

\* A marker is the word, what separates it from the next, and that one.
WithoutMarkers(text) == FoldLeftDomain(LAMBDA s, i :
    CASE s.mode = "half" -> [s EXCEPT !.mode = "gap"]
      [] s.mode = "gap" /\ text[i] \in Gap -> s
      [] s.mode \in {"gap", "word"} /\ text[i] \notin Gap -> [s EXCEPT !.mode = "word"]
      [] OTHER -> IF text[i] = "un" /\ At(text, i + 1) = "trusted"
                  THEN [out |-> Append(s.out, "[marker removed]"), mode |-> "half"]
                  ELSE [out |-> Append(s.out, text[i]), mode |-> "text"],
    [out |-> <<>>, mode |-> "text"], text).out

StripControlAndFormat(text) == WithoutMarkers(scrub(text, TRUE))

Collapsed(text) == FoldLeftDomain(LAMBDA out, i :
    IF text[i] = " " /\ At(text, i - 1) = " " THEN out ELSE Append(out, text[i]), <<>>, text)

BoundedLine(text, maxChars) == LET single == Trim(Collapsed(scrub(text, FALSE))) IN
    IF Len(single) <= maxChars THEN single ELSE Append(SubSeq(single, 1, maxChars), "...")

-----------------------------------------------------------------------------
(* A value of a .env file, and the object in a model's answer.             *)

cleanDotEnvValue(value) ==
    LET closing == {k \in 2..Len(value) : value[k] = value[1]}
        comments == {k \in DOMAIN value : value[k] = " " /\ At(value, k + 1) = "#"}
    IN  IF At(value, 1) \in {"'", "dq"} /\ closing # {} THEN SubSeq(value, 2, Min(closing) - 1)
        ELSE Trim(IF comments = {} THEN value ELSE SubSeq(value, 1, Min(comments) - 1))

ExtractJSONObject(raw) ==
    LET trimmed == Trim(raw)
        opening == {i \in DOMAIN trimmed : trimmed[i] = "{"}
        closing == {i \in DOMAIN trimmed : trimmed[i] = "}"}
    IN  IF trimmed = <<>> THEN <<"{", "}">>
        ELSE IF opening # {} /\ closing # {} /\ Max(closing) > Min(opening)
        THEN SubSeq(trimmed, Min(opening), Max(closing)) ELSE trimmed
=============================================================================
