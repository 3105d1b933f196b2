---------------------------- MODULE MCAlgorithms ----------------------------
(* Alphabets for Algorithms and Boundaries: for each input, items that take   *)
(* every branch.                                                              *)
EXTENDS Boundaries

MCKinds == {"sessions", "error", "summary", "results", "digest", "conversation", "codex", "claude",
            "files", "steps", "antigravity", "chunks", "answers", "partials",
            "route", "list", "path", "dotenv", "dsn", "handshake",
            "json", "query", "log", "prompt", "value", "object", "wire", "mentions", "sizes", "report"}

Lines(classes, keys) == [class : classes, key : keys]
NoError == <<>>
Refused == <<[class |-> "metadata", key |-> "created"], [class |-> "strong", key |-> "refused"]>>

ToolStep(tools) == [tools |-> tools, type |-> "TOOL", status |-> "DONE", commandFailed |-> FALSE,
                    error |-> Missing, content |-> NoError]
BadStep(type, status, failed, error) ==
    [tools |-> <<>>, type |-> type, status |-> status, commandFailed |-> failed,
     error |-> error, content |-> Refused]

StepLists == {
    <<>>, <<ToolStep(<<"ls">>), ToolStep(<<"grep">>)>>,
    <<ToolStep(<<"ls", "grep", "ls">>), ToolStep(<<Blank>>), ToolStep(<<"grep", "ls">>)>>,
    <<ToolStep(<<"ls", "grep">>), BadStep("RUN_COMMAND", "DONE", TRUE, Missing)>>,
    <<BadStep("ERROR_MESSAGE", "DONE", FALSE, NoError), BadStep("TOOL", "ERROR", FALSE, Missing)>>}

Analyses == {NoAnalysis,
    [recs |-> <<"test", "test ">>, issues |-> <<[error |-> "Leak", fix |-> ""]>>],
    [recs |-> <<"lint", "">>, issues |-> <<[error |-> "leak", fix |-> "close"], [error |-> "", fix |-> "x"]>>],
    [recs |-> <<"lint", "test">>, issues |-> <<[error |-> "slow", fix |-> "cache"], [error |-> "Leak", fix |-> "free"]>>]}

Said(words) == [i \in DOMAIN words |-> [word |-> words[i], form |-> words[i], long |-> FALSE]]
Graded == {
    [title |-> TRUE, summary |-> Said(<<"a">>), bytes |-> 1, flow |-> 1, recs |-> 1, fixes |-> <<TRUE>>],
    [title |-> FALSE, summary |-> <<>>, bytes |-> 0, flow |-> -1, recs |-> 0, fixes |-> <<>>],
    [title |-> TRUE, summary |-> Said(<<"a", "b", "a", "b", "a">>), bytes |-> 9, flow |-> 1, recs |-> 1, fixes |-> <<TRUE, FALSE>>],
    [title |-> TRUE, summary |-> Said(<<"a", "a", "a">>), bytes |-> 5, flow |-> 0, recs |-> 0, fixes |-> <<FALSE>>],
    [title |-> TRUE, summary |-> <<>>, bytes |-> 2, flow |-> 1, recs |-> 1, fixes |-> <<FALSE>>]}

MCCleaned == [t \in {"test", "test ", "lint", "Leak", "leak", "slow", "close", "free", "cache", "x", ""} |->
                 CASE t = "test " -> "test" [] t = "" -> Blank [] OTHER -> t]
MCLowered == [t \in {"test", "lint", "Leak", "leak", "slow"} |-> IF t = "Leak" THEN "leak" ELSE t]
MCWidth == [t \in {"ls", "grep", "unknown"} |-> CASE t = "ls" -> 2 [] t = "grep" -> 4 [] OTHER -> 7]
MCBounded == [t \in {"a", "b", "a long", "a longer", "a lon...", Blank, "Session Summary"} |->
                 IF t \in {"a long", "a longer"} THEN "a lon..." ELSE t]

Event(by, text, failed) == [by |-> by, text |-> text, failed |-> failed]
AStep(type, source, text, chars, calls, failed) ==
    [type |-> type, source |-> source, text |-> text, chars |-> chars, calls |-> calls, failed |-> failed]

MCTrimmed == [t \in {"t", " t ", "u", "", " "} |->
                 CASE t = " t " -> "t" [] t \in {"", " "} -> Blank [] OTHER -> t]

\* The sandbox g is a link; out of it, into what is denied, and back in lead others.
MCGeminiDir == <<"g">>
MCTarget == (<<"g">> :> <<"data">>) @@ (<<"data", "out">> :> <<"out">>) @@ (<<"data", "h">> :> <<"data", ".h">>)
            @@ (<<"data", "j">> :> <<"data", "s.json">>) @@ (<<"out", "back">> :> <<"data", "d">>)
MCNodes == [p \in {<<>>, <<"data">>, <<"out">>, <<"data", "d">>, <<"data", ".h">>} |-> "directory"]
           @@ [p \in {<<"data", "f">>, <<"data", "s.json">>, <<"data", "d", "f">>, <<"data", "d", "s.json">>,
                      <<"data", ".h", "f">>, <<"out", "f">>} |-> "file"]

MCPort == [v \in {"80", "h1", "h2"} |-> IF v = "80" THEN 80 ELSE -1]
MCProcesses == {<<>>} \cup [{"SERVER_HOST", "SERVER_PORT"} -> {"h2", Blank}]
               \cup [{"MICRONAUT_SERVER_HOST"} -> {"h2", Blank}]
MCOrdinal == "$1" :> 1

Paths == {"a", "b", "c", "big", "id_rsa", "gone", "locked", "here"}
MCFileAt == [p \in Paths |->
    [absolute |-> p # "here", secret |-> p = "id_rsa", stat |-> p # "gone", read |-> p # "locked",
     bytes |-> IF p = "big" THEN 9 ELSE 4]]

Auth(code, ok) == [type |-> "R", code |-> code, ok |-> ok]
Wires == [title : {"t"}, summary : {Blank}, flow : {Null, [of |-> "strings", items |-> <<<<"a">>, <<"a", "b">>>>],
            [of |-> "objects", items |-> <<[action |-> "a", description |-> "b"], [action |-> Blank, description |-> "b"],
                                           [action |-> Blank, description |-> Blank]>>], [of |-> "other", items |-> <<>>]},
          agentActions : {Null, <<"x">>}, issues : {Null, <<>>}, recommendations : {Null, <<"r">>}]
Pass(ingested, failed, summariesFailed, error) ==
    [ingested |-> ingested, skipped |-> 1, failed |-> failed, summariesFailed |-> summariesFailed, error |-> error]

MCAlphabet == [k \in MCKinds |->
    CASE k = "sessions" -> [steps : StepLists, analysis : Analyses]
      [] k = "error" -> Lines({"plain", "weak", "strong"}, {"refused", "exit <n>"})
                        \cup Lines({"blank", "metadata"}, {"created"})
      [] k = "summary" -> {[word |-> "a", form |-> f, long |-> FALSE] : f \in {"a", "A"}}
                          \cup {[word |-> "b", form |-> "b", long |-> l] : l \in BOOLEAN}
      [] k = "results" -> {Scoring!Passed(had, a) : had \in BOOLEAN, a \in Graded}
      [] k = "digest" -> [kind : {"tool", "user", "agent"}, width : {2, 5}] \cup {[kind |-> "user", width |-> 0]}
      [] k = "conversation" -> {Event(b, t, FALSE) : b \in {"user", "assistant", "reasoning"}, t \in {"x", Blank}}
                \cup {Event("function_call", "x", FALSE)}
                \cup {Event("function_call_output", t, f) : t \in {"x", Blank}, f \in BOOLEAN}
      [] k = "codex" -> [outer : {"event_msg", "response_item"}, kind : {"user", "user_message"},
                         text : {"x", "y", Blank}, failed : {FALSE}]
      [] k = "claude" -> [type : {"user", "summary", "assistant"}, text : {"x", "y", Blank, NoText}, blocks : {<<>>}]
      [] k = "files" -> [path : {"p", Blank}, chars : {1, 9}] \cup {[path |-> "q", chars |-> 1]}
      [] k = "steps" -> {AStep("USER_INPUT", Blank, "x", 3, 0, FALSE), AStep("FUNCTION_CALL", Blank, "x", 3, 1, FALSE),
                         AStep("FUNCTION_OUTPUT", Blank, "x", 3, 0, TRUE), AStep("FUNCTION_OUTPUT", Blank, "x", 3, 0, FALSE)}
                \cup {AStep("MESSAGE", Blank, t, c, 0, FALSE) : t \in {"x", "y"}, c \in {1, 4}}
                \cup {AStep("MESSAGE", Blank, Blank, 1, 0, FALSE)}
      [] k = "antigravity" -> {AStep("USER_INPUT", "USER", "x", 3, 0, FALSE), AStep("OTHER", "USER_EXPLICIT", "y", 3, 0, FALSE),
                               AStep("PLANNER_RESPONSE", "MODEL", "x", 3, 2, FALSE), AStep("OTHER", "MODEL", "x", 3, 1, TRUE),
                               AStep("RUN_COMMAND", "SYSTEM", "x", 3, 0, TRUE), AStep("RUN_COMMAND", "SYSTEM", "x", 3, 0, FALSE)}
      [] k = "chunks" -> {1, 9, 20, 50}
      [] k = "answers" -> {1, 3, 6}
      [] k = "partials" -> [title : {"a", Blank}, flow : {<<"a", "b">>, <<"a long", Blank, "a">>, <<"a longer">>},
                            actions : {<<>>, <<"b", "a">>}, recommendations : {<<>>, <<Blank, "a long", "b">>},
                            summary : {<<>>, <<"x">>, <<"y", "z">>}]
      [] k = "route" -> {[i \in DOMAIN r.path |-> IF r.path[i] = "id" THEN "s1" ELSE r.path[i]] : r \in Serving!Routes}
                \cup {<<"api">>, <<"api", "ingest">>, <<"api", "ingestion">>, <<"api", "eval", "">>, <<"index.html">>}
      [] k = "list" -> 1..3
      [] k = "path" -> {"g", "data", "out", "back", "d", "f", "h", ".h", "j", "s.json", "..", "."}
      [] k = "dotenv" -> [class : {"pair"}, key : {"SERVER_HOST", "MICRONAUT_SERVER_HOST", "SERVER_PORT"},
                          value : {"h1", "80", Blank}] \cup {[class |-> "other", key |-> Blank, value |-> Blank]}
      [] k = "dsn" -> [key : {"host", "port", "user", "username", "password", "dbname"}, value : {"a", "b", Blank}]
      [] k = "handshake" -> {Auth(c, TRUE) : c \in {0, 3, 5, 10, 11, 12}} \cup {Auth(c, FALSE) : c \in {5, 10, 11, 12}}
                \cup {[type |-> t, code |-> 0, ok |-> TRUE] : t \in {"N", "Z", "E"}}
      [] k = "json" -> {"backslash", "nul", "zero", "escape", "u0000", "n"}
      [] k = "query" -> {"'", "-", "/", "*", "newline", "$1"}
      [] k = "log" -> {"x", "wide", "newline", "control"}
      [] k = "prompt" -> {"x", " ", "newline", "control", "format", "-", "un", "trusted"}
      [] k = "value" -> {"'", "dq", "#", " ", "x"}
      [] k = "object" -> {"{", "}", "x", " "}
      [] k = "wire" -> Wires
      [] k = "mentions" -> Paths
      [] k = "sizes" -> {1, 3, 5, 9}
      [] k = "report" -> [source : {"codex", "claude-code"},
                          row : {Pass(2, 0, 0, FALSE), Pass(0, 1, 0, FALSE), Pass(0, 0, 1, FALSE), Pass(1, 0, 0, TRUE)}]]

MCLongest == [k \in MCKinds |->
    CASE k \in {"route", "wire"} -> 1
      [] k \in {"sessions", "partials", "dotenv", "dsn"} -> 3
      [] k \in {"path", "handshake", "mentions", "report"} -> 4
      [] k \in {"list", "prompt", "value"} -> 5
      [] k \in {"error", "results", "conversation", "codex", "claude"} -> 4
      [] k \in {"digest", "steps", "antigravity"} -> 5
      [] OTHER -> 6]
=============================================================================
