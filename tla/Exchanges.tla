------------------------------ MODULE Exchanges ------------------------------
(***************************************************************************)
(* The inputs of the sequential code, up to a bound, and that code where   *)
(* the two programs exchange data with others: what the server answers a   *)
(* request, how it comes to its database, and what a run of agent-ingest   *)
(* sends and reports.                                                      *)
(*                                                                         *)
(* One behavior grows one input, an item at a time; every property here    *)
(* and in the modules that extend this one relates what an algorithm makes *)
(* of the input to a statement that does not follow its steps, to what     *)
(* another algorithm makes of it, or to what it made of the shorter input. *)
(***************************************************************************)
EXTENDS Integers, Sequences, FiniteSets, FiniteSetsExt, SequencesExt

CONSTANTS
    Kinds,          \* the inputs there are
    Alphabet,       \* kind |-> the items of its inputs
    Longest,        \* kind |-> the length of its longest input
    Blank, NoText, MaxFilesPerSession, MaxFileChars,
    Trimmed, DefaultLimit, MaxLimit, GeminiDir, Nodes, Target, DotNames, JsonNames,
    FileAt, MaxAttachments, MaxAttachmentBytes, BatchSize, MaxBatchBytes,
    Absent, Port,
    TokenTexts,     \* the tokens that are configured or presented
    Processes       \* the environments the server is started in

VARIABLES kind, input

Serving == INSTANCE Serving
Settings == INSTANCE Settings
Database == INSTANCE Handshake
Run == INSTANCE AgentRun
Steps == INSTANCE TimelineSteps

GrowInit == kind \in Kinds /\ input = <<>>

Grow == /\ Len(input) < Longest[kind]
        /\ \E item \in Alphabet[kind] : input' = Append(input, item)
        /\ UNCHANGED kind

GrowSpec == GrowInit /\ [][Grow]_<<kind, input>>

\* The agent attaches no more than the server takes: 25 of 50 files, and 256 KiB
\* of 512 Ki UTF-16 units, of which a byte gives one at most.
ASSUME Limits == MaxAttachments <= MaxFilesPerSession /\ MaxAttachmentBytes <= MaxFileChars

\* A link is given with what it leads to at last, in a file system of files and
\* directories; the sandbox is named without dots, and does not lead to a file.
ASSUME FileSystem ==
    LET paths == Seq(Alphabet["path"])
        dotless(p) == \A i \in DOMAIN p : p[i] \notin {".", ".."}
        resolved(p) == \A k \in DOMAIN p : SubSeq(p, 1, k) \notin DOMAIN Target
    IN  /\ GeminiDir \in paths /\ dotless(GeminiDir)
        /\ \A link \in DOMAIN Target : Target[link] \in paths /\ dotless(Target[link]) /\ resolved(Target[link])
        /\ \A p \in DOMAIN Nodes : Nodes[p] \in {"file", "directory"}
        /\ Serving!Exists(GeminiDir) => Nodes[Serving!EvalSymlinks(GeminiDir)] = "directory"

\* A path in a request is a sequence of segments, the time a session was updated
\* a number, and the limits of a page are numbers too.
ASSUME Requests ==
    /\ Alphabet["route"] \subseteq Seq(STRING) /\ Alphabet["list"] \subseteq Int
    /\ DefaultLimit \in Int /\ MaxLimit \in Nat \ {0} /\ Blank \notin Int

\* What is set is a name, or Blank, and so is a value of a database's URL; only
\* an authentication request has a code.
ASSUME Connections ==
    /\ \A v \in DOMAIN Port : Port[v] \in Int
    /\ \A line \in Alphabet["dotenv"] : line.value \in DOMAIN Port \cup {Blank}
    /\ \A process \in Processes : \A k \in DOMAIN process : process[k] \in DOMAIN Port \cup {Blank}
    /\ \A param \in Alphabet["dsn"] : param.value # Absent
    /\ Blank \notin {"127.0.0.1", "postgres"}
    /\ Alphabet["handshake"] \subseteq [type : STRING, code : Nat, ok : BOOLEAN]
    /\ \A m \in Alphabet["handshake"] : m.type # "R" => m.code = 0

\* A mention is of a path with a file behind it or none; sizes and counts are
\* numbers, and so are the limits of what a run of agent-ingest sends.
ASSUME Pushes ==
    /\ FileAt \in [Alphabet["mentions"] -> [absolute : BOOLEAN, secret : BOOLEAN, stat : BOOLEAN,
                                           read : BOOLEAN, bytes : Nat]]
    /\ Blank \notin Alphabet["mentions"] /\ Alphabet["sizes"] \subseteq Nat
    /\ Alphabet["report"] \subseteq [source : STRING, row : [ingested : Nat, skipped : Nat, failed : Nat,
                                                            summariesFailed : Nat, error : BOOLEAN]]
    /\ MaxAttachments \in Nat /\ MaxAttachmentBytes \in Nat /\ MaxFilesPerSession \in Nat /\ MaxFileChars \in Nat
    /\ BatchSize \in Nat \ {0} /\ MaxBatchBytes \in Nat

-----------------------------------------------------------------------------
(* Requests. *)

Configs == [token : TokenTexts, requireAuth : BOOLEAN]
Headers == [bearer : BOOLEAN, presented : TokenTexts]

\* Every route of the API is behind exactly one guard and the probes behind
\* none; what reaches a route is what the logged posture says, whatever the
\* other guard's token.
RoutesAreGuarded == kind = "route" => \A path \in ToSet(input) :
    /\ \A method \in {"GET", "HEAD", "POST", "DELETE"} :
          LET routes == Serving!Dispatch(method, path) IN
          /\ Cardinality(routes) <= 1
          /\ routes # {} => (Head(path) = "api") = (Serving!isIngestPath(path) \/ Serving!isApiPath(path))
    /\ ~(Serving!isIngestPath(path) /\ Serving!isApiPath(path))
    /\ \A mine \in Configs, other \in Configs, header \in Headers, loopback \in BOOLEAN :
          LET ingest == Serving!isIngestPath(path)
              status == IF ingest THEN Serving!ServeHTTP(path, header, other, mine)
                        ELSE Serving!ServeHTTP(path, header, mine, other)
              posture == IF ingest THEN Serving!ClassifyIngestPosture(mine)
                         ELSE Serving!ClassifyApiPosture(mine, loopback)
              knows == header.bearer /\ Trimmed[header.presented] = Trimmed[mine.token]
          IN  ingest \/ Serving!isApiPath(path) =>
                 status = CASE posture = "AUTHENTICATED" -> IF knows THEN 0 ELSE 401
                            [] posture = "MISCONFIGURED" -> 503
                            [] OTHER -> 0

\* A client that asks for page after page of the limit it was told sees every
\* session once, newest first, whatever limit it asked for.
PagesCoverTheList == kind = "list" => \A asked \in {Blank, -1, 0, 1, 2, 9} :
    LET sessions == {[id |-> i, updated |-> input[i]] : i \in DOMAIN input}
        page(k, limit) == Serving!handleListConversations(sessions, asked, k * limit)
        limit == page(0, 0).limit
        seen == FlattenSeq([k \in 1..((Len(input) + limit - 1) \div limit) |-> page(k - 1, limit).items])
    IN  /\ ToSet(seen) = sessions /\ Len(seen) = page(0, limit).total
        /\ \A i \in 2..Len(seen) : seen[i].updated <= seen[i - 1].updated
        /\ Serving!handleListConversations(sessions, asked, -1) = page(0, limit)

\* A preview shows a file only if what its path leads to is a file inside what
\* the directory leads to, and not one that is denied by its own name; and
\* every such file can be previewed under its own name.
PreviewStaysInside == kind = "path" =>
    LET at == Serving!EvalSymlinks(Serving!Clean(input))
        root == Serving!EvalSymlinks(GeminiDir)
        below == SubSeq(at, Len(root) + 1, Len(at))
        allowed == /\ at \in DOMAIN Nodes /\ Nodes[at] = "file" /\ IsPrefix(root, at)
                   /\ \A i \in DOMAIN below : below[i] \notin DotNames
                   /\ Len(below) = 1 => below[1] \notin JsonNames
    IN  /\ Serving!Preview(input) = 200 => allowed
        /\ allowed => Serving!Preview(GeminiDir \o below) = 200

RequestsAreServed == RoutesAreGuarded /\ PagesCoverTheList /\ PreviewStaysInside

-----------------------------------------------------------------------------
(* Connections. *)

\* A .env file is a default environment: the same settings in the environment,
\* where it has none of its own, blank ones included, give the same server.
SettingsHaveOneSource == kind = "dotenv" => \A process \in Processes :
    LET dotEnv == Settings!ParseDotEnv(input)
        merged == [k \in DOMAIN process \cup DOMAIN dotEnv |->
                      IF k \in DOMAIN process THEN process[k] ELSE dotEnv[k]]
        server == Settings!LoadServerConfig(process, dotEnv)
    IN  /\ server = Settings!LoadServerConfig(merged, <<>>)
        /\ server.host # Blank /\ server.port \in Nat

\* The forms of a DSN agree: the same values as query parameters, as the
\* authority of a URL or as keywords give the same connection, and one only,
\* unless two names of one field are given: the order of a map decides then.
DsnFormsAgree == kind = "dsn" =>
    LET field(i) == Settings!FieldOf(input[i].key)
        aliased == \E i, j \in DOMAIN input : input[i].key # input[j].key /\ field(i) = field(j)
        solid == \A i \in DOMAIN input : input[i].value # Blank
        part(f) == IF \E i \in DOMAIN input : field(i) = f
                   THEN input[Max({i \in DOMAIN input : field(i) = f})].value ELSE Absent
        parts == {"host", "port", "user", "password", "database"}
        dsn(form, params, of) == [form |-> form, params |-> params, host |-> of["host"], port |-> of["port"],
                                  user |-> of["user"], password |-> of["password"], database |-> of["database"]]
        alone(form) == dsn(form, input, [f \in parts |-> Absent])
        url == Settings!ParseDSN(alone("url"), "u", "p")
        keywords == Settings!ParseDSN(alone("keywords"), "u", "p")
        authority == Settings!ParseDSN(dsn("jdbc", <<>>, [f \in parts |-> part(f)]), "u", "p")
    IN  /\ ~aliased => Cardinality(url) = 1
        /\ ~aliased /\ solid => url = authority
        /\ solid /\ input # <<>> => keywords = authority
        /\ \A cfg \in url \cup keywords : cfg.user # Blank

\* A SCRAM exchange in one piece, whose server knew the password; what else may
\* come before a connection is ready, and all of it up to message n.
Scram(messages, s) ==
    /\ s \in 1..(Len(messages) - 2)
    /\ \A k \in 0..2 : LET m == messages[s + k] IN m.type = "R" /\ m.code = 10 + k /\ m.ok
Plain(m) == m.type \in {"S", "K", "N"} \/ (m.type = "R" /\ m.code \in {0, 3}) \/ (m.code = 5 /\ m.ok)
Orderly(messages, n) == \A i \in 1..(n - 1) :
    Plain(messages[i]) \/ \E s \in (i - 2)..i : Scram(messages, s) /\ s + 2 < n

\* A connection is ready exactly if a ReadyForQuery ends a startup in which all
\* else is a notice, a request for a password, or a SCRAM exchange in one piece
\* whose server knew the password; and a password is sent only on request.
HandshakeProvesTheServer == kind = "handshake" =>
    LET c == Database!startup(input)
        requests == {i \in 1..c.read : input[i].type = "R" /\ input[i].code = 3}
        sent == {i \in DOMAIN c.sent : c.sent[i] = "password"}
    IN  /\ c.at = "ready" <=> \E n \in DOMAIN input : input[n].type = "Z" /\ Orderly(input, n)
        /\ Cardinality(sent) <= Cardinality(requests)
        /\ c.at # "failed" => Cardinality(sent) = Cardinality(requests)
        /\ "proof" \in ToSet(c.sent) =>
              \E i \in 2..c.read : input[i].code = 11 /\ input[i].ok /\ input[i - 1].code = 10

ConnectionsAreSettled == SettingsHaveOneSource /\ DsnFormsAgree /\ HandshakeProvesTheServer

-----------------------------------------------------------------------------
(* A run of agent-ingest. *)

\* A file that may and can be sent is listed where it is mentioned first.
FirstAble(able, p) ==
    LET f == FileAt[p]
        may == f.absolute /\ ~f.secret /\ f.stat /\ f.read /\ f.bytes <= MaxAttachmentBytes
    IN  IF may /\ p \notin ToSet(able) THEN Append(able, p) ELSE able

\* The server keeps every file a transcript attaches; they are the first of
\* those that may and can be sent, and each one held back is reported once,
\* unless it cannot be read.
AttachedFilesAreKept == kind = "mentions" =>
    LET found == Run!ReferencedFiles(input)
        pushed == [i \in DOMAIN found.out |-> [path |-> found.out[i], chars |-> FileAt[found.out[i]].bytes]]
        able == FoldLeft(FirstAble, <<>>, input)
    IN  /\ Steps!AcceptableFiles(pushed) = pushed
        /\ found.out = SubSeq(able, 1, Min({MaxAttachments, Len(able)}))
        /\ ToSet(found.out) \cap ToSet(found.skipped) = {} /\ IsInjective(found.skipped)
        /\ \A p \in ToSet(input) \ (ToSet(found.out) \cup ToSet(found.skipped)) :
              ~FileAt[p].absolute \/ ~FileAt[p].stat \/ ~FileAt[p].read

\* Every item is in one batch, in order; a batch is over a limit only if it is
\* one item alone, and is closed only if the next item does not fit.
BatchesKeepOrder == kind = "sizes" =>
    LET batches == Run!chunkBy(input) IN
    /\ FlattenSeq(batches) = input
    /\ \A k \in DOMAIN batches :
          /\ Len(batches[k]) \in 1..BatchSize
          /\ Len(batches[k]) > 1 => Run!Total(batches[k]) <= MaxBatchBytes
          /\ k < Len(batches) => \/ Len(batches[k]) = BatchSize
                                 \/ Run!Total(batches[k]) + Head(batches[k + 1]) > MaxBatchBytes

\* The report of passes, and what they, or its rows, come to.
Report(passes) == FoldLeft(LAMBDA r, pass : Run!AddRow(r, pass.source, pass.row), Run!NewReport, passes)
Counted(rows, c) == MapThenSumSet(LAMBDA i : rows[i].row[c], DOMAIN rows)

\* The report fails if a pass did, whatever later passes of the source did, and
\* its totals are those of all passes: of its rows, if no source is repeated.
ReportAccounts == kind = "report" =>
    LET report == Report(input)
        sources == [i \in DOMAIN input |-> input[i].source]
        lastOf(s) == input[Max({i \in DOMAIN input : input[i].source = s})].row
    IN  /\ report.failed <=> \E i \in DOMAIN input : Run!errored(input[i].row)
        /\ \A r \in ToSet(report.rows) : r.row = lastOf(r.source)
        /\ {r.source : r \in ToSet(report.rows)} = ToSet(sources) /\ Len(report.rows) = Cardinality(ToSet(sources))
        /\ \A c \in Run!Counts : report.total[c] = Counted(input, c)
        /\ IsInjective(sources) => \A c \in Run!Counts : report.total[c] = Counted(report.rows, c)

RunsAccountForEverything == AttachedFilesAreKept /\ BatchesKeepOrder /\ ReportAccounts
=============================================================================
