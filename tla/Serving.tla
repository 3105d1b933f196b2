------------------------------- MODULE Serving -------------------------------
(***************************************************************************)
(* How the server answers a request (internal/server): the guards in front *)
(* of the routes, the pages of the list of conversations, and the preview  *)
(* of files that are not stored with a session.                            *)
(*                                                                         *)
(* A path is the sequence of its segments.  A token, and what a header     *)
(* presents, is a name with Trimmed its form without outer white space.    *)
(***************************************************************************)
EXTENDS Integers, Sequences, FiniteSets, FiniteSetsExt, SequencesExt

CONSTANTS
    Blank,
    Trimmed,                    \* text |-> the text without outer white space
    DefaultLimit, MaxLimit,     \* 200 and 1000 in the code
    GeminiDir,                  \* the sandbox directory, a path
    Nodes,                      \* path |-> "file" or "directory"
    Target,                     \* link |-> the path it stands for, resolved
    DotNames,                   \* the names that begin with a dot
    JsonNames                   \* the names that end with .json

-----------------------------------------------------------------------------
(* Routes and guards.                                                      *)

isIngestPath(path) == IsPrefix(<<"api", "ingest">>, path)

ApiPrefixes == {<<"api", s>> : s \in {"analysis", "brain", "eval", "insights", "mine", "optimize"}}

IsExactlyAPrefix(path) == path \in ApiPrefixes

isApiPath(path) == ~isIngestPath(path) /\ \E prefix \in ApiPrefixes : IsPrefix(prefix, path)

Route(method, path) == [method |-> method, path |-> path]

\* "id" stands for {id}, any one segment.
Routes ==
    {Route("GET", p) : p \in {
        <<"health">>, <<"health", "ready">>,
        <<"api", "brain", "flavors">>, <<"api", "brain", "conversations">>,
        <<"api", "brain", "conversations", "id", "transcript">>,
        <<"api", "brain", "file">>, <<"api", "brain", "files">>,
        <<"api", "ingest", "manifest">>, <<"api", "ingest", "summaries", "manifest">>,
        <<"api", "analysis", "conversations", "id", "progress">>,
        <<"api", "eval">>, <<"api", "eval", "runs">>,
        <<"api", "insights">>, <<"api", "insights", "sessions">>, <<"api", "insights", "drilldown">>,
        <<"api", "mine">>, <<"api", "optimize">>}}
    \cup {Route("POST", p) : p \in {
        <<"api", "ingest", "sessions">>, <<"api", "ingest", "summaries">>,
        <<"api", "analysis", "conversations", "id", "summarize">>,
        <<"api", "eval", "runs">>, <<"api", "optimize">>}}
    \cup {Route("DELETE", <<"api", "eval", "runs">>)}

\* A GET pattern serves HEAD too.
Serves(route, method, path) ==
    /\ route.method = method \/ (route.method = "GET" /\ method = "HEAD")
    /\ Len(route.path) = Len(path)
    /\ \A i \in DOMAIN path : route.path[i] \in {path[i], "id"}

\* The routes for a request; the static files answer one that has none.
Dispatch(method, path) == {r \in Routes : Serves(r, method, path)}

\* A configuration is [token, requireAuth]; a header [bearer, presented].
HasToken(cfg) == Trimmed[cfg.token] # Blank

MatchesBearerToken(expected, header) == header.bearer /\ Trimmed[header.presented] = expected

Guard(cfg, header) ==
    IF ~HasToken(cfg) THEN IF cfg.requireAuth THEN 503 ELSE 0
    ELSE IF MatchesBearerToken(Trimmed[cfg.token], header) THEN 0 ELSE 401

\* The status of a guard that refuses the request, or 0.
ServeHTTP(path, header, apiCfg, ingestCfg) ==
    IF isIngestPath(path) THEN Guard(ingestCfg, header)
    ELSE IF isApiPath(path) THEN Guard(apiCfg, header) ELSE 0

ClassifyApiPosture(cfg, loopback) ==
    IF HasToken(cfg) THEN "AUTHENTICATED" ELSE IF cfg.requireAuth THEN "MISCONFIGURED"
    ELSE IF loopback THEN "LOOPBACK_ONLY" ELSE "EXPOSED"

ClassifyIngestPosture(cfg) ==
    IF HasToken(cfg) THEN "AUTHENTICATED" ELSE IF cfg.requireAuth THEN "MISCONFIGURED" ELSE "OPEN"

-----------------------------------------------------------------------------
(* Pages: the store holds a set of sessions [id, updated].                 *)

\* ORDER BY updated_at DESC, id
Before(a, b) == a.updated > b.updated \/ (a.updated = b.updated /\ a.id < b.id)

Newest(sessions) == [n \in 1..Cardinality(sessions) |->
    CHOOSE s \in sessions : Cardinality({r \in sessions : Before(r, s)}) = n - 1]

ListConversations(sessions, limit, offset) ==
    LET newest == Newest(sessions)
    IN  SubSeq(newest, offset + 1, Min({offset + limit, Len(newest)}))

clamp(val, low, high) == Max({low, Min({high, val})})

\* A number that is missing or cannot be read is given as Blank.
handleListConversations(sessions, limit, offset) ==
    LET pageLimit == clamp(IF limit = Blank THEN DefaultLimit ELSE limit, 1, MaxLimit)
        pageOffset == Max({0, IF offset = Blank THEN 0 ELSE offset})
    IN  [items |-> ListConversations(sessions, pageLimit, pageOffset), total |-> Cardinality(sessions),
         limit |-> pageLimit, offset |-> pageOffset]

-----------------------------------------------------------------------------
(* Preview: an absolute path, with its dots.                               *)

\* One segment more, lexically.
Walk(p, name) ==
    CASE name = "." -> p
      [] name = ".." -> IF p = <<>> THEN p ELSE Front(p)
      [] OTHER -> Append(p, name)
Clean(path) == FoldLeft(Walk, <<>>, path)

isWithinDir(path, dir) == IsPrefix(dir, path)

IsPreviewDenied(dir, path) ==
    LET rel == SubSeq(path, Len(dir) + 1, Len(path)) IN
    \/ rel = <<>> \/ ~isWithinDir(path, dir)
    \/ \E i \in DOMAIN rel : rel[i] \in DotNames
    \/ Len(rel) = 1 /\ rel[1] \in JsonNames

\* What the file system makes of a path without dots; links may stand anywhere.
Follow(p, name) == LET at == Append(p, name) IN IF at \in DOMAIN Target THEN Target[at] ELSE at
EvalSymlinks(path) == FoldLeft(Follow, <<>>, path)

Exists(path) == EvalSymlinks(path) \in DOMAIN Nodes

\* Checked as it is named, and again as it is resolved.
Preview(path) ==
    LET file == Clean(path)
        realFile == EvalSymlinks(file)
        realDir == EvalSymlinks(GeminiDir)
    IN  IF ~isWithinDir(file, GeminiDir) THEN 401
        ELSE IF IsPreviewDenied(GeminiDir, file) THEN 403
        ELSE IF ~Exists(file) THEN 404
        ELSE IF Nodes[realFile] = "directory" THEN 404
        ELSE IF ~isWithinDir(realFile, realDir) THEN 401
        ELSE IF IsPreviewDenied(realDir, realFile) THEN 403
        ELSE 200
=============================================================================
