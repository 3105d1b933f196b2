# A verification project for agent-brain-visualizer

agent-brain-visualizer is a Go web server that stores the transcripts of coding
agents (Antigravity, Codex, Claude Code) in PostgreSQL, lists and shows them, has a
language model analyse them, and keeps evaluation runs; `agent-ingest` is the
command that finds the transcripts of a machine and uploads them. This directory
holds TLA+ models of the parts where concurrency, failure and ordering decide
whether the program is right, the TLC configurations that check them, and TLAPS
proofs about them. Paths below are relative to the repository (`src/`).

## 1. Inventory

| part | state it keeps | operations | what is hard |
|---|---|---|---|
| scan and hash cache, `cli/internal/scan` | transcripts on disk, cache file, a run's copy of the cache | `LoadCache`, `ScanWithCache`, `readSession`, `lookup`, `store`, `Save` | files change between stat and read; runs overlap and overwrite the cache file |
| run, `cli/main.go` | scanned sessions, manifests, batches, report | `run`, `changedSessions`, `changedSummaries`, `chunkBy`, `report` | decides from a manifest that ages; exit code |
| HTTP client, `cli/internal/client` | attempts of a request | `Manifest`, `Push`, `PushSummaries`, `do` | timeouts, lost answers, retries |
| ingest, `internal/transcript/ingestor.go`, handlers in `internal/server/server.go` | none of its own | `Ingest`, `IngestSummaries` | several statements per session, some errors returned and some only logged; handlers outlive their clients |
| store, `internal/store` | `sessions`, `session_files`, `summaries`, `eval_runs` | upserts, `ReplaceForSession`, manifests, listings, `SaveAt`, `List`, `Delete` | concurrent transactions, insert and trim apart, text stamps |
| analysis, `internal/ai/orchestrator.go` | `activeTasks`, `progressMap`, a pool of workers per request | `Summarize`, `GetProgress` | claims, shared cursor and counters, out-of-order reports |
| models, `internal/ai/models.go`, `tokencount.go`, `untrusted.go` | none | HTTP calls, token split, prompt fences | timeouts, quotas, answers that only look like JSON, boundaries of the split |
| insights, `internal/insights` | none | evaluation, judge panel, fleet, miner, optimizer, error normalizer | the panel's semaphore; aggregation |
| normalizers, `internal/transcript` | none | three parsers, `DeduplicateSequence` | pairing of calls and results; one budget for many messages |
| driver, `internal/pgdriver` | connection, transaction status | handshake, `simpleQuery`, `Begin`, `Commit`, interpolation | deadlines in the middle of an answer, in-doubt statements |
| HTTP server, `internal/server/server.go` | none of its own | routes, guards, list of conversations, preview | guards and routes match paths by different rules; a path is judged by what it leads to |
| configuration and lifecycle, `internal/config`, `main.go` | settings, the listener | load, serve, shut down | two postures; the process ends as soon as `Shutdown` is called, without waiting for its handlers |
| web UI, `web/public` | the page's selection and caches | loads, polling, rendering | answers of earlier selections after later ones |
| test code, `internal/pgtest`, `internal/testhttp`, `e2e` | | | not part of the program |

The parts interact so: `agent-ingest` scans, asks `/api/ingest/manifest` for the hashes
the store has, pushes what differs to `/api/ingest/sessions`, and then pushes on-disk
summaries to `/api/ingest/summaries`. The server's handlers write the tables through
the store and the driver. `POST .../summarize` reads the tables, calls a model from
a pool of goroutines and writes `summaries`, which the ingest writes as well. The
eval page saves its reports to `eval_runs`. The UI reads all of it.

What makes each part right:

- scan: a cached digest that is believed is that of the file's content; with the cache
  a scan reports what it could report without (`CacheSound`, `ScansAsWithoutCache`);
- run, client, ingest: exit code 0 means that the store had what the run read
  (`ExitZeroMeansStored`); repeated runs make the store converge and come to rest
  (`TranscriptsConverge`, `SummariesConverge`, `EventuallyQuiet`); files go with their
  transcript (`AttachmentsConverge`, which fails);
- eval runs: the global cap, the newest kept, newest first (`Capped`,
  `OnlyTheOldestAreTrimmed`, `ListedNewestFirst`, which fails);
- analysis: one per session at a time, every claim returned, every answer used, a
  progress that does not go back or outlive its analysis;
- driver and store: an answer goes to its statement, no statement runs twice, a replacement of a
  session's files takes effect whole or not at all (`AnswersMatch`, `StatementsRunOnce`,
  `ReplacedWhole`);
- judge panel and prompt lab: bounded calls, and a report of every verdict that arrived
  (`CallsAreBounded`, `EveryVerdictCounts`);
- reports, normalizers, texts, settings: what one piece of code says of an input is what
  another one, or a second look, says of it (the nine properties of the run `algorithms`);
- web UI: what the page shows is the selection's (`ViewsFollowTheSelection`,
  `AnalysisIsOfTheSelection`, which fails), an evaluation is not replaced by an older one, polls end.

`PROJECT.json` lists the hazards line by line, with the property that covers each.

## 2. Modules

| module | models | used by |
|---|---|---|
| `FullScan` | abstract: a scan that reads every file | `ScanCache` (refinement) |
| `ScanCache` | the scan and its cache | `MCScanCache`, `ScanCacheProofs` |
| `IngestServer` | ingest handlers, statement by statement, and three tables | `IngestSync` |
| `IngestSync` | runs of `agent-ingest`, client and timer, composed with `IngestServer` | `MCIngestSync`, `IngestSyncProofs` |
| `EvalRuns` | `EvalRunRepository` and its handlers | `MCEvalRuns`, `EvalRunsProofs` |
| `Analysis` | `Summarize` with its workers | `MCAnalysis`, `AnalysisProofs` |
| `AtMostOnce` | abstract: a statement is executed at most once, and before it is reported | `PgWire` (refinement) |
| `PgWire` | pool, driver connections, PostgreSQL sessions; `ReplaceForSession`, `Find`, readiness | `MCPgWire`, `PgWireProofs` |
| `JudgePanel` | the fan-out of the evaluation's judge and of the prompt lab | `MCJudgePanel`, `JudgePanelProofs` |
| `UiLoads` | the asynchronous loads of the page | `MCUiLoads`, `UiLoadsProofs` |
| `InsightReports`, `EvalScoring` | fleet, miner, drill-down, error key; scores, figures, digests | `Algorithms` |
| `TimelineSteps`, `AnalysisText` | normalizers, titles, accepted files; what the model is sent, chunks, consolidation, merges | `Algorithms`; `Exchanges` (accepted files) |
| `Serving`, `AgentRun` | routes, guards, pages, preview; attachments, batches, report of a run | `Exchanges` |
| `Settings`, `Handshake` | environment and DSN; start-up of a database connection | `Exchanges` |
| `Texts`, `ModelAnswers` | sanitizers, interpolation, log and prompt texts; answers of a model | `Boundaries` |
| `Exchanges` | grows an input; what a request is answered, how the server comes to its database, what a run sends and reports | `Algorithms`, `ExchangesProofs` |
| `Algorithms`, `Boundaries` | the properties of the other modules above, on the same inputs | `MCAlgorithms` |

The `MC*` modules only give values to constants.

### ScanCache
`body`/`stat` are the files and their (size, mtime); `disk` is the cache file, `mem` a
run's `Cache.entries`; `pc`, `at` and `found` are where a run is in its walk and the ids it
has seen with the hash it reports; `info` and `buf` are the locals of `readSession`
between its stat, its read and its `store`. `CacheHit`, `CacheMiss`, `ReadFile` and
`StoreEntry` are the pieces of `readSession` between which another process can run;
`SkipEntry` is every `continue` of the walk. `Walk` describes both layouts: one file per
entry, where two files may share a stem, and an Antigravity session with its preferred and its
fallback file. A write always gives a file a (size, mtime) pair it has not had
(append-only transcripts), which is the assumption the cache itself makes.

### IngestServer and IngestSync
A request occupies a slot; `pos` is the index of the loop of `Ingest` or
`IngestSummaries`, `stage` the statement of `storeSession` it is at. Every statement
can succeed, be refused, or be committed with its answer lost. An error of a session's row
ends the request with 503 (`RowEnds`); errors of its files and its summary are only
logged, as in the code. A run goes `manifest`, `diff`, `summaries`, then alternates `push`
and `await` for each batch. `TimeOut` leaves the handler at work with no owner; the next
attempt takes another slot. `held` and `want` are history variables. The scan is one
step, which `ScanCache` justifies: a session is reported with the hash of its file's
content. Whether a session's content is in memory (miss) or has to be read at the
diff (hit) is chosen freely.

Left out: `--dry-run`, titles and mtimes, 4xx refusals (not retried, exit code 1).
`LoadRaw` of a file that was emptied is not among the edits: an edit changes the content or
removes the file. Hash equality is equality of content. Batches here are by count; `AgentRun` has
bytes, and the report of several sources.

### EvalRuns
`Insert` and the trim of `SaveAt` are separate statements, and the trim itself is two steps:
PostgreSQL evaluates its subquery on the rows committed when it began. `run_id` is
drawn at the insert. `SavedAt` is what `RFC3339Nano` does to the order of stamps: trailing
zeros go, and what follows (`Z`) sorts after every digit. Texts are compared
byte by byte; a database with a collation that ignores punctuation is not modelled.

### Analysis
`active` and `progress` are the two maps; each request has its `pc` in `Summarize`, and
`cursor`, `completed`, `results` and the workers of `analyzeChunksInParallel`. A worker
counts its call (`ModelReturns`) and reports the count later (`Report`), so reports cross.
Every call of the model may fail. `Return` is the deferred `releaseTask`. `Claim` has `tryClaimTask` and the first
`setProgress` in one step; in between, a claimed session has no progress yet, and `ProgressMeansRunning` does not say it has one.

### PgWire
Three layers in one module, since what matters happens between them. `call` and `free` are
`database/sql`: an operation of a caller with the connection it holds, the retries on
`ErrBadConn` (two on idle connections, one on a new one), and the idle connections. `conn`,
`req` and `ans` are the driver's end and the wire: `simpleQuery` sends, the server works, and the driver
reads up to `ReadyForQuery`; a deadline or a broken connection can come at each
point and marks the connection bad. `sess` and `rows` are PostgreSQL at READ COMMITTED: a `DELETE` sees the
rows committed when it began, waits for rows another transaction wrote, and looks at
them again; an upsert waits in the same way; a cycle of waits is resolved by refusing a victim. pool and server are
external (`database/sql` and PostgreSQL are not in the repository). `last`, `committed`, `sent`,
`ran`, `reran` and `told` are history variables.

### JudgePanel
`EvalService.runJudge` and `OptimizeService.Compare` have the same form: count, collect, start a
goroutine per session and reviewer, a semaphore of 8 or 6, a `WaitGroup`, a report. `sem` and `wg`
are the channel's tokens and the counter; `panels` the shared results. A rating out of range is clamped.

### UiLoads
A request is an element of a set until its answer is handled, in any order. `Trigger` is
`triggerAnalysis` up to its first `await`; `AnalysisAnswers`, `ProgressAnswers` and `PollWakes`
are what follows each `await`. The page may be opened by a link to a session, whose hash is then there before the first list;
a list that is refreshed selects again, an empty one puts the onboarding into the pane. `transcriptGeneration`, `renderGeneration` and `currentPoll` are the page's guards.

### Sequential code
`Exchanges` has two variables, the kind of an input and the input, and one action that appends an
item; `Algorithms` extends it and `Boundaries` that. Its behaviours enumerate every input up to a bound, and an invariant can compare what an
algorithm makes of an input with what it makes of the shorter one. The operators are in modules by subject, with recursive
functions and folds instead of `RECURSIVE`. Three of the nine invariants, `RequestsAreServed`, `ConnectionsAreSettled` and
`RunsAccountForEverything`, are in `Exchanges`, which has no more than they need, so that they can be proved. The nine invariants of the run are conjunctions; each conjunct names its kind of
input and is stated and commented by itself:

| invariant | conjuncts |
|---|---|
| `RowsLeadToSessions` | rows of the fleet's and miner's reports against their drill-downs; fixes do not depend on the last session; error keys are stable |
| `ScoresAgree` | degenerate summaries; means, rates and worst cases are of the results they are made from; digests are prefixes |
| `TranscriptsReadAlike` | one conversation in the formats of Codex and Claude Code; titles stay; accepted files |
| `ModelSeesEveryStep` | deduplication loses no step; messages keep their budget; failures reach the model |
| `OnlyLimitsLeaveOut` | chunks cover the lines; each answer is consolidated once; a local merge leaves out what is past a limit, and nothing else |
| `RequestsAreServed` | one guard per route and the posture it logs; pages cover the list; a preview shows only files inside |
| `ConnectionsAreSettled` | a `.env` file is a default environment; the forms of a DSN agree; the handshake proves the server |
| `TextsKeepTheirMeaning` | NULs vanish from JSON; interpolation is final; cuts agree; prompts are inert; quoted values, embedded objects, analyses and proposals read back |
| `RunsAccountForEverything` | attached files are kept by the server; batches keep the order; the report adds up |

Limits are part of the models. Of a local merge, `Normalize` keeps the first `MaxItems` items of each list, the first
`MaxRecommendations` recommendations, and the first `MaxSummaryChars` characters (8000 in the code) of the summaries joined:
later summaries of a long session are cut off or missing, and the text ends with `...` exactly then. `OnlyLimitsLeaveOut` says so; it does not
say that every summary is kept. In `AnalysisText` a summary is the sequence of its characters, and the note in front of the summaries and the blank line
between two of them count as one character each.
What the reports cut at 200 bytes they may cut in the middle of a character (`fleet.go`, `truncateStr`), and JSON then writes another one in its place; that is outside
the models. A summary of blanks alone counts as concise and not as complete (`ScoreSession`), as in the code. The evaluation and the
prompt lab compute means and rates by the same lines of code, and `EvalScoring` has the one operator for both, so that the two agree is no result of the run.

## 3. Runs

| run | bounds | shows |
|---|---|---|
| `scan_cache_flat` | 2 runs, 1 id in 2 files, 2 contents, 2 writes a file | `CacheSound`, the inductive invariant, refinement of `FullScan` |
| `sync_overlap` | 2 runs on a machine, 1 edit, 1 fault, 2 attempts, 2 slots | exit code, convergence after late handlers |
| `sync_converge` | 2 sessions in batches of 1, an unknown source, invalid UTF-8, a long summary, 2 edits, 1 fault, 3 slots | exit code, convergence of summaries, rest |
| `eval_runs_cap` | cap 2, 4 saves, 2 savers, 2 flavors, 3 instants, 1 fault | cap, trimming, the inductive invariant of the proofs |
| `analysis_pool` | 2 requests, 2 workers, 3 chunks, 1 ingest, 1 fault | claims, progress, answers; every claim ends |
| `driver` | 2 callers, 1 operation each (replacements of 3 lists of 2 paths, a read, a probe), 2 connections, 1 idle, 1 fault | answers, pool, whole replacements, refinement of `AtMostOnce`, deadlocks end |
| `judge_panel` | 3 stored, 2 collected and sampled, 2 reviewers, 2 at a time, ratings 0 and 4 | bounds, verdicts, the count; the request ends |
| `ui_loads` | 2 sessions, 2 agents, 2 clicks | views, evaluations, polls |
| `algorithms` | inputs of up to 3 to 6 items by kind, one for a path or a model's answer | the nine invariants above |
| `ui_clobber`, `sync_files_lost`, `eval_runs_order` | as small as the counterexample needs | the three disagreements below |

Bounds. Two overlapping runs are the smallest number that can overwrite each other; with
two writes a file can change both before and after a read of each; two attempts are
enough for a late first handler and its retry (the code has three); three chunks and two workers
make a worker take a second chunk while the other is still at its first; a cap of two and
four saves leave rows both to keep and to trim when two trims overlap. In `driver` two callers with lists in
both orders can deadlock; one idle connection makes connections be both kept and closed. Four tasks for two tokens
make goroutines wait in `judge_panel`. In `algorithms` the constants are small
(a limit of 2 or 3 where the code has 10 or 50), so that inputs go past each limit. Faults are bounded because each of them
multiplies the states; one anywhere in a behaviour covers every single failure.
A request finds a free slot: `Slots` is large enough that waiting for one is waiting for
handlers that end. The scan is checked for files that share a session id; a walk with an Antigravity session's two
files is too large for a run, and covered by the proofs, which hold for every `Walk`.

Deadlock is not checked where the bounds let everything come to rest: in `driver`, `judge_panel`, `ui_*` and
`algorithms`.

Symmetry is used in `scan_cache_flat` and `eval_runs_cap`, which check no liveness
(`ScansAsWithoutCache` is a safety property, its mapping is symmetric too), and in no run with
fairness.

Fairness. Weak fairness of each run's steps and each handler's steps. Goroutines are
scheduled; a handler does not depend on its client, since no request context is passed
to the database; every HTTP call has a timeout (60 s in the client, 5 and 10 minutes for
the models). That the next run begins is the timer of `cli/README.md`, "meant to run
unattended on a timer". `driver`: each caller's steps, and each connection's work at the server; that PostgreSQL
ends a deadlock is its `deadlock_timeout`. `judge_panel`: the request, and each goroutine; a model's call ends by its timeout.
`ui_loads`: every request of the page is answered or fails, and a poll wakes. No fairness is given to edits, faults, clicks or crashes.

### What the violations show
- `sync_files_lost`: the failure to store attached files is logged, the hash is stored, and no later
  run sends them. The same property fails without any fault when two runs on one machine overlap, the transcript
  changes in between and both versions attach a file (`Agents` of two, `MaxFaults = 0`, an `Attached` that gives each
  text a file of its own): the row and the files are separate statements.
- `eval_runs_order`: `…01.5Z` sorts after `…01.51Z`, so the list is not newest first. A trim may therefore
  keep an older run instead of a newer one, for stamps that differ in a fraction; `eval_runs_cap`
  checks the trimming with whole seconds, where the order of texts is that of time.
- `ui_clobber`: a session whose analysis is cached is shown by an early return that leaves
  `state.currentPollSessionId` at the session selected before, whose answer then passes the guard and replaces what is shown.

### Observed while modelling
What the code does where no document claims otherwise, or the claim is loose; the models have it as it is.

- Two overlapping replacements of a session's files may leave the union of their lists: at READ COMMITTED neither deletes what
  the other inserts (`ReplacedWhole` says what is left).
- `agent-ingest` exits with 0 when a transcript vanished between scan and upload (`cli/main.go:284`), and `--no-cache` sends no
  files of a transcript that is stored already (`cli/README.md:149` reads otherwise).
- A batch's byte budget counts the transcripts, not the attached files: 100 sessions with 25 files of 256 KiB exceed the
  server's 128 MiB. A source given twice has one row in the report, and totals of both passes.
- `Find` reads a database error as "no such file".
- The miner merges errors without regard to case, its drill-down "issue" compares them exactly.
- A failed `RUN_COMMAND` of Antigravity is an error in the reports; the model is shown only steps that say "error" or "Exception".
- Claude Code messages of a user whose content is a list of text blocks yield no step.
- A local merge of many or long partial analyses keeps the beginning of the joined summaries only (8000 characters); a summary of
  blanks alone passes `concise-summary`.
- The prompt that joins two consolidated halves is not checked against `MaxConsolidationTokens`.
- A digest may say that it is cut when nothing that would be shown was left out.
- Two names of one field in a DSN's query are decided by the order of a map. A placeholder right after `-` with a negative value would
  begin a comment; no statement of the store has one. Between the messages of a SCRAM exchange the driver accepts no notice.
- UI: failures to parse an analysis are cached; an error's text is written whatever is selected; a late list of another agent replaces the
  current one; an evaluation's answer may replace a transcript opened since (two generations); a save and a delete that overlap may leave an old history.

## 4. Proofs

`ScanCacheProofs` (any number of runs, sessions, files and writes; assumptions: the four named
ones of `ScanCache`):

- `Invariance`: `Spec => []IInv`. `CacheSound` is not inductive by itself: that a stored
  entry is true depends on what a pending read saw. `PendingReadsSound` says that
  if the file still has the stat taken before the read, it has the content that was
  read, and `NoEntryAhead` that no entry's stat is from the future, so that a write
  makes every entry of the file stale;
- `CacheIsSound`: `Spec => []CacheSound`;
- `CacheIsTransparent`: `Spec => ScansAsWithoutCache`, the refinement of `FullScan` with
  `found` mapped so that a read counts as its report; step by step, a cache hit is a
  report because of `CacheSound`.

`EvalRunsProofs` (any cap, savers, flavors, instants, saves and failures; assumption
`EvalRunsAssumption`):

- `NewerIsStrictTotalOrder` and `KeptIsCapped`: the order of the list is strict and total although
  stamps are compared as texts (two texts that differ do so at a first place; `run_id` breaks
  ties), so a row's rank among the rows is unique and a trim keeps at most `MaxRuns` rows;
- `Invariance`: `Spec => []IInv`. `Capped` alone is not inductive: a trim deletes rows it chose
  earlier. `CappedWhenTrimmed` says of every set of trims under way that what they leave is
  capped by the cap, the savers still to trim outside that set, and the failures. A trim that begins takes
  its own saver out of the sum (`BeginTrimIInv`), an insert adds one, and a trim that ends is the same
  statement for the set with it added (`EndTrimIInv`);
- `RunsAreCapped`: `Spec => []Capped`, the case of the empty set;
- `TrimsAreOfTheOldest`: `Spec => OnlyTheOldestAreTrimmed`, assuming `TextsKeepOrder`, that stamps sort as their instants do. This is what
  `eval_runs_order` refutes for fractions; `WholeSecondsKeepOrder` shows that instants without fractions have it.
  `Outnumbered` says that of every row a trim under way has chosen, `MaxRuns` newer ones have been saved, which no later delete can undo.

`JudgePanelProofs` (any number of sessions, reviewers, tokens and answers; assumption `PanelAssumption`):

- `PanelInvariance`: `PanelSpec => []PanelIInv`. That the calls are bounded is not inductive: a token could be
  given back by a goroutine that holds none. `Counted` says that the semaphore holds as many tokens as there are
  goroutines between `Acquire` and `Release`, and the `WaitGroup` counts those that are alive; `Born` which goroutines
  there are at each point of the request;
- `PanelCallsAreBounded` and `ReportCoversCount`: `CallsAreBounded` and `SampleCoversCount` from it;
- `ReportsAreSettled`: when the report is made, no goroutine is alive, every result is its model's answer, clamped or failed, and the
  scores are those of the results;
- `NoVerdictIsLost`: `PanelSpec => []EveryVerdictCounts`. `SampleIInv` adds that the sample has no session twice, so that a case is
  one session's, and that the report has the cases of the results as they stay. Both are lists made by a loop that skips some positions:
  `InOrderHasAll` says that such a loop takes each of the others once;
- `MeansAreOnTheScale`: `PanelSpec => []PanelTypeOK`. The report's figures are means of sums over sets, rounded to tenths. `FiguresIInv` says
  that results are on the scale, and the figures of a report those of its cases. `SumWithin` bounds a sum by its smallest and largest term and
  `TenthsWithin` what rounding makes of the mean, so a case's mean is between its own lowest and highest verdict.

`IngestSyncProofs` (any machines, overlapping runs, sessions, batches, attempts, edits and failures; assumption
`SyncAssumption`):

- `ItemsHasAll`, `ChunkHasAll`: what is to be pushed, put in order and cut into batches, is there whole. The order
  is by rank (`Items`), so that every rank is taken because an injection of a finite set into itself is onto;
- `SyncInvariant`: `Spec => []SyncIInv`. That a run which ends with 0 tells the truth is a statement about its whole
  past, and nothing of it is in the last state. `Run` says where each session a run vouches for is: in
  what the store has held since the scan, or in a batch that is still queued (`Queued`), unless the run has failed. `Attempt`
  ties the attempt a run waits for to its first batch, and `Stored` says that the items its handler is past are in the
  store or have been; a handler left behind by a timeout belongs to nobody and carries no such duty. That a session found
  unchanged needs no upload rests on the manifest being what the store held when it was fetched;
- one lemma for each action: those of a handler are instances of `ItemStepKeeps` and `HandlerKeeps`, those of a run
  of `RunStepKeeps`, `AttemptFailedKeeps` and `ExitKeeps`;
- `ExitZeroIsTrue`: `Spec => ExitZeroMeansStored`; `SyncTypeOK`: `Spec => []TypeOK`.

`AnalysisProofs` (any sessions, requests, chunks, workers and crashes; assumption `AnalysisAssumption`):

- `AnalysisInvariant`: `Spec => []AnalysisIInv`. `Claims` relates `active` and `progress` to the request that is between its
  claim and its release. `Shared` describes a pool: the chunks taken are those counted in `completed` and those in a worker's call,
  the cursor is past the last chunk by no more than the workers that have ended, an answer is kept or in the hands of a worker, and all workers have ended
  only when no chunk is left; that is why no answer is lost and no progress is counted twice;
- `ClaimsAreRunning`, `ProgressIsOfARunningRequest`, `NoAnswerIsLost`, `AnalysisTypeOK` and the action property
  `ProgressOnlyAdvances`: `OneAnalysisPerSession`, `ProgressMeansRunning`, `EveryAnswerCounts`, `TypeOK`, `ProgressNeverGoesBack`.

`UiLoadsProofs` (any conversations, agents and loads under way):

- `UiInvariant`: `Spec => []UiIInv`. `Listing`: lists are those of an agent. `Selection`: a transcript's load of the current generation was started for what is selected. `Polling`: a progress
  is shown only of the selection, which is what is polled. `Rendering`: no evaluation shown or under way is of a generation ahead of the counter;
- `LateAnswersShowNothing`: `Spec => []ViewsFollowTheSelection`; `RendersGoForward`: `Spec => EvalsNeverGoBack`.

`PgWireProofs` (any callers, connections, paths, lists, operations and failures; assumption `PgWireAssumption`):

- `PgInvariant`: `PgSpec => [](Typed /\ WireIInv)`. That an answer goes to its statement is not inductive: it depends on what else could be
  on the wire. `WireIInv` says of every connection whose it is (`Lent`: idle, lent to one caller or closed) and what is in flight: nothing before a caller
  sends (`Sends`), then its statement or its answer and nothing else (`Waits`), nothing in the pool (`Kept`). It also gives the state of the
  session, which follows from the caller's place in its operation (`Before`, `After`) unless the server has noticed a break (`Gone`). A
  connection that is marked bad carries no such duty: nobody reads from it again, and that is why a deadline in the middle of an answer does no harm;
- `AnswersGoHome` and `BorrowersFindItClean`: `AnswersMatch` and `PoolIsClean` from it;
- `OnceInvariant`: `PgSpec => []OnceIInv`. `Asked`: of an operation, the statements up to the caller's place have been sent. `InFlight`: a
  statement under way was sent, has not run, and is under way once. A retry is of a statement that was never sent;
- `ImplementsAtMostOnce`: `PgSpec => StatementsRunOnce`, the refinement of `AtMostOnce` step by step: a step sends one statement, executes one
  (the server), reports one (the caller), or is a stutter (`StepIsOnce`).

And in the same module, for `ReplaceForSession`:

- `CallerOutcome`: the steps of a caller by what they come to: start, borrow, ask, continue, roll back, try again, return;
- `StoreInvariant`: `PgSpec => [](OpsIInv /\ StoreIInv)`. `OpsIInv` follows an operation: its statements are on its caller's connection as long as the
  caller is in it (`Mine`), it is not committed before its caller has sent the `COMMIT` (`Uncommitted`), an operation whose statement is under way is not committed
  and is so on no other connection (`Fresh`), and success is told only of a commit (`Reported`). An operation given up may still be
  committed by a `COMMIT` nobody waits for. `StoreIInv` follows the transaction: what its statements have written (`Doing`), that every row committed
  before it began is overwritten, deleted, or still to be visited by its `DELETE` (`Swept`), and that a `COMMIT` under way finds the replacement written
  whole (`Commits`). A commit of another keeps `Swept`, because the operation it commits was not committed when this one began, so that its rows are
  none this one had to sweep;
- `FilesAreReplacedWhole`: `PgSpec => []ReplacedWhole`.

`ExchangesProofs` (inputs of any length; assumptions `Limits`, `FileSystem`, `Requests`, `Connections`, `Pushes`, below):

- induction over data. The library's induction theorems take an operator as a parameter, which the provers cannot instantiate; `SmallestSet` does
  without: if some part of a finite set lacked a property, there would be a smallest one. With the parts of a finite set as the values
  of a function this gives `IterationExists` (the function that the fold of the community modules chooses exists), and for sequences `FoldIteration`;
- from these, one lemma for each loop of the code, which says of its state after `k` items what one more item makes of it: `CleanRuns`, `FollowRuns`,
  `OfferRuns`, `AcceptRuns`, `PutRuns`, `ReportRuns`, `StartupRuns`, `PutsRun`, `RangesRun`, and `FlattenRuns` for sequences one after the other. What a loop
  promises is then an invariant over `k`, as for an action. A sum over a set is that of its terms in any order (`AnyOrder`), hence from first to last (`SumRuns`);
- `RequestsAreAnswered`: `GrowSpec => []RequestsAreServed`. The routes are well formed (`RoutesAreWellFormed`), so two that serve one request are one
  (`OneRouteServes`), and a prefix tells whose guard it is (`ApiIsBehindAGuard`). The order of the list is strict and total, so `Ranks` gives each session a row of its own;
  `PagesRun` says that the first `k` pages are a beginning of the list. What a path leads to is named without links and dots (`LeadsToResolved`), and a path
  below the sandbox that meets no link leads to what it says (`NoLinksBelow`), so the check on what is named and the one on what it resolves to agree;
- `RunsAreAccountedFor`: `GrowSpec => []RunsAccountForEverything`. `PutBatches` is the invariant of `chunkBy`: all items taken are in the batches in order, and
  a batch that is closed is full for the item that follows. `OfferedGrows` follows what is offered of a transcript's mentions against the list of files that may and can
  be sent. `AccountsGrow` says of a report what its rows hold, the last pass of each source, and when it fails; `TotalsAdd` is about the sums;
- `ConnectionsSettle`: `GrowSpec => []ConnectionsAreSettled`. `HearsGrows` is the invariant of `startup`: a connection that still reads has heard nothing but what
  `Orderly` allows, a SCRAM exchange that is not over stands at the end of what was read, and one that is ready or failed read up to the message that decided;
  `OnRequestGrows` counts passwords against requests. A field of a URL is what the last of the steps that set it made it (`LastWriteCounts`), whatever the order in
  which the map of parameters is ranged over (`RangedAre`), because each order has every key once (`OrdersOfKeys`); without two names for one field that is the
  last value given, as it is for keywords (`KeywordsAre`). The parts of the environment are the same functions (`SettingsOfOneSource`).

The assumptions say what the inputs are, and are what TLC evaluates for the instance it checks:

- `Limits`: the agent attaches no more than the server takes, 25 (`scan/attachments.go`) of 50 files (`ingestor.go`), and 256 KiB of 512 Ki UTF-16 units, of which a
  byte gives one at most;
- `FileSystem`: a link is given with what it leads to at last, a path without dots and links (what `filepath.EvalSymlinks` returns); there are files and directories, and
  the sandbox is not a file. Nothing is assumed of where links stand or lead, or whether the sandbox itself is one;
- `Connections`: what is set is a name or blank, a query parameter is never absent, the codes of messages are numbers, and only an authentication request has one;
- `Requests`, `Pushes`: paths are sequences of segments; times, sizes, counts and limits are numbers, `BatchSize` and `MaxLimit` (constants of the code) at least one; a mention has a file behind it or none.

What the proofs asked of the models: assumptions that were only implied (`NoRow`, `NoSlot`, `NoConn`, `Free` and `Nobody` are not
values of what they mark, `Earlier` is no caller's operation; sets of sessions and of paths are finite; there are sessions), and one correction: the set of analyses of
`Analysis` was written `SUBSET Chunks \ {{}}`, which is the subsets of `Chunks \ {{}}` and has the empty set among them. Of `SelectSeq` and
`SortSeq` the provers know nothing: the items of a push, the sample of the judge, its cases and the list of conversations are put in order by rank. What a transaction
of `PgWire` has written is extended by `With`, a function of its own, and the step of each loop that is proved about has a name
(`Walk`, `Follow`, `Offered`, `Accept`, `Put`, `AddRow`, `Next`).

Only model-checked, and why:

- `RowsLeadToSessions`, `ScoresAgree`, `TranscriptsReadAlike`, `ModelSeesEveryStep`, `OnlyLimitsLeaveOut`, `TextsKeepTheirMeaning`: their
  algorithms sort and select with operators that are handed over (`SortSeq`, `SelectSeq`), or are functions that call themselves on halves and pairs; the library defines
  the former by a local recursive operator, which the provers do not expand;
- all liveness (`OperationsReturn`, `RequestEnds`, `EventuallyQuiet` and the other convergence properties, the ends of claims and polls), which is out of the prover's reach.

## 5. Plan

Done: the scan, the ingest, the eval runs and the analysis; then the driver with the store's transactions, the
judge panel, the page's loads, and the sequential code. Every safety property of a concurrent component that a run checks is
proved, and of the sequential code what is in `Exchanges`.

Proofs to follow: `TextsKeepTheirMeaning`, some of whose loops are folds as those of `Exchanges` are.

Models to follow: reports of the page without a generation of their own, further pages of the list, Antigravity's
title, the choice of a model by configuration.

## 6. Not modelled, and why
The rendering of reports (presentation, no state of its own), test servers and browser tests (not the program), requests to model
providers and the wording of prompts and schemas (text the program hands over), column conversion and message framing of the driver and the arithmetic
of MD5 and SCRAM (byte by byte, with no control worth a state), durations and dates in reports, the regular expressions of the error key. See
`components` in `PROJECT.json` for each part.
