------------------------------- MODULE Analysis -------------------------------
(***************************************************************************)
(* The analysis of a conversation by a language model:                     *)
(* AnalysisOrchestrator.Summarize of internal/ai/orchestrator.go, behind   *)
(* handleSummarizeConversation of internal/server/server.go.               *)
(*                                                                         *)
(* A request claims its session in memory, looks for a cached summary (or  *)
(* deletes it), cuts the transcript into chunks, has a pool of workers     *)
(* send them to the model, consolidates what came back, and stores the     *)
(* result.  A progress report, written by the request and by its workers,  *)
(* can be polled while the session is claimed.                             *)
(*                                                                         *)
(* A transcript stands for the chunks it is cut into.  The model answers a *)
(* call or fails it: a quota, a timeout of the HTTP client (5 or 10        *)
(* minutes), an answer that does not parse, and the end of the request's   *)
(* context, which only the calls of the model are given, are alike.  The   *)
(* calls of one consolidation succeed together or fail.  One process       *)
(* serves the requests; its claims and its progress die with it.           *)
(***************************************************************************)
EXTENDS Naturals, FiniteSets

CONSTANTS
    Sessions,
    Requests,       \* handlers of POST .../summarize
    Workers,        \* MaxConcurrentChunkAnalyses: 20 in the code
    MaxChunks,      \* bound on the chunks of a transcript
    NoRow,          \* no row in a table
    Pushed,         \* a summary that was ingested
    NoProgress,     \* nothing to poll
    MaxIngests,     \* bound on what the ingest writes meanwhile
    MaxFaults       \* bound on failing statements and crashes

ASSUME AnalysisAssumption ==
    /\ Sessions # {}
    /\ IsFiniteSet(Workers) /\ Workers # {}
    /\ NoRow \notin Nat
    /\ MaxChunks \in Nat \ {0}
    /\ MaxIngests \in Nat
    /\ MaxFaults \in Nat
    /\ NoProgress \notin Nat

VARIABLES
    transcripts,    \* [Sessions -> 0..MaxChunks \cup {NoRow}]
    summaries,      \* [Sessions -> {NoRow, Pushed} \cup analyses]
    active,         \* activeTasks: the sessions claimed
    progress,       \* progressMap: [Sessions -> 0..100 \cup {NoProgress}]
    req,            \* [Requests -> [pc, session, force, total]]
    cursor,         \* [Requests -> Nat]: the next chunk
    completed,      \* [Requests -> Nat]: the calls that have returned
    worker,         \* [Requests -> [Workers -> [at, chunk, ok, percent]]]
    results,        \* [Requests -> SUBSET chunks]: results[idx].ok
    answered,       \* history: the chunks the model answered
    ingests, faults

tables == <<transcripts, summaries>>
pool == <<cursor, completed, worker, results, answered>>
vars == <<tables, active, progress, req, pool, ingests, faults>>

Chunks == 0..(MaxChunks - 1)
Percent == 0..100
Analyses == (SUBSET Chunks) \ {{}}    \* the chunks an analysis was made from

Idle == [pc |-> "idle", session |-> CHOOSE s \in Sessions : TRUE,
         force |-> FALSE, total |-> 0]
Unborn == [at |-> "done", chunk |-> 0, ok |-> FALSE, percent |-> 0]
NoWorkers == [w \in Workers |-> Unborn]

Init ==
    /\ transcripts \in [Sessions -> (0..MaxChunks) \cup {NoRow}]
    /\ summaries \in [Sessions -> {NoRow, Pushed}]
    /\ active = {}
    /\ progress = [s \in Sessions |-> NoProgress]
    /\ req = [r \in Requests |-> Idle]
    /\ cursor = [r \in Requests |-> 0]
    /\ completed = [r \in Requests |-> 0]
    /\ worker = [r \in Requests |-> NoWorkers]
    /\ results = [r \in Requests |-> {}]
    /\ answered = [r \in Requests |-> {}]
    /\ ingests = 0
    /\ faults = 0

-------------------------------------------------------------------------------
(* The claim and the progress of a session. *)

At(r, pc) == req[r].pc = pc
Of(r) == req[r].session
Goto(r, pc) == req' = [req EXCEPT ![r].pc = pc]
SetProgress(r, percent) == progress' = [progress EXCEPT ![Of(r)] = percent]

\* A progress report that is written whatever was reported before.
OverwriteProgress(r, percent) == SetProgress(r, percent)

\* advanceProgress: never back.
AdvanceProgress(r, percent) ==
    IF progress[Of(r)] = NoProgress \/ percent > progress[Of(r)]
      THEN SetProgress(r, percent) ELSE UNCHANGED progress

\* A return that leaves the claim.
ForgetClaim(r) ==
    /\ progress' = [progress EXCEPT ![Of(r)] = NoProgress]
    /\ req' = [req EXCEPT ![r] = Idle]
    /\ UNCHANGED active

\* What the workers shared goes with the request.
DropPool(r) ==
    /\ cursor' = [cursor EXCEPT ![r] = 0]
    /\ completed' = [completed EXCEPT ![r] = 0]
    /\ results' = [results EXCEPT ![r] = {}]
    /\ answered' = [answered EXCEPT ![r] = {}]
    /\ UNCHANGED worker      \* all done, by AllDone

\* Every return of Summarize: the deferred releaseTask.
Return(r) ==
    /\ active' = active \ {Of(r)}
    /\ progress' = [progress EXCEPT ![Of(r)] = NoProgress]
    /\ req' = [req EXCEPT ![r] = Idle]

\* A statement that is refused, or committed with its answer lost: 503.
StatementFails(r) ==
    /\ faults < MaxFaults
    /\ faults' = faults + 1
    /\ Return(r)

\* A claim that is taken without a look.
Unclaimed(r) == TRUE
Claimable(r) == Of(r) \notin active

-------------------------------------------------------------------------------
(* Summarize, up to the model. *)

Request(r) ==
    /\ At(r, "idle")
    /\ \E s \in Sessions, f \in BOOLEAN :
          req' = [req EXCEPT ![r] = [pc |-> "claim", session |-> s,
                                     force |-> f, total |-> 0]]
    /\ UNCHANGED <<tables, active, progress, pool, ingests, faults>>

\* "Analysis is already running in the background".
AlreadyRunning(r) ==
    /\ At(r, "claim")
    /\ ~Claimable(r)
    /\ req' = [req EXCEPT ![r] = Idle]
    /\ UNCHANGED <<tables, active, progress, pool, ingests, faults>>

\* tryClaimTask and the first setProgress, in one step: a poll in between is
\* told of no progress yet.
Claim(r) ==
    /\ At(r, "claim")
    /\ Claimable(r)
    /\ active' = active \cup {Of(r)}
    /\ SetProgress(r, 5)
    /\ Goto(r, "exists")
    /\ UNCHANGED <<tables, pool, ingests, faults>>

\* Exists; "No transcript found."
Exists(r) ==
    /\ At(r, "exists")
    /\ \/ /\ transcripts[Of(r)] # NoRow
          /\ Goto(r, "cache")
          /\ UNCHANGED <<active, progress, faults>>
       \/ /\ transcripts[Of(r)] = NoRow
          /\ Return(r)
          /\ UNCHANGED faults
       \/ StatementFails(r)
    /\ UNCHANGED <<tables, pool, ingests>>

ReadCache(r) ==
    /\ At(r, "cache") /\ ~req[r].force
    /\ \/ /\ summaries[Of(r)] = NoRow
          /\ SetProgress(r, 10)
          /\ Goto(r, "steps")
          /\ UNCHANGED <<active, faults>>
       \/ /\ summaries[Of(r)] # NoRow
          /\ Return(r)
          /\ UNCHANGED faults
       \/ StatementFails(r)
    /\ UNCHANGED <<tables, pool, ingests>>

\* The cached summary is gone before there is another.
DeleteCached(r) ==
    /\ At(r, "cache") /\ req[r].force
    /\ \/ /\ summaries' = [summaries EXCEPT ![Of(r)] = NoRow]
          /\ SetProgress(r, 10)
          /\ Goto(r, "steps")
          /\ UNCHANGED <<active, faults>>
       \/ /\ StatementFails(r)
          /\ summaries' \in {summaries, [summaries EXCEPT ![Of(r)] = NoRow]}
    /\ UNCHANGED <<transcripts, pool, ingests>>

\* Steps, read after Exists: the transcript of now.
ReadSteps(r) ==
    /\ At(r, "steps")
    /\ \/ /\ req' = [req EXCEPT ![r].pc = "chunk", ![r].total = transcripts[Of(r)]]
          /\ SetProgress(r, 15)
          /\ UNCHANGED <<active, faults>>
       \/ StatementFails(r)
    /\ UNCHANGED <<tables, pool, ingests>>

\* "No transcript lines found."
NoLines(r) ==
    /\ At(r, "chunk")
    /\ req[r].total = 0
    /\ Return(r)
    /\ UNCHANGED <<tables, pool, ingests, faults>>

\* analyzeChunksInParallel, up to the last go statement.  The progress starts
\* anew.
StartWorkers(r) ==
    /\ At(r, "chunk")
    /\ req[r].total > 0
    /\ SetProgress(r, 0)
    /\ \E W \in SUBSET Workers :
          /\ Cardinality(W) = IF Cardinality(Workers) < req[r].total
                                THEN Cardinality(Workers) ELSE req[r].total
          /\ worker' = [worker EXCEPT ![r] = [w \in Workers |->
                IF w \in W THEN [Unborn EXCEPT !.at = "take"] ELSE Unborn]]
    /\ Goto(r, "analyze")
    /\ UNCHANGED <<tables, active, cursor, completed, results, answered, ingests, faults>>

-------------------------------------------------------------------------------
(* The workers of a request. *)

WorkerAt(r, w, at) == worker[r][w].at = at

\* int(done * 90.0 / total + 0.5).
Share(done, total) == (done * 180 + total) \div (2 * total)

\* A cursor that is read and written in two steps: an update may be lost.
TakeUnsynchronized(r, w) ==
    /\ WorkerAt(r, w, "take")
    /\ cursor' \in {cursor, [cursor EXCEPT ![r] = @ + 1]}
    /\ worker' = [worker EXCEPT ![r][w] =
          IF cursor[r] >= req[r].total THEN Unborn
          ELSE [Unborn EXCEPT !.at = "call", !.chunk = cursor[r]]]
    /\ UNCHANGED <<tables, active, progress, req, completed, results, answered,
                   ingests, faults>>

\* A worker that goes one chunk too far.
TakeTooMany(r, w) ==
    /\ WorkerAt(r, w, "take")
    /\ cursor' = [cursor EXCEPT ![r] = @ + 1]
    /\ worker' = [worker EXCEPT ![r][w] =
          IF cursor[r] > req[r].total THEN Unborn
          ELSE [Unborn EXCEPT !.at = "call", !.chunk = cursor[r]]]
    /\ UNCHANGED <<tables, active, progress, req, completed, results, answered,
                   ingests, faults>>

\* cursor.Add(1) - 1.
Take(r, w) ==
    /\ WorkerAt(r, w, "take")
    /\ cursor' = [cursor EXCEPT ![r] = @ + 1]
    /\ worker' = [worker EXCEPT ![r][w] =
          IF cursor[r] >= req[r].total THEN Unborn
          ELSE [Unborn EXCEPT !.at = "call", !.chunk = cursor[r]]]
    /\ UNCHANGED <<tables, active, progress, req, completed, results, answered,
                   ingests, faults>>

\* Analyze returns, and completed.Add(1) counts it.
ModelReturns(r, w) ==
    /\ WorkerAt(r, w, "call")
    /\ completed' = [completed EXCEPT ![r] = @ + 1]
    /\ \E ok \in BOOLEAN :
          /\ worker' = [worker EXCEPT ![r][w].at = "report", ![r][w].ok = ok,
                                ![r][w].percent = Share(completed[r] + 1, req[r].total)]
          /\ answered' = IF ok THEN [answered EXCEPT ![r] = @ \cup {worker[r][w].chunk}]
                               ELSE answered
    /\ UNCHANGED <<tables, active, progress, req, cursor, results, ingests, faults>>

\* advanceProgress with a count that others may have passed meanwhile; then
\* the result of the call is kept, if it is one.
Report(r, w) ==
    /\ WorkerAt(r, w, "report")
    /\ AdvanceProgress(r, worker[r][w].percent)
    /\ results' = IF worker[r][w].ok
                    THEN [results EXCEPT ![r] = @ \cup {worker[r][w].chunk}]
                    ELSE results
    /\ worker' = [worker EXCEPT ![r][w].at = "take"]
    /\ UNCHANGED <<tables, active, req, cursor, completed, answered, ingests, faults>>

-------------------------------------------------------------------------------
(* Summarize, from the results on. *)

\* The calls have all returned.
AllCompleted(r) == completed[r] = req[r].total

\* wg.Wait: the workers have all returned.
AllDone(r) == \A w \in Workers : worker[r][w].at = "done"

\* One result is the analysis, several are consolidated, of none there is
\* nothing to say.  A chunk without a result is passed over.
Gather(r) ==
    /\ At(r, "analyze")
    /\ AllDone(r)
    /\ \/ /\ results[r] = {}
          /\ Return(r)
          /\ DropPool(r)
       \/ /\ Cardinality(results[r]) = 1
          /\ SetProgress(r, 95)
          /\ Goto(r, "save")
          /\ UNCHANGED <<active, pool>>
       \/ /\ Cardinality(results[r]) > 1
          /\ SetProgress(r, 90)
          /\ Goto(r, "consolidate")
          /\ UNCHANGED <<active, pool>>
    /\ UNCHANGED <<tables, ingests, faults>>

\* consolidateInTiers; on a failure, the local merge goes to the client and
\* nowhere else.
Consolidate(r) ==
    /\ At(r, "consolidate")
    /\ \/ /\ SetProgress(r, 95)
          /\ Goto(r, "save")
          /\ UNCHANGED <<active, pool>>
       \/ /\ Return(r)
          /\ DropPool(r)
    /\ UNCHANGED <<tables, ingests, faults>>

\* SummaryRepo.Upsert, over whatever was ingested meanwhile.
SaveSummary(r) ==
    /\ At(r, "save")
    /\ LET stored == [summaries EXCEPT ![Of(r)] = results[r]]
       IN  \/ /\ summaries' = stored
              /\ Return(r)
              /\ UNCHANGED faults
           \/ /\ summaries' \in {summaries, stored}
              /\ StatementFails(r)
    /\ DropPool(r)
    /\ UNCHANGED <<transcripts, ingests>>

-------------------------------------------------------------------------------
(* What goes on beside it. *)

\* The ingest stores a transcript or a summary.
Ingest(s) ==
    /\ ingests < MaxIngests
    /\ ingests' = ingests + 1
    /\ \/ /\ transcripts' \in {[transcripts EXCEPT ![s] = n] : n \in 0..MaxChunks}
          /\ UNCHANGED summaries
       \/ /\ summaries' = [summaries EXCEPT ![s] = Pushed]
          /\ UNCHANGED transcripts
    /\ UNCHANGED <<active, progress, req, pool, faults>>

\* The process dies and is started again.
Crash ==
    /\ faults < MaxFaults
    /\ faults' = faults + 1
    /\ active' = {}
    /\ progress' = [s \in Sessions |-> NoProgress]
    /\ req' = [r \in Requests |-> Idle]
    /\ cursor' = [r \in Requests |-> 0]
    /\ completed' = [r \in Requests |-> 0]
    /\ worker' = [r \in Requests |-> NoWorkers]
    /\ results' = [r \in Requests |-> {}]
    /\ answered' = [r \in Requests |-> {}]
    /\ UNCHANGED <<tables, ingests>>

WorkerStep(r, w) == Take(r, w) \/ ModelReturns(r, w) \/ Report(r, w)

SummarizeStep(r) ==
    \/ AlreadyRunning(r) \/ Claim(r) \/ Exists(r) \/ ReadCache(r) \/ DeleteCached(r)
    \/ ReadSteps(r) \/ NoLines(r) \/ StartWorkers(r) \/ Gather(r) \/ Consolidate(r)
    \/ SaveSummary(r)

Next ==
    \/ \E r \in Requests : Request(r) \/ SummarizeStep(r)
    \/ \E r \in Requests, w \in Workers : WorkerStep(r, w)
    \/ \E s \in Sessions : Ingest(s)
    \/ Crash

Spec == Init /\ [][Next]_vars

\* The goroutines run, and every call of the model returns: the HTTP clients
\* have timeouts.
FairSpec ==
    /\ Spec
    /\ \A r \in Requests : WF_vars(SummarizeStep(r))
    /\ \A r \in Requests, w \in Workers : WF_vars(WorkerStep(r, w))

-------------------------------------------------------------------------------
(* Properties. *)

TypeOK ==
    /\ transcripts \in [Sessions -> (0..MaxChunks) \cup {NoRow}]
    /\ summaries \in [Sessions -> Analyses \cup {NoRow, Pushed}]
    /\ active \subseteq Sessions
    /\ progress \in [Sessions -> Percent \cup {NoProgress}]
    /\ \A r \in Requests :
          /\ req[r] \in [pc : {"idle", "claim", "exists", "cache", "steps", "chunk",
                               "analyze", "consolidate", "save"},
                         session : Sessions, force : BOOLEAN, total : 0..MaxChunks]
          /\ cursor[r] \in 0..(MaxChunks + Cardinality(Workers))
          /\ completed[r] \in 0..MaxChunks
          /\ worker[r] \in [Workers -> [at : {"take", "call", "report", "done"},
                chunk : Chunks, ok : BOOLEAN, percent : Percent]]
          /\ results[r] \subseteq Chunks

Running(r) == ~At(r, "idle") /\ ~At(r, "claim")

\* A session is analysed by one request at a time, and no session stays claimed
\* by a request that is over, whichever way it ended: the claims are the
\* sessions of the running requests.
OneAnalysisPerSession ==
    /\ active = {Of(r) : r \in {q \in Requests : Running(q)}}
    /\ \A r, q \in Requests : Running(r) /\ Running(q) /\ Of(r) = Of(q) => r = q

\* What can be polled is the progress of a request that runs: no worker, whose
\* report would start a progress anew, is left behind by a request that is over.
\* (The code has claimed sessions without a progress, between tryClaimTask and
\* the first setProgress, which Claim takes as one step.)
ProgressMeansRunning ==
    \A s \in Sessions : progress[s] # NoProgress => s \in active

\* The workers share the chunks: in the end every chunk was sent to the model
\* exactly once, and the analysis is made from every answer of the model.
EveryAnswerCounts ==
    \A r \in Requests :
        At(r, "consolidate") \/ At(r, "save") =>
            completed[r] = req[r].total /\ results[r] = answered[r]

\* The workers report in any order, and the progress of an analysis never goes
\* back once its chunks are being processed.
ProgressNeverGoesBack ==
    [][\A s \in Sessions :
          progress[s] # NoProgress /\ progress'[s] # NoProgress =>
             \/ progress'[s] >= progress[s]
             \/ \E r \in Requests : Of(r) = s /\ StartWorkers(r)]_vars

\* Every request comes to its end, and every claim with it: no session is
\* locked out of analysis for good.
ClaimsEnd == \A s \in Sessions : s \in active ~> s \notin active
===============================================================================
