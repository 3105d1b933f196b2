----------------------------- MODULE JudgePanel -----------------------------
(***************************************************************************)
(* A request that asks the model about many sessions at once: the judge of *)
(* GET /api/eval (internal/insights/eval.go, ForFlavor and runJudge) and   *)
(* the prompt comparison of POST /api/optimize (optimize.go, Compare).     *)
(*                                                                         *)
(* The request counts the sessions, collects the newest of them, takes a   *)
(* sample of those it can use, and starts one goroutine per session and    *)
(* reviewer (a lens of the judge, or one of the two prompts), all at once. *)
(* A semaphore bounds how many call the model.  When all have returned, a  *)
(* report is made of the verdicts that arrived.                            *)
(*                                                                         *)
(* A verdict is one rating: the criteria of a judge's verdict are treated  *)
(* alike, and one stands for each.  A mean is kept in tenths, exactly,     *)
(* where the code rounds a float64.                                        *)
(***************************************************************************)
EXTENDS Integers, Sequences, FiniteSets, FiniteSetsExt, SequencesExt

CONSTANTS
    Reviewers,      \* JudgeLenses, or the prompts A and B
    Ratings,        \* what a model may answer, out of range included
    MaxSessions,    \* sessions collected: 150 in the code
    SampleLimit,    \* JudgeMaxSessions (12), or MaxSample (5)
    Concurrency,    \* judgeConcurrency (8), or optimizeConcurrency (6)
    MaxStored,      \* bound on the sessions in the store
    Failed,         \* a call that brought no verdict
    Unset           \* a verdict that is not there yet

ASSUME PanelAssumption ==
    /\ IsFiniteSet(Reviewers) /\ Reviewers # {}
    /\ Ratings \subseteq Int /\ Failed \notin Int /\ Unset \notin Int /\ Failed # Unset
    /\ Concurrency \in Nat \ {0}
    /\ MaxSessions \in Nat /\ SampleLimit \in Nat \ {0} /\ MaxStored \in Nat

VARIABLES
    stored,     \* the store's sessions, newest first: TRUE if the request can use one
    total,      \* CountBySource
    sample,     \* positions, in what was collected, of the sessions asked about
    collected,  \* how many were collected
    pc,         \* the request
    task,       \* [Tasks -> step of the goroutine]
    sem,        \* tokens in the semaphore's channel
    wg,         \* the counter of the WaitGroup
    panels,     \* [Tasks -> rating, Failed or Unset]: the shared results
    report,
    answered    \* history: [Tasks -> what the model answered]

shared == <<sem, wg, panels, answered>>
vars == <<stored, total, sample, collected, pc, task, report, shared>>

Tasks == (1..SampleLimit) \X Reviewers
Asked == (1..Len(sample)) \X Reviewers
NoReport == [judged |-> <<>>, overall |-> 0, scored |-> [r \in Reviewers |-> 0],
             sampled |-> 0, total |-> 0]

PanelInit ==
    /\ stored \in UNION {[1..n -> BOOLEAN] : n \in 0..MaxStored}
    /\ total = 0 /\ sample = <<>> /\ collected = 0
    /\ pc = "count"
    /\ task = [t \in Tasks |-> "unborn"]
    /\ sem = 0 /\ wg = 0
    /\ panels = [t \in Tasks |-> Unset]
    /\ answered = [t \in Tasks |-> Unset]
    /\ report = NoReport

-----------------------------------------------------------------------------
(* The store meanwhile. *)

\* Until the request has collected its sessions: it does not look again.
Ingest(usable) ==
    /\ pc \in {"count", "collect"} /\ Len(stored) < MaxStored
    /\ stored' = <<usable>> \o stored
    /\ UNCHANGED <<total, sample, collected, pc, task, report, shared>>

-----------------------------------------------------------------------------
(* The request, up to the goroutines. *)

Count ==
    /\ pc = "count"
    /\ total' = Len(stored)
    /\ pc' = "collect"
    /\ UNCHANGED <<stored, sample, collected, task, report, shared>>

\* A loop over a list that skips some: the positions it takes, in order.
InOrder(S) == [n \in 1..Cardinality(S) |->
                  CHOOSE i \in S : Cardinality({j \in S : j <= i}) = n]

\* The sessions collected that have an analysis (Compare: a transcript), in
\* order, and the first SampleLimit of them.
Usable(rows) == InOrder({i \in DOMAIN rows : rows[i]})
\* Mutant of FirstOf: one too few.
FirstButOneOf(s, n) == SubSeq(s, 1, Min({n - 1, Len(s)}))
FirstOf(s, n) == SubSeq(s, 1, Min({n, Len(s)}))
Sampled(rows) == FirstOf(Usable(rows), SampleLimit)

Collect ==
    /\ pc = "collect"
    /\ LET rows == FirstOf(stored, MaxSessions) IN
          /\ collected' = Len(rows)
          /\ sample' = Sampled(rows)
    /\ pc' = IF sample' = <<>> THEN "answer" ELSE "spawn"
    /\ stored' = <<>>      \* not read again: what it holds is forgotten
    /\ UNCHANGED <<total, task, report, shared>>

\* Mutant: a goroutine that is started is not counted.
AddLater == UNCHANGED wg
Add == wg' = wg + 1

\* The goroutines are started in order, session by session.
Spawn(t) ==
    /\ pc = "spawn" /\ t \in Asked /\ task[t] = "unborn"
    /\ \A u \in Asked : u[1] < t[1] => task[u] # "unborn"
    /\ Add
    /\ task' = [task EXCEPT ![t] = "ready"]
    /\ UNCHANGED <<stored, total, sample, collected, pc, report, sem, panels, answered>>

Spawned ==
    /\ pc = "spawn" /\ \A t \in Asked : task[t] # "unborn"
    /\ pc' = "wait"
    /\ UNCHANGED <<stored, total, sample, collected, task, report, shared>>

-----------------------------------------------------------------------------
(* A goroutine. *)

Step(t, from, to) == task[t] = from /\ task' = [task EXCEPT ![t] = to]

\* Mutant: a semaphore with room for one more.
RoomForOneMore == sem <= Concurrency
Room == sem < Concurrency

Acquire(t) ==
    /\ Step(t, "ready", "calling")
    /\ Room
    /\ sem' = sem + 1
    /\ UNCHANGED <<stored, total, sample, collected, pc, report, wg, panels, answered>>

\* The model answers, or the call fails: an error of the service, an answer
\* that does not parse, the HTTP client's timeout, or the end of the request's
\* context, because its client has gone.
Call(t) ==
    /\ Step(t, "calling", "called")
    /\ \E v \in {Failed} \cup Ratings : answered' = [answered EXCEPT ![t] = v]
    /\ UNCHANGED <<stored, total, sample, collected, pc, report, sem, wg, panels>>

Clamped(v) == IF v < 1 THEN 1 ELSE IF v > 5 THEN 5 ELSE v

\* Mutant: a rating is taken as the model gave it.
VerdictAsGiven(v) == v
Verdict(v) == IF v = Failed THEN Failed ELSE Clamped(v)

Write(t) ==
    /\ Step(t, "called", "written")
    /\ panels' = [panels EXCEPT ![t] = Verdict(answered[t])]
    /\ UNCHANGED <<stored, total, sample, collected, pc, report, sem, wg, answered>>

\* Mutant: a failed verdict keeps its token.
ReleaseUnlessFailed(t) ==
    /\ Step(t, "written", "released")
    /\ sem' = IF panels[t] = Failed THEN sem ELSE sem - 1
    /\ UNCHANGED <<stored, total, sample, collected, pc, report, wg, panels, answered>>

\* The deferred calls, in reverse order: the token, then wg.Done.
Release(t) ==
    /\ Step(t, "written", "released")
    /\ sem' = sem - 1
    /\ UNCHANGED <<stored, total, sample, collected, pc, report, wg, panels, answered>>

Done(t) ==
    /\ Step(t, "released", "done")
    /\ wg' = wg - 1
    /\ UNCHANGED <<stored, total, sample, collected, pc, report, sem, panels, answered>>

-----------------------------------------------------------------------------
(* The report. *)

WaitOver ==
    /\ pc = "wait" /\ wg <= 0
    /\ pc' = "answer"
    /\ UNCHANGED <<stored, total, sample, collected, task, report, shared>>

\* A mean of n values in tenths, rounded half up (the values are positive).
Tenths(sum, n) == (20 * sum + n) \div (2 * n)

Verdicts(p, i) == {t \in {i} \X Reviewers : p[t] \notin {Failed, Unset}}
SumOf(f, S) == MapThenSumSet(LAMBDA x : f[x], S)

\* ensembleJudgeVerdicts: a session with a verdict becomes a case.
Case(p, i) == LET ts == Verdicts(p, i) IN
    [position |-> sample[i], samples |-> Cardinality(ts),
     mean |-> Tenths(SumOf(p, ts), Cardinality(ts)),
     low |-> 10 * Min({p[t] : t \in ts}), high |-> 10 * Max({p[t] : t \in ts})]

Cases(p) == LET judged == InOrder({i \in DOMAIN sample : Verdicts(p, i) # {}})
            IN  [i \in DOMAIN judged |-> Case(p, judged[i])]

\* The judge's summary averages the cases.
Overall(cases) == IF cases = <<>> THEN 0
    ELSE (2 * SumOf([i \in DOMAIN cases |-> cases[i].mean], DOMAIN cases) + Len(cases)) \div (2 * Len(cases))

\* Compare reports each prompt by itself: how many of its answers were scored.
Scored(p, r) == Cardinality({i \in DOMAIN sample : p[<<i, r>>] \notin {Failed, Unset}})

Answer ==
    /\ pc = "answer"
    /\ report' = [judged |-> Cases(panels), overall |-> Overall(Cases(panels)),
                  scored |-> [r \in Reviewers |-> Scored(panels, r)],
                  sampled |-> collected, total |-> total]
    /\ pc' = "done"
    /\ UNCHANGED <<stored, total, sample, collected, task, shared>>

-----------------------------------------------------------------------------
Goroutine(t) == Acquire(t) \/ Call(t) \/ Write(t) \/ Release(t) \/ Done(t)
Handler == Count \/ Collect \/ (\E t \in Tasks : Spawn(t)) \/ Spawned \/ WaitOver \/ Answer

PanelNext ==
    \/ \E usable \in BOOLEAN : Ingest(usable)
    \/ Handler
    \/ \E t \in Tasks : Goroutine(t)

\* Goroutines are scheduled, and a call of the model ends: the HTTP clients
\* have timeouts of 5 and 10 minutes.
PanelFairness == WF_vars(Handler) /\ \A t \in Tasks : WF_vars(Goroutine(t))

PanelSpec == PanelInit /\ [][PanelNext]_vars
FairPanelSpec == PanelSpec /\ PanelFairness

-----------------------------------------------------------------------------
Alive == {t \in Tasks : task[t] \notin {"unborn", "done"}}
Holding == {t \in Tasks : task[t] \in {"calling", "called", "written"}}

PanelTypeOK ==
    /\ pc \in {"count", "collect", "spawn", "wait", "answer", "done"}
    /\ task \in [Tasks -> {"unborn", "ready", "calling", "called", "written", "released", "done"}]
    /\ sem \in Nat /\ wg \in Int
    /\ sample \in Seq(Nat) /\ Len(sample) <= SampleLimit
    /\ answered \in [Tasks -> Ratings \cup {Failed, Unset}]
    /\ panels \in [Tasks -> (1..5) \cup {Failed, Unset}]
    /\ \A c \in Range(report.judged) :
          10 <= c.low /\ c.low <= c.mean /\ c.mean <= c.high /\ c.high <= 50
    /\ report.judged # <<>> => report.overall \in 10..50

\* At most Concurrency calls of the model are under way, whatever has failed,
\* and each goroutine that calls holds a token of its own.
CallsAreBounded ==
    /\ Cardinality({t \in Tasks : task[t] = "calling"}) <= Concurrency
    /\ sem = Cardinality(Holding)

\* The report is made when no goroutine can write to the results any more,
\* and of every verdict that arrived: one case for each sampled session that
\* has one, with as many samples as reviewers answered, and for each prompt
\* as many scores as sessions it was answered for.
EveryVerdictCounts == pc = "done" =>
    /\ Alive = {}
    /\ \A i \in DOMAIN sample :
          LET got == {l \in Reviewers : answered[<<i, l>>] \notin {Failed, Unset}}
          IN  \/ got = {} /\ \A c \in Range(report.judged) : c.position # sample[i]
              \/ \E c \in Range(report.judged) : c.position = sample[i] /\ c.samples = Cardinality(got)
    /\ \A r \in Reviewers : report.scored[r] =
          Cardinality({i \in DOMAIN sample : answered[<<i, r>>] \notin {Failed, Unset}})

\* The count is taken before the sessions are collected and no session is ever
\* removed: a report covers all the sessions it counted, or MaxSessions.
SampleCoversCount == pc = "done" => report.sampled >= Min({report.total, MaxSessions})

\* Every request ends, with however many failed calls.
RequestEnds == <>(pc = "done")
=============================================================================
