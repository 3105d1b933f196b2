---------------------------- MODULE AnalysisProofs ----------------------------
(***************************************************************************)
(* The analysis of a conversation, for any number of sessions, requests,   *)
(* workers and chunks: the claims are the sessions of the running          *)
(* requests, the pool sends every chunk to the model and loses no answer,  *)
(* and the progress that can be polled never goes back.                    *)
(***************************************************************************)
EXTENDS Analysis, FiniteSetTheorems, TLAPS

Early == {"idle", "claim", "exists", "cache", "steps", "chunk"}
Pooled == {"analyze", "consolidate", "save"}
RequestType == [pc : Early \cup Pooled, session : Sessions, force : BOOLEAN,
                total : 0..MaxChunks]
WorkerType == [at : {"take", "call", "report", "done"}, chunk : Chunks,
               ok : BOOLEAN, percent : 0..90]

\* What can be polled while a request is at pc.
ShownAt(pc) ==
    IF pc \in {"exists", "cache"} THEN {5} ELSE
    IF pc = "steps" THEN {10} ELSE
    IF pc = "chunk" THEN {15} ELSE
    IF pc = "analyze" THEN 0..90 ELSE
    IF pc = "consolidate" THEN {90} ELSE
    IF pc = "save" THEN {95} ELSE {}

\* A transcript that was there when the request looked is still there: nothing
\* deletes one.
Tables ==
    /\ transcripts \in [Sessions -> (0..MaxChunks) \cup {NoRow}]
    /\ summaries \in [Sessions -> Analyses \cup {NoRow, Pushed}]
    /\ req \in [Requests -> RequestType]
    /\ \A r \in Requests :
          req[r].pc \in {"cache", "steps"} => transcripts[Of(r)] # NoRow

\* A session is claimed by the one request that runs on it, and what can be
\* polled of it tells where that request is.
Claims ==
    /\ active \subseteq Sessions
    /\ progress \in [Sessions -> Percent \cup {NoProgress}]
    /\ \A s \in Sessions : s \in active <=> \E r \in Requests : Running(r) /\ Of(r) = s
    /\ \A r, q \in Requests : Running(r) /\ Running(q) /\ Of(r) = Of(q) => r = q
    /\ \A s \in Sessions : progress[s] # NoProgress <=> s \in active
    /\ \A r \in Requests : Running(r) => progress[Of(r)] \in ShownAt(req[r].pc)

Calling(r) == {w \in Workers : WorkerAt(r, w, "call")}
Finished(r) == {w \in Workers : WorkerAt(r, w, "done")}

\* The answers that a worker has and has not yet kept.
Unkept(r) == {c \in Chunks : \E w \in Workers :
                 /\ WorkerAt(r, w, "report") /\ worker[r][w].ok
                 /\ worker[r][w].chunk = c}

Taken(r) == IF cursor[r] < req[r].total THEN cursor[r] ELSE req[r].total

\* A chunk that was taken is in a call or was counted, an answer is kept or in
\* the hands of a worker, and a worker only ends when no chunk is left.
Shared(r) ==
    /\ req[r].total > 0
    /\ completed[r] + Cardinality(Calling(r)) = Taken(r)
    /\ cursor[r] <= req[r].total + Cardinality(Finished(r))
    /\ answered[r] = results[r] \cup Unkept(r)
    /\ AllDone(r) => cursor[r] >= req[r].total

PoolOf(r) ==
    /\ req[r].pc \in Early =>
          cursor[r] = 0 /\ completed[r] = 0 /\ results[r] = {} /\ answered[r] = {}
    /\ req[r].pc \in Pooled => Shared(r)
    /\ req[r].pc # "analyze" => AllDone(r)
    /\ req[r].pc \in {"consolidate", "save"} => results[r] # {}

PoolTyped ==
    /\ cursor \in [Requests -> Nat]
    /\ completed \in [Requests -> Nat]
    /\ worker \in [Requests -> [Workers -> WorkerType]]
    /\ results \in [Requests -> SUBSET Chunks]
    /\ answered \in [Requests -> SUBSET Chunks]

AnalysisIInv ==
    /\ Tables
    /\ Claims
    /\ PoolTyped
    /\ \A r \in Requests : PoolOf(r)

-------------------------------------------------------------------------------
(* Facts about the parts. *)

LEMMA RequestFacts ==
    ASSUME Tables, NEW r \in Requests
    PROVE  /\ req[r] \in RequestType /\ req[r].pc \in Early \cup Pooled
           /\ Of(r) \in Sessions /\ req[r].total \in 0..MaxChunks
           /\ req[r].total \in Nat
BY AnalysisAssumption DEF Tables, RequestType, Of

\* A request that has returned.
LEMMA IdleTyped == Idle \in RequestType /\ Idle.pc = "idle" /\ Idle.total = 0
BY AnalysisAssumption DEF Idle, RequestType, Early

\* What is shown at each point of Summarize is a percentage.
LEMMA ShownIsPercent ==
    ASSUME NEW pc, NEW p \in ShownAt(pc)
    PROVE  p \in Percent /\ p \in Nat /\ p # NoProgress
BY AnalysisAssumption DEF ShownAt, Percent

\* The progress after so many returned calls is a percentage below 90.
LEMMA ShareIsBounded ==
    ASSUME NEW total \in Nat \ {0}, NEW done \in Nat, done <= total
    PROVE  Share(done, total) \in 0..90
<1> DEFINE n == done * 180 + total
           m == 2 * total
<1>1. n \in Nat /\ m \in Nat /\ m > 0 /\ n < 91 * m
  OBVIOUS
<1>2. \A a \in Nat, b \in Nat : b > 0 /\ a < 91 * b => a \div b \in 0..90
  OBVIOUS
<1>3. n \div m \in 0..90
  <2> HIDE DEF n, m
  <2> QED BY <1>1, <1>2
<1> QED BY <1>3 DEF Share

\* Workers are finitely many, whatever they are at.
LEMMA WorkersAreCounted ==
    ASSUME NEW r
    PROVE  /\ IsFiniteSet(Calling(r)) /\ Cardinality(Calling(r)) \in Nat
           /\ IsFiniteSet(Finished(r)) /\ Cardinality(Finished(r)) \in Nat
           /\ Cardinality(Finished(r)) <= Cardinality(Workers)
           /\ Cardinality(Workers) \in Nat
<1>1. Calling(r) \in SUBSET Workers /\ Finished(r) \in SUBSET Workers
  BY DEF Calling, Finished
<1> QED BY <1>1, AnalysisAssumption, FS_Subset, FS_CardinalityType

\* Without a call, without an unkept answer: a pool whose workers have ended.
LEMMA DonePool ==
    ASSUME NEW r, AllDone(r)
    PROVE  Calling(r) = {} /\ Cardinality(Calling(r)) = 0 /\ Unkept(r) = {}
<1>1. Calling(r) = {} /\ Unkept(r) = {}
  BY DEF AllDone, Calling, Unkept, WorkerAt
<1> QED BY <1>1, FS_EmptySet

-------------------------------------------------------------------------------
(* The first state. *)

LEMMA InitIInv == Init => AnalysisIInv
<1> SUFFICES ASSUME Init PROVE AnalysisIInv
  OBVIOUS
<1>1. Tables
  BY IdleTyped DEF Init, Tables
<1>2. \A r \in Requests : ~Running(r)
  BY DEF Init, Running, At, Idle
<1>3. Claims
  BY <1>2, AnalysisAssumption DEF Init, Claims
<1>4. PoolTyped
  BY AnalysisAssumption DEF Init, PoolTyped, NoWorkers, Unborn, WorkerType, Chunks
<1>5. ASSUME NEW r \in Requests PROVE PoolOf(r)
  <2>1. req[r].pc = "idle"
    BY DEF Init, Idle
  <2>2. AllDone(r)
    BY DEF Init, AllDone, NoWorkers, Unborn
  <2> QED BY <2>1, <2>2 DEF Init, PoolOf, Pooled
<1> QED BY <1>1, <1>3, <1>4, <1>5 DEF AnalysisIInv

-------------------------------------------------------------------------------
(* What a step does to the claims, by its kind. *)

\* A request that runs goes on, and what can be polled of it with it.
LEMMA MoveKeepsClaims ==
    ASSUME Tables, Claims, NEW r \in Requests, Running(r),
           Tables',
           \A q \in Requests : q # r => req'[q] = req[q],
           Running(r)', Of(r)' = Of(r),
           NEW p \in ShownAt(req'[r].pc),
           progress' = [progress EXCEPT ![Of(r)] = p],
           active' = active
    PROVE  Claims'
<1>1. Of(r) \in Sessions /\ p \in Percent /\ p # NoProgress
  BY RequestFacts, ShownIsPercent
<1>2. \A q \in Requests : Running(q)' <=> Running(q)
  BY DEF Running, At
<1>3. \A q \in Requests : Of(q)' = Of(q)
  BY DEF Of
<1>4. \A q \in Requests : Running(q) /\ q # r => Of(q) # Of(r)
  BY DEF Claims
<1>5. \A q \in Requests : Of(q) \in Sessions
  BY RequestFacts
<1>6. Of(r) \in active
  BY <1>1 DEF Claims
<1>7. progress' \in [Sessions -> Percent \cup {NoProgress}]
  BY <1>1 DEF Claims
<1>8. \A s \in Sessions : progress'[s] # NoProgress <=> s \in active'
  BY <1>1, <1>6 DEF Claims
<1>9. ASSUME NEW q \in Requests, Running(q)'
      PROVE  progress'[Of(q)'] \in ShownAt(req'[q].pc)
  <2>1. CASE q = r
    BY <2>1, <1>1 DEF Claims
  <2>2. CASE q # r
    BY <2>2, <1>2, <1>3, <1>4, <1>5, <1>9 DEF Claims
  <2> QED BY <2>1, <2>2
<1>10. \A s \in Sessions : s \in active' <=> \E q \in Requests : Running(q)' /\ Of(q)' = s
  BY <1>2, <1>3 DEF Claims
<1>11. \A t, q \in Requests : Running(t)' /\ Running(q)' /\ Of(t)' = Of(q)' => t = q
  BY <1>2, <1>3 DEF Claims
<1> QED BY <1>7, <1>8, <1>9, <1>10, <1>11 DEF Claims

\* A request that returns takes its claim and its progress with it.
LEMMA ReturnKeepsClaims ==
    ASSUME Tables, Claims, NEW r \in Requests, Running(r), Return(r)
    PROVE  Claims'
<1>1. Of(r) \in Sessions
  BY RequestFacts
<1>2. \A q \in Requests : q # r => req'[q] = req[q]
  BY DEF Return
<1>3. req'[r] = Idle
  BY DEF Return, Tables
<1>4. \A q \in Requests : Running(q)' <=> Running(q) /\ q # r
  BY <1>2, <1>3, IdleTyped DEF Running, At
<1>5. \A q \in Requests : q # r => Of(q)' = Of(q)
  BY <1>2 DEF Of
<1>6. \A q \in Requests : Running(q) /\ q # r => Of(q) # Of(r)
  BY DEF Claims
<1>7. \A q \in Requests : Of(q) \in Sessions
  BY RequestFacts
<1>8. progress' \in [Sessions -> Percent \cup {NoProgress}] /\ active' \subseteq Sessions
  BY DEF Claims, Return
<1>9. \A s \in Sessions : progress'[s] # NoProgress <=> s \in active'
  BY <1>1 DEF Claims, Return
<1>10. ASSUME NEW q \in Requests, Running(q)'
       PROVE  progress'[Of(q)'] \in ShownAt(req'[q].pc)
  <2>1. q # r /\ Running(q) /\ Of(q)' = Of(q) /\ Of(q) # Of(r) /\ req'[q] = req[q]
    BY <1>10, <1>2, <1>4, <1>5, <1>6
  <2>2. progress'[Of(q)] = progress[Of(q)]
    BY <2>1, <1>7 DEF Return, Claims
  <2> QED BY <2>1, <2>2 DEF Claims
<1>11. \A s \in Sessions : s \in active' <=> \E q \in Requests : Running(q)' /\ Of(q)' = s
  <2>1. active' = active \ {Of(r)}
    BY DEF Return
  <2> QED BY <2>1, <1>4, <1>5, <1>6 DEF Claims
<1>12. \A t, q \in Requests : Running(t)' /\ Running(q)' /\ Of(t)' = Of(q)' => t = q
  BY <1>4, <1>5 DEF Claims
<1> QED BY <1>8, <1>9, <1>10, <1>11, <1>12 DEF Claims

\* A request that holds no claim, before and after.
LEMMA BystanderKeepsClaims ==
    ASSUME Tables, Claims, NEW r \in Requests, ~Running(r), ~Running(r)',
           \A q \in Requests : q # r => req'[q] = req[q],
           UNCHANGED <<active, progress>>
    PROVE  Claims'
<1>1. \A q \in Requests : Running(q)' <=> Running(q)
  BY DEF Running, At
<1>2. \A q \in Requests : Running(q) => Of(q)' = Of(q) /\ req'[q] = req[q]
  BY DEF Of
<1> QED BY <1>1, <1>2 DEF Claims

\* A step of the tables alone leaves the claims.
LEMMA SameClaims ==
    ASSUME Claims, UNCHANGED <<active, progress, req>>
    PROVE  Claims'
BY DEF Claims, Running, At, Of

-------------------------------------------------------------------------------
(* What a step does to the tables and the pools, by its kind. *)

\* A request moves on.
LEMMA GotoKeepsTables ==
    ASSUME Tables, NEW r \in Requests, UNCHANGED transcripts,
           summaries' \in [Sessions -> Analyses \cup {NoRow, Pushed}],
           NEW x \in RequestType, req' = [req EXCEPT ![r] = x],
           x.pc \in {"cache", "steps"} => transcripts[x.session] # NoRow
    PROVE  Tables' /\ req'[r] = x /\ \A q \in Requests : q # r => req'[q] = req[q]
<1>1. req' \in [Requests -> RequestType] /\ req'[r] = x
      /\ \A q \in Requests : q # r => req'[q] = req[q]
  BY DEF Tables
<1>2. ASSUME NEW q \in Requests, req'[q].pc \in {"cache", "steps"}
      PROVE  transcripts'[Of(q)'] # NoRow
  BY <1>1, <1>2 DEF Of, Tables
<1> QED BY <1>1, <1>2 DEF Tables

\* A request returns.
LEMMA ReturnKeepsTables ==
    ASSUME Tables, NEW r \in Requests, UNCHANGED transcripts,
           summaries' \in [Sessions -> Analyses \cup {NoRow, Pushed}],
           req' = [req EXCEPT ![r] = Idle]
    PROVE  /\ Tables' /\ req'[r] = Idle /\ ~Running(r)'
           /\ \A q \in Requests : q # r => req'[q] = req[q]
<1>1. Tables' /\ req'[r] = Idle /\ \A q \in Requests : q # r => req'[q] = req[q]
  BY IdleTyped, GotoKeepsTables
<1> QED BY <1>1, IdleTyped DEF Running, At

\* The pools of the requests that a step leaves alone.
LEMMA OthersKeepPool ==
    ASSUME AnalysisIInv, NEW q \in Requests, req'[q] = req[q],
           cursor'[q] = cursor[q], completed'[q] = completed[q],
           worker'[q] = worker[q], results'[q] = results[q], answered'[q] = answered[q]
    PROVE  PoolOf(q)'
<1>1. PoolOf(q)
  BY DEF AnalysisIInv
<1>2. /\ Calling(q)' = Calling(q) /\ Finished(q)' = Finished(q)
      /\ Unkept(q)' = Unkept(q) /\ Taken(q)' = Taken(q)
      /\ AllDone(q)' = AllDone(q)
  BY DEF Calling, Finished, Unkept, Taken, AllDone, WorkerAt
<1>3. Shared(q)' <=> Shared(q)
  BY <1>2 DEF Shared
<1> QED BY <1>1, <1>2, <1>3 DEF PoolOf

\* A request that has no pool, before and after.
LEMMA EarlyKeepsPools ==
    ASSUME AnalysisIInv, NEW r \in Requests, UNCHANGED pool,
           \A q \in Requests : q # r => req'[q] = req[q],
           req[r].pc \in Early, req'[r].pc \in Early
    PROVE  PoolTyped' /\ \A q \in Requests : PoolOf(q)'
<1>1. PoolTyped'
  BY DEF AnalysisIInv, PoolTyped, pool
<1>2. \A q \in Requests : q # r => PoolOf(q)'
  BY OthersKeepPool DEF pool
<1>3. PoolOf(r) /\ AllDone(r)
  BY DEF AnalysisIInv, PoolOf, Early
<1>4. AllDone(r)'
  BY <1>3 DEF AllDone, pool
<1>5. PoolOf(r)'
  BY <1>3, <1>4 DEF PoolOf, pool, Early, Pooled
<1> QED BY <1>1, <1>2, <1>5

\* A return that drops its pool.
LEMMA DropKeepsPools ==
    ASSUME AnalysisIInv, NEW r \in Requests, AllDone(r), DropPool(r),
           req'[r] = Idle, \A q \in Requests : q # r => req'[q] = req[q]
    PROVE  PoolTyped' /\ \A q \in Requests : PoolOf(q)'
<1>1. PoolTyped'
  BY DEF AnalysisIInv, PoolTyped, DropPool
<1>2. ASSUME NEW q \in Requests, q # r PROVE PoolOf(q)'
  <2>1. /\ cursor'[q] = cursor[q] /\ completed'[q] = completed[q]
        /\ worker'[q] = worker[q] /\ results'[q] = results[q] /\ answered'[q] = answered[q]
    BY <1>2 DEF DropPool, AnalysisIInv, PoolTyped
  <2> QED BY <2>1, <1>2, OthersKeepPool
<1>3. AllDone(r)'
  BY DEF AllDone, DropPool
<1>4. /\ cursor'[r] = 0 /\ completed'[r] = 0 /\ results'[r] = {} /\ answered'[r] = {}
  BY DEF DropPool, AnalysisIInv, PoolTyped
<1>5. PoolOf(r)'
  BY <1>3, <1>4, IdleTyped DEF PoolOf, Pooled
<1> QED BY <1>1, <1>2, <1>5

\* A request that goes on with the pool it has.
LEMMA GatheredKeepsPools ==
    ASSUME AnalysisIInv, NEW r \in Requests, UNCHANGED pool, AllDone(r),
           req[r].pc \in Pooled, req'[r].pc \in {"consolidate", "save"},
           req'[r].total = req[r].total, results[r] # {},
           \A q \in Requests : q # r => req'[q] = req[q]
    PROVE  PoolTyped' /\ \A q \in Requests : PoolOf(q)'
<1>1. PoolTyped'
  BY DEF AnalysisIInv, PoolTyped, pool
<1>2. \A q \in Requests : q # r => PoolOf(q)'
  BY OthersKeepPool DEF pool
<1>3. Shared(r)
  BY DEF AnalysisIInv, PoolOf
<1>4. /\ Calling(r)' = Calling(r) /\ Finished(r)' = Finished(r)
      /\ Unkept(r)' = Unkept(r) /\ Taken(r)' = Taken(r) /\ AllDone(r)'
  BY DEF Calling, Finished, Unkept, Taken, AllDone, WorkerAt, pool
<1>5. Shared(r)'
  BY <1>3, <1>4 DEF Shared, pool
<1>6. PoolOf(r)'
  BY <1>4, <1>5 DEF PoolOf, Early, pool
<1> QED BY <1>1, <1>2, <1>6

-------------------------------------------------------------------------------
(* Summarize, up to the model. *)

LEMMA RequestKeeps ==
    ASSUME AnalysisIInv, NEW r \in Requests, Request(r)
    PROVE  AnalysisIInv'
<1> USE DEF AnalysisIInv
<1>1. PICK s \in Sessions, f \in BOOLEAN :
        req' = [req EXCEPT ![r] = [pc |-> "claim", session |-> s,
                                   force |-> f, total |-> 0]]
  BY DEF Request
<1> DEFINE x == [pc |-> "claim", session |-> s, force |-> f, total |-> 0]
<1>2. x \in RequestType
  BY AnalysisAssumption DEF RequestType, Early
<1>3. Tables' /\ req'[r] = x /\ \A q \in Requests : q # r => req'[q] = req[q]
  BY <1>1, <1>2, GotoKeepsTables DEF Request, tables, Tables
<1>4. Claims'
  BY <1>3, BystanderKeepsClaims DEF Request, Running, At
<1>5. PoolTyped' /\ \A q \in Requests : PoolOf(q)'
  BY <1>3, EarlyKeepsPools DEF Request, At, Early
<1> QED BY <1>3, <1>4, <1>5

LEMMA AlreadyRunningKeeps ==
    ASSUME AnalysisIInv, NEW r \in Requests, AlreadyRunning(r)
    PROVE  AnalysisIInv'
<1> USE DEF AnalysisIInv
<1>1. Tables' /\ req'[r] = Idle /\ ~Running(r)' /\ \A q \in Requests : q # r => req'[q] = req[q]
  BY ReturnKeepsTables DEF AlreadyRunning, tables, Tables
<1>2. Claims'
  BY <1>1, BystanderKeepsClaims DEF AlreadyRunning, Running, At
<1>3. PoolTyped' /\ \A q \in Requests : PoolOf(q)'
  BY <1>1, IdleTyped, EarlyKeepsPools DEF AlreadyRunning, At, Early
<1> QED BY <1>1, <1>2, <1>3

LEMMA ClaimKeeps ==
    ASSUME AnalysisIInv, NEW r \in Requests, Claim(r)
    PROVE  AnalysisIInv'
<1> USE DEF AnalysisIInv
<1> DEFINE x == [req[r] EXCEPT !.pc = "exists"]
<1>1. x \in RequestType /\ x.pc = "exists" /\ x.session = Of(r) /\ Of(r) \in Sessions
  BY RequestFacts DEF RequestType, Early, Of
<1>2. req' = [req EXCEPT ![r] = x]
  BY DEF Claim, Goto, Tables
<1>3. Tables' /\ req'[r] = x /\ \A q \in Requests : q # r => req'[q] = req[q]
  BY <1>1, <1>2, GotoKeepsTables DEF Claim, tables, Tables
<1>4. Of(r) \notin active /\ active' = active \cup {Of(r)} /\ ~Running(r)
      /\ progress' = [progress EXCEPT ![Of(r)] = 5]
  BY DEF Claim, Claimable, SetProgress, Running, At
<1>5. \A q \in Requests : Running(q)' <=> Running(q) \/ q = r
  BY <1>1, <1>3 DEF Running, At
<1>6. \A q \in Requests : Of(q)' = Of(q) /\ Of(q) \in Sessions
  BY <1>1, <1>3, RequestFacts DEF Of
<1>7. \A q \in Requests : Running(q) => Of(q) # Of(r)
  BY <1>4, <1>6 DEF Claims
<1>8. Claims'
  <2>1. active' \subseteq Sessions /\ progress' \in [Sessions -> Percent \cup {NoProgress}]
    BY <1>1, <1>4 DEF Claims, Percent
  <2>2. \A s \in Sessions : s \in active' <=> \E q \in Requests : Running(q)' /\ Of(q)' = s
    BY <1>4, <1>5, <1>6 DEF Claims
  <2>3. \A t, q \in Requests : Running(t)' /\ Running(q)' /\ Of(t)' = Of(q)' => t = q
    BY <1>5, <1>6, <1>7 DEF Claims
  <2>4. \A s \in Sessions : progress'[s] # NoProgress <=> s \in active'
    BY <1>1, <1>4, AnalysisAssumption DEF Claims
  <2>5. ASSUME NEW q \in Requests, Running(q)'
        PROVE  progress'[Of(q)'] \in ShownAt(req'[q].pc)
    <3>1. CASE q = r
      BY <3>1, <1>1, <1>3, <1>4, <1>6 DEF Claims, ShownAt
    <3>2. CASE q # r
      BY <3>2, <2>5, <1>3, <1>4, <1>5, <1>6, <1>7 DEF Claims
    <3> QED BY <3>1, <3>2
  <2> QED BY <2>1, <2>2, <2>3, <2>4, <2>5 DEF Claims
<1>9. PoolTyped' /\ \A q \in Requests : PoolOf(q)'
  BY <1>1, <1>3, EarlyKeepsPools DEF Claim, At, Early
<1> QED BY <1>3, <1>8, <1>9

\* Every return before there is a pool.
LEMMA EarlyReturnKeeps ==
    ASSUME AnalysisIInv, NEW r \in Requests, Running(r), req[r].pc \in Early,
           Return(r), UNCHANGED transcripts, UNCHANGED pool,
           summaries' \in [Sessions -> Analyses \cup {NoRow, Pushed}]
    PROVE  AnalysisIInv'
<1> USE DEF AnalysisIInv
<1>1. Tables' /\ req'[r] = Idle /\ \A q \in Requests : q # r => req'[q] = req[q]
  BY ReturnKeepsTables DEF Return
<1>2. Claims'
  BY ReturnKeepsClaims
<1>3. PoolTyped' /\ \A q \in Requests : PoolOf(q)'
  BY <1>1, IdleTyped, EarlyKeepsPools DEF Early
<1> QED BY <1>1, <1>2, <1>3

\* Every step forward before there is a pool.
LEMMA EarlyMoveKeeps ==
    ASSUME AnalysisIInv, NEW r \in Requests, Running(r), req[r].pc \in Early,
           UNCHANGED transcripts, UNCHANGED pool, UNCHANGED active,
           summaries' \in [Sessions -> Analyses \cup {NoRow, Pushed}],
           NEW x \in RequestType, req' = [req EXCEPT ![r] = x],
           x.session = Of(r), x.pc \in {"cache", "steps", "chunk"},
           x.pc \in {"cache", "steps"} => transcripts[Of(r)] # NoRow,
           NEW p \in ShownAt(x.pc), progress' = [progress EXCEPT ![Of(r)] = p]
    PROVE  AnalysisIInv'
<1> USE DEF AnalysisIInv
<1>1. Tables' /\ req'[r] = x /\ \A q \in Requests : q # r => req'[q] = req[q]
  BY GotoKeepsTables
<1>2. Running(r)' /\ Of(r)' = Of(r)
  BY <1>1 DEF Running, At, Of
<1>3. Claims'
  BY <1>1, <1>2, MoveKeepsClaims
<1>4. PoolTyped' /\ \A q \in Requests : PoolOf(q)'
  BY <1>1, EarlyKeepsPools DEF Early
<1> QED BY <1>1, <1>3, <1>4

\* A request that moves on keeps its session and its total.
LEMMA GotoIsRequest ==
    ASSUME Tables, NEW r \in Requests, NEW pc \in Early \cup Pooled
    PROVE  /\ [req[r] EXCEPT !.pc = pc] \in RequestType
           /\ [req[r] EXCEPT !.pc = pc].pc = pc
           /\ [req[r] EXCEPT !.pc = pc].session = Of(r)
           /\ [req[r] EXCEPT !.pc = pc].total = req[r].total
           /\ Goto(r, pc) => req' = [req EXCEPT ![r] = [req[r] EXCEPT !.pc = pc]]
<1>1. req[r] \in RequestType
  BY DEF Tables
<1> QED BY <1>1 DEF RequestType, Of, Goto, Tables

LEMMA ExistsKeeps ==
    ASSUME AnalysisIInv, NEW r \in Requests, Exists(r)
    PROVE  AnalysisIInv'
<1>1. Running(r) /\ req[r].pc \in Early /\ req[r].pc = "exists" /\ UNCHANGED <<tables, pool>>
  BY DEF Exists, Running, At, Early
<1>2. UNCHANGED transcripts /\ summaries' \in [Sessions -> Analyses \cup {NoRow, Pushed}]
  BY <1>1 DEF tables, AnalysisIInv, Tables
<1>3. CASE Return(r)
  BY <1>1, <1>2, <1>3, EarlyReturnKeeps
<1>4. CASE transcripts[Of(r)] # NoRow /\ Goto(r, "cache") /\ UNCHANGED <<active, progress>>
  <2>1. Of(r) \in Sessions /\ progress[Of(r)] = 5
    BY <1>1, RequestFacts DEF AnalysisIInv, Claims, ShownAt
  <2>2. progress' = [progress EXCEPT ![Of(r)] = 5] /\ 5 \in ShownAt("cache")
    BY <1>4, <2>1 DEF AnalysisIInv, Claims, ShownAt
  <2> DEFINE x == [req[r] EXCEPT !.pc = "cache"]
  <2>3. /\ x \in RequestType /\ x.pc = "cache" /\ x.session = Of(r)
        /\ req' = [req EXCEPT ![r] = x]
    BY <1>4, GotoIsRequest DEF AnalysisIInv, Early
  <2> HIDE DEF x
  <2> QED BY <1>1, <1>2, <1>4, <2>2, <2>3, EarlyMoveKeeps
<1> QED BY <1>3, <1>4 DEF Exists, StatementFails

LEMMA ReadCacheKeeps ==
    ASSUME AnalysisIInv, NEW r \in Requests, ReadCache(r)
    PROVE  AnalysisIInv'
<1>1. Running(r) /\ req[r].pc \in Early /\ req[r].pc = "cache" /\ UNCHANGED <<tables, pool>>
  BY DEF ReadCache, Running, At, Early
<1>2. UNCHANGED transcripts /\ summaries' \in [Sessions -> Analyses \cup {NoRow, Pushed}]
  BY <1>1 DEF tables, AnalysisIInv, Tables
<1>3. CASE Return(r)
  BY <1>1, <1>2, <1>3, EarlyReturnKeeps
<1>4. CASE SetProgress(r, 10) /\ Goto(r, "steps") /\ UNCHANGED active
  <2>1. transcripts[Of(r)] # NoRow
    BY <1>1 DEF AnalysisIInv, Tables
  <2>2. progress' = [progress EXCEPT ![Of(r)] = 10] /\ 10 \in ShownAt("steps")
    BY <1>4 DEF SetProgress, ShownAt
  <2> DEFINE x == [req[r] EXCEPT !.pc = "steps"]
  <2>3. /\ x \in RequestType /\ x.pc = "steps" /\ x.session = Of(r)
        /\ req' = [req EXCEPT ![r] = x]
    BY <1>4, GotoIsRequest DEF AnalysisIInv, Early
  <2> HIDE DEF x
  <2> QED BY <1>1, <1>2, <1>4, <2>1, <2>2, <2>3, EarlyMoveKeeps
<1> QED BY <1>3, <1>4 DEF ReadCache, StatementFails

LEMMA DeleteCachedKeeps ==
    ASSUME AnalysisIInv, NEW r \in Requests, DeleteCached(r)
    PROVE  AnalysisIInv'
<1>1. Running(r) /\ req[r].pc \in Early /\ req[r].pc = "cache" /\ UNCHANGED <<transcripts, pool>>
  BY DEF DeleteCached, Running, At, Early
<1>2. summaries' \in {summaries, [summaries EXCEPT ![Of(r)] = NoRow]}
  BY DEF DeleteCached
<1>3. summaries' \in [Sessions -> Analyses \cup {NoRow, Pushed}]
  BY <1>2 DEF AnalysisIInv, Tables
<1>4. CASE Return(r)
  BY <1>1, <1>3, <1>4, EarlyReturnKeeps
<1>5. CASE SetProgress(r, 10) /\ Goto(r, "steps") /\ UNCHANGED active
  <2>1. transcripts[Of(r)] # NoRow
    BY <1>1 DEF AnalysisIInv, Tables
  <2>2. progress' = [progress EXCEPT ![Of(r)] = 10] /\ 10 \in ShownAt("steps")
    BY <1>5 DEF SetProgress, ShownAt
  <2> DEFINE x == [req[r] EXCEPT !.pc = "steps"]
  <2>3. /\ x \in RequestType /\ x.pc = "steps" /\ x.session = Of(r)
        /\ req' = [req EXCEPT ![r] = x]
    BY <1>5, GotoIsRequest DEF AnalysisIInv, Early
  <2> HIDE DEF x
  <2> QED BY <1>1, <1>3, <1>5, <2>1, <2>2, <2>3, EarlyMoveKeeps
<1> QED BY <1>4, <1>5 DEF DeleteCached, StatementFails

LEMMA ReadStepsKeeps ==
    ASSUME AnalysisIInv, NEW r \in Requests, ReadSteps(r)
    PROVE  AnalysisIInv'
<1>1. Running(r) /\ req[r].pc \in Early /\ req[r].pc = "steps" /\ UNCHANGED <<tables, pool>>
  BY DEF ReadSteps, Running, At, Early
<1>2. UNCHANGED transcripts /\ summaries' \in [Sessions -> Analyses \cup {NoRow, Pushed}]
  BY <1>1 DEF tables, AnalysisIInv, Tables
<1>3. CASE Return(r)
  BY <1>1, <1>2, <1>3, EarlyReturnKeeps
<1>4. CASE /\ req' = [req EXCEPT ![r].pc = "chunk", ![r].total = transcripts[Of(r)]]
           /\ SetProgress(r, 15) /\ UNCHANGED active
  <2> DEFINE x == [req[r] EXCEPT !.pc = "chunk", !.total = transcripts[Of(r)]]
  <2>1. transcripts[Of(r)] \in 0..MaxChunks
    BY <1>1, RequestFacts DEF AnalysisIInv, Tables
  <2>2. x \in RequestType /\ x.pc = "chunk" /\ x.session = Of(r)
    BY <2>1, RequestFacts DEF AnalysisIInv, RequestType, Early, Of
  <2>3. req' = [req EXCEPT ![r] = x]
    BY <1>4 DEF AnalysisIInv, Tables
  <2>4. progress' = [progress EXCEPT ![Of(r)] = 15] /\ 15 \in ShownAt("chunk")
    BY <1>4 DEF SetProgress, ShownAt
  <2> QED BY <1>1, <1>2, <1>4, <2>2, <2>3, <2>4, EarlyMoveKeeps
<1> QED BY <1>3, <1>4 DEF ReadSteps, StatementFails

LEMMA NoLinesKeeps ==
    ASSUME AnalysisIInv, NEW r \in Requests, NoLines(r)
    PROVE  AnalysisIInv'
<1>1. Running(r) /\ req[r].pc \in Early /\ UNCHANGED <<tables, pool>> /\ Return(r)
  BY DEF NoLines, Running, At, Early
<1>2. UNCHANGED transcripts /\ summaries' \in [Sessions -> Analyses \cup {NoRow, Pushed}]
  BY <1>1 DEF tables, AnalysisIInv, Tables
<1> QED BY <1>1, <1>2, EarlyReturnKeeps

-------------------------------------------------------------------------------
(* The workers. *)

\* A worker before it starts, and at its first index.
LEMMA UnbornTyped ==
    /\ MaxChunks \in Nat \ {0} /\ 0 \in Chunks
    /\ Unborn \in WorkerType /\ Unborn.at = "done"
    /\ [Unborn EXCEPT !.at = "take"] \in WorkerType
    /\ [Unborn EXCEPT !.at = "take"].at = "take"
<1>1. MaxChunks \in Nat \ {0}
  BY AnalysisAssumption
<1>2. 0 \in Chunks
  BY <1>1 DEF Chunks
<1>3. Unborn \in WorkerType /\ Unborn.at = "done"
  BY <1>2 DEF WorkerType, Unborn
<1>4. [Unborn EXCEPT !.at = "take"] \in WorkerType /\ [Unborn EXCEPT !.at = "take"].at = "take"
  BY <1>3 DEF WorkerType
<1> QED BY <1>1, <1>2, <1>3, <1>4

LEMMA StartWorkersKeeps ==
    ASSUME AnalysisIInv, NEW r \in Requests, StartWorkers(r)
    PROVE  AnalysisIInv'
<1> USE DEF AnalysisIInv
<1> DEFINE x == [req[r] EXCEPT !.pc = "analyze"]
<1>1. /\ x \in RequestType /\ x.pc = "analyze" /\ x.session = Of(r)
      /\ x.total = req[r].total /\ req' = [req EXCEPT ![r] = x]
  BY GotoIsRequest DEF StartWorkers, Pooled
<1>2. Running(r) /\ req[r].pc = "chunk" /\ req[r].total \in Nat /\ req[r].total > 0
  BY RequestFacts DEF StartWorkers, Running, At
<1> HIDE DEF x
<1>3. Tables' /\ req'[r] = x /\ \A q \in Requests : q # r => req'[q] = req[q]
  BY <1>1, GotoKeepsTables DEF StartWorkers, tables, Tables
<1>4. Claims'
  <2>1. Running(r)' /\ Of(r)' = Of(r)
    BY <1>1, <1>3 DEF Running, At, Of
  <2>2. progress' = [progress EXCEPT ![Of(r)] = 0] /\ 0 \in ShownAt(req'[r].pc)
    BY <1>1, <1>3 DEF StartWorkers, SetProgress, ShownAt
  <2> QED BY <1>2, <1>3, <2>1, <2>2, MoveKeepsClaims DEF StartWorkers
<1>5. PICK W \in SUBSET Workers :
        /\ Cardinality(W) = IF Cardinality(Workers) < req[r].total
                              THEN Cardinality(Workers) ELSE req[r].total
        /\ worker' = [worker EXCEPT ![r] = [w \in Workers |->
              IF w \in W THEN [Unborn EXCEPT !.at = "take"] ELSE Unborn]]
  BY DEF StartWorkers
<1>6. PICK v \in W : TRUE
  <2>1. Cardinality(Workers) \in Nat /\ Cardinality(Workers) # 0
    BY AnalysisAssumption, FS_CardinalityType, FS_EmptySet
  <2>2. Cardinality(W) # 0
    BY <1>2, <1>5, <2>1
  <2> QED BY <2>2, FS_EmptySet
<1>7. Unborn \in WorkerType /\ [Unborn EXCEPT !.at = "take"] \in WorkerType
      /\ Unborn.at = "done" /\ [Unborn EXCEPT !.at = "take"].at = "take"
  BY UnbornTyped
<1>8. /\ worker' \in [Requests -> [Workers -> WorkerType]]
      /\ \A q \in Requests : q # r => worker'[q] = worker[q]
      /\ worker'[r] = [w \in Workers |->
              IF w \in W THEN [Unborn EXCEPT !.at = "take"] ELSE Unborn]
  BY <1>5, <1>7 DEF PoolTyped
<1>9. UNCHANGED <<cursor, completed, results, answered>>
  BY DEF StartWorkers
<1>10. PoolTyped'
  BY <1>8, <1>9 DEF PoolTyped
<1>11. \A q \in Requests : q # r => PoolOf(q)'
  BY <1>3, <1>8, <1>9, OthersKeepPool
<1>12. Shared(r)'
  <2>1. \A w \in Workers : worker'[r][w].at \in {"take", "done"}
    BY <1>7, <1>8
  <2>2. Calling(r)' = {} /\ Unkept(r)' = {}
    BY <2>1 DEF Calling, Unkept, WorkerAt
  <2>3. ~AllDone(r)'
    BY <1>6, <1>7, <1>8 DEF AllDone
  <2>4. cursor[r] = 0 /\ completed[r] = 0 /\ results[r] = {} /\ answered[r] = {}
    BY <1>2 DEF PoolOf, Early
  <2>5. Cardinality(Calling(r)') = 0 /\ Cardinality(Finished(r)') \in Nat
    <3>1. Finished(r)' \in SUBSET Workers
      BY DEF Finished
    <3> QED BY <2>2, <3>1, FS_EmptySet, FS_Subset, FS_CardinalityType, AnalysisAssumption
  <2>6. Taken(r)' = 0 /\ req'[r].total = req[r].total
    BY <1>1, <1>2, <1>3, <1>9, <2>4 DEF Taken
  <2> QED BY <1>2, <1>9, <2>2, <2>3, <2>4, <2>5, <2>6 DEF Shared
<1>13. PoolOf(r)'
  BY <1>1, <1>3, <1>12 DEF PoolOf, Early
<1> QED BY <1>3, <1>4, <1>10, <1>11, <1>13

\* A step of one worker is none of another's.
LEMMA WorkerUpdate ==
    ASSUME PoolTyped, NEW r \in Requests, NEW w \in Workers, NEW v \in WorkerType,
           worker' = [worker EXCEPT ![r][w] = v]
    PROVE  /\ worker' \in [Requests -> [Workers -> WorkerType]]
           /\ worker'[r][w] = v
           /\ \A u \in Workers : u # w => worker'[r][u] = worker[r][u]
           /\ \A q \in Requests : q # r => worker'[q] = worker[q]
BY DEF PoolTyped

\* Only a request that waits for its workers has a worker to take a step.
LEMMA WorkerFacts ==
    ASSUME AnalysisIInv, NEW r \in Requests, NEW w \in Workers, ~WorkerAt(r, w, "done")
    PROVE  /\ req[r].pc = "analyze" /\ Running(r) /\ Shared(r)
           /\ req[r].total \in Nat /\ req[r].total <= MaxChunks /\ req[r].total > 0
           /\ cursor[r] \in Nat /\ completed[r] \in Nat
           /\ worker[r][w] \in WorkerType
<1>1. req[r].pc = "analyze" /\ Shared(r)
  BY DEF AnalysisIInv, PoolOf, AllDone, WorkerAt, Pooled
<1>2. req[r].total \in Nat /\ req[r].total <= MaxChunks /\ req[r].total > 0
  BY <1>1, RequestFacts, AnalysisAssumption DEF AnalysisIInv, Shared
<1> QED BY <1>1, <1>2 DEF AnalysisIInv, PoolTyped, Running, At

LEMMA TakeKeeps ==
    ASSUME AnalysisIInv, NEW r \in Requests, NEW w \in Workers, Take(r, w)
    PROVE  AnalysisIInv'
<1> DEFINE v == IF cursor[r] >= req[r].total THEN Unborn
                ELSE [Unborn EXCEPT !.at = "call", !.chunk = cursor[r]]
<1>1. WorkerAt(r, w, "take") /\ ~WorkerAt(r, w, "done")
  BY DEF Take, WorkerAt
<1>2. /\ req[r].pc = "analyze" /\ Shared(r)
      /\ req[r].total \in Nat /\ req[r].total <= MaxChunks /\ req[r].total > 0
      /\ cursor[r] \in Nat /\ completed[r] \in Nat
  BY <1>1, WorkerFacts
<1>3. v \in WorkerType /\ v.at = IF cursor[r] >= req[r].total THEN "done" ELSE "call"
  <2>1. cursor[r] < req[r].total => cursor[r] \in Chunks
    BY <1>2, UnbornTyped DEF Chunks
  <2>2. CASE cursor[r] >= req[r].total
    BY <2>2, UnbornTyped
  <2>3. CASE cursor[r] < req[r].total
    <3>1. v = [Unborn EXCEPT !.at = "call", !.chunk = cursor[r]]
      BY <1>2, <2>3
    <3>2. v \in WorkerType /\ v.at = "call"
      BY <2>1, <2>3, <3>1, UnbornTyped DEF WorkerType
    <3> QED BY <1>2, <2>3, <3>2
  <2> QED BY <1>2, <2>2, <2>3
<1>4. worker' = [worker EXCEPT ![r][w] = v]
  BY DEF Take
<1> HIDE DEF v
<1>5. /\ worker' \in [Requests -> [Workers -> WorkerType]]
      /\ worker'[r][w] = v
      /\ \A u \in Workers : u # w => worker'[r][u] = worker[r][u]
      /\ \A q \in Requests : q # r => worker'[q] = worker[q]
  BY <1>3, <1>4, WorkerUpdate DEF AnalysisIInv
<1>6. cursor' = [cursor EXCEPT ![r] = @ + 1]
      /\ UNCHANGED <<tables, active, progress, req, completed, results, answered>>
  BY DEF Take
<1>7. Tables' /\ Claims'
  BY <1>6, SameClaims DEF AnalysisIInv, Tables, tables, Of
<1>8. PoolTyped'
  BY <1>2, <1>5, <1>6 DEF AnalysisIInv, PoolTyped
<1>9. cursor'[r] = cursor[r] + 1 /\ \A q \in Requests : q # r => cursor'[q] = cursor[q]
  BY <1>6 DEF AnalysisIInv, PoolTyped
<1>10. \A q \in Requests : q # r => PoolOf(q)'
  BY <1>5, <1>6, <1>9, OthersKeepPool
<1>11. Unkept(r)' = Unkept(r)
  BY <1>1, <1>3, <1>5 DEF Unkept, WorkerAt
<1>12. Shared(r)'
  <2>1. CASE cursor[r] < req[r].total
    <3>1. Calling(r)' = Calling(r) \cup {w} /\ w \notin Calling(r)
          /\ Finished(r)' = Finished(r)
      BY <1>1, <1>2, <1>3, <1>5, <2>1 DEF Calling, Finished, WorkerAt
    <3>2. Cardinality(Calling(r)') = Cardinality(Calling(r)) + 1
          /\ Cardinality(Calling(r)) \in Nat /\ Cardinality(Finished(r)) \in Nat
      BY <3>1, WorkersAreCounted, FS_AddElement
    <3>3. Taken(r) = cursor[r] /\ Taken(r)' = cursor[r] + 1
      BY <1>2, <1>6, <1>9, <2>1 DEF Taken
    <3>4. ~AllDone(r)'
      BY <1>2, <1>3, <1>5, <2>1 DEF AllDone
    <3> QED BY <1>2, <1>6, <1>9, <1>11, <2>1, <3>1, <3>2, <3>3, <3>4 DEF Shared
  <2>2. CASE cursor[r] >= req[r].total
    <3>1. Finished(r)' = Finished(r) \cup {w} /\ w \notin Finished(r)
          /\ Calling(r)' = Calling(r)
      BY <1>1, <1>3, <1>5, <2>2 DEF Calling, Finished, WorkerAt
    <3>2. Cardinality(Finished(r)') = Cardinality(Finished(r)) + 1
          /\ Cardinality(Finished(r)) \in Nat
      BY <3>1, WorkersAreCounted, FS_AddElement
    <3>3. Taken(r)' = Taken(r)
      BY <1>2, <1>6, <1>9, <2>2 DEF Taken
    <3> QED BY <1>2, <1>6, <1>9, <1>11, <2>2, <3>1, <3>2, <3>3 DEF Shared
  <2> QED BY <1>2, <2>1, <2>2
<1>13. PoolOf(r)'
  BY <1>2, <1>6, <1>12 DEF PoolOf, Early
<1> QED BY <1>7, <1>8, <1>10, <1>13 DEF AnalysisIInv

LEMMA ModelReturnsKeeps ==
    ASSUME AnalysisIInv, NEW r \in Requests, NEW w \in Workers, ModelReturns(r, w)
    PROVE  AnalysisIInv'
<1>1. PICK ok \in BOOLEAN :
        /\ worker' = [worker EXCEPT ![r][w].at = "report", ![r][w].ok = ok,
                              ![r][w].percent = Share(completed[r] + 1, req[r].total)]
        /\ answered' = IF ok THEN [answered EXCEPT ![r] = @ \cup {worker[r][w].chunk}]
                             ELSE answered
  BY DEF ModelReturns
<1>2. WorkerAt(r, w, "call") /\ ~WorkerAt(r, w, "done")
  BY DEF ModelReturns, WorkerAt
<1>3. /\ req[r].pc = "analyze" /\ Shared(r)
      /\ req[r].total \in Nat /\ req[r].total <= MaxChunks /\ req[r].total > 0
      /\ cursor[r] \in Nat /\ completed[r] \in Nat /\ worker[r][w] \in WorkerType
  BY <1>2, WorkerFacts
<1> DEFINE v == [worker[r][w] EXCEPT !.at = "report", !.ok = ok,
                                     !.percent = Share(completed[r] + 1, req[r].total)]
           c == worker[r][w].chunk
<1>4. Taken(r) \in Nat /\ Taken(r) <= req[r].total
  BY <1>3 DEF Taken
<1>5. w \in Calling(r) /\ Cardinality(Calling(r)) \in Nat /\ Cardinality(Calling(r)) > 0
      /\ Cardinality(Calling(r) \ {w}) = Cardinality(Calling(r)) - 1
  <2>1. w \in Calling(r)
    BY <1>2 DEF Calling
  <2>2. IsFiniteSet(Calling(r)) /\ Cardinality(Calling(r)) \in Nat
    BY WorkersAreCounted
  <2>3. Cardinality(Calling(r)) # 0
    BY <2>1, <2>2, FS_EmptySet
  <2>4. Cardinality(Calling(r) \ {w}) = Cardinality(Calling(r)) - 1
    BY <2>1, <2>2, FS_RemoveElement
  <2> QED BY <2>1, <2>2, <2>3, <2>4
<1>6. completed[r] + Cardinality(Calling(r)) = Taken(r)
  BY <1>3 DEF Shared
<1>7. completed[r] + 1 \in Nat /\ completed[r] + 1 <= req[r].total
  BY <1>3, <1>4, <1>5, <1>6
<1>8. Share(completed[r] + 1, req[r].total) \in 0..90
  BY <1>3, <1>7, ShareIsBounded
<1>9. v \in WorkerType /\ v.at = "report" /\ v.ok = ok /\ v.chunk = c /\ c \in Chunks
  BY <1>3, <1>8 DEF WorkerType
<1>10. worker' = [worker EXCEPT ![r][w] = v]
  BY <1>1 DEF AnalysisIInv, PoolTyped
<1> HIDE DEF v, c
<1>11. /\ worker' \in [Requests -> [Workers -> WorkerType]]
       /\ worker'[r][w] = v
       /\ \A u \in Workers : u # w => worker'[r][u] = worker[r][u]
       /\ \A q \in Requests : q # r => worker'[q] = worker[q]
  BY <1>9, <1>10, WorkerUpdate DEF AnalysisIInv
<1>12. completed' = [completed EXCEPT ![r] = @ + 1]
       /\ UNCHANGED <<tables, active, progress, req, cursor, results>>
  BY DEF ModelReturns
<1>13. Tables' /\ Claims'
  BY <1>12, SameClaims DEF AnalysisIInv, Tables, tables, Of
<1>14. /\ answered' \in [Requests -> SUBSET Chunks]
       /\ answered'[r] = answered[r] \cup (IF ok THEN {c} ELSE {})
       /\ \A q \in Requests : q # r => answered'[q] = answered[q]
  BY <1>1, <1>9 DEF AnalysisIInv, PoolTyped, c
<1>15. completed' \in [Requests -> Nat] /\ completed'[r] = completed[r] + 1
       /\ \A q \in Requests : q # r => completed'[q] = completed[q]
  BY <1>3, <1>12 DEF AnalysisIInv, PoolTyped
<1>16. PoolTyped'
  BY <1>11, <1>12, <1>14, <1>15 DEF AnalysisIInv, PoolTyped
<1>17. \A q \in Requests : q # r => PoolOf(q)'
  BY <1>11, <1>12, <1>14, <1>15, OthersKeepPool
<1>18. Unkept(r)' = Unkept(r) \cup (IF ok THEN {c} ELSE {})
  BY <1>2, <1>9, <1>11 DEF Unkept, WorkerAt
<1>19. Calling(r)' = Calling(r) \ {w} /\ Finished(r)' = Finished(r)
       /\ ~AllDone(r)' /\ Taken(r)' = Taken(r)
  BY <1>2, <1>9, <1>11, <1>12 DEF Calling, Finished, WorkerAt, AllDone, Taken
<1>20. Shared(r)'
  <2>1. answered'[r] = results'[r] \cup Unkept(r)'
    BY <1>3, <1>12, <1>14, <1>18 DEF Shared
  <2>2. completed'[r] + Cardinality(Calling(r)') = Taken(r)'
    BY <1>3, <1>4, <1>5, <1>6, <1>15, <1>19
  <2> QED BY <1>3, <1>12, <1>19, <2>1, <2>2 DEF Shared
<1>21. PoolOf(r)'
  BY <1>3, <1>12, <1>20 DEF PoolOf, Early
<1> QED BY <1>13, <1>16, <1>17, <1>21 DEF AnalysisIInv

LEMMA ReportKeeps ==
    ASSUME AnalysisIInv, NEW r \in Requests, NEW w \in Workers, Report(r, w)
    PROVE  AnalysisIInv'
<1> DEFINE v == [worker[r][w] EXCEPT !.at = "take"]
           c == worker[r][w].chunk
           kept == IF worker[r][w].ok THEN {c} ELSE {}
<1>1. WorkerAt(r, w, "report") /\ ~WorkerAt(r, w, "done")
  BY DEF Report, WorkerAt
<1>2. /\ req[r].pc = "analyze" /\ Running(r) /\ Shared(r) /\ worker[r][w] \in WorkerType
  BY <1>1, WorkerFacts
<1>3. v \in WorkerType /\ v.at = "take" /\ c \in Chunks
  BY <1>2 DEF WorkerType
<1>4. worker' = [worker EXCEPT ![r][w] = v]
  BY DEF Report, AnalysisIInv, PoolTyped
<1> HIDE DEF v
<1>5. /\ worker' \in [Requests -> [Workers -> WorkerType]]
      /\ worker'[r][w] = v
      /\ \A u \in Workers : u # w => worker'[r][u] = worker[r][u]
      /\ \A q \in Requests : q # r => worker'[q] = worker[q]
  BY <1>3, <1>4, WorkerUpdate DEF AnalysisIInv
<1>6. UNCHANGED <<tables, active, req, cursor, completed, answered>>
  BY DEF Report
<1>7. Tables'
  BY <1>6 DEF AnalysisIInv, Tables, tables, Of
<1>8. Claims'
  <2> DEFINE percent == worker[r][w].percent
             p == IF progress[Of(r)] = NoProgress \/ percent > progress[Of(r)]
                    THEN percent ELSE progress[Of(r)]
  <2>1. percent \in 0..90 /\ AdvanceProgress(r, percent)
    BY <1>2 DEF WorkerType, Report
  <2>2. progress[Of(r)] \in 0..90 /\ Of(r) \in Sessions
    BY <1>2, RequestFacts DEF AnalysisIInv, Claims, ShownAt
  <2>3. p \in ShownAt(req'[r].pc)
    BY <1>2, <1>6, <2>1, <2>2 DEF ShownAt
  <2>4. progress' = [progress EXCEPT ![Of(r)] = p]
    BY <2>1, <2>2 DEF AdvanceProgress, SetProgress, AnalysisIInv, Claims
  <2>5. Running(r)' /\ Of(r)' = Of(r)
    BY <1>2, <1>6 DEF Running, At, Of
  <2> HIDE DEF p, percent
  <2> QED BY <1>2, <1>6, <1>7, <2>3, <2>4, <2>5, MoveKeepsClaims DEF AnalysisIInv
<1>9. /\ results' \in [Requests -> SUBSET Chunks]
      /\ results'[r] = results[r] \cup kept
      /\ \A q \in Requests : q # r => results'[q] = results[q]
  BY <1>3 DEF Report, AnalysisIInv, PoolTyped
<1>10. PoolTyped'
  BY <1>5, <1>6, <1>9 DEF AnalysisIInv, PoolTyped
<1>11. \A q \in Requests : q # r => PoolOf(q)'
  BY <1>5, <1>6, <1>9, OthersKeepPool
<1>12. Unkept(r) = Unkept(r)' \cup kept
  BY <1>1, <1>3, <1>5 DEF Unkept, WorkerAt
<1>13. Calling(r)' = Calling(r) /\ Finished(r)' = Finished(r) /\ ~AllDone(r)'
       /\ Taken(r)' = Taken(r)
  BY <1>1, <1>3, <1>5, <1>6 DEF Calling, Finished, WorkerAt, AllDone, Taken
<1>14. Shared(r)'
  <2>1. answered'[r] = results'[r] \cup Unkept(r)'
    <3> HIDE DEF kept
    <3> QED BY <1>2, <1>6, <1>9, <1>12 DEF Shared
  <2> QED BY <1>2, <1>6, <1>13, <2>1 DEF Shared
<1>15. PoolOf(r)'
  BY <1>2, <1>6, <1>14 DEF PoolOf, Early
<1> QED BY <1>7, <1>8, <1>10, <1>11, <1>15 DEF AnalysisIInv

-------------------------------------------------------------------------------
(* Summarize, from the results on. *)

\* Every return that drops a pool.
LEMMA LateReturnKeeps ==
    ASSUME AnalysisIInv, NEW r \in Requests, Running(r), AllDone(r),
           Return(r), DropPool(r), UNCHANGED transcripts,
           summaries' \in [Sessions -> Analyses \cup {NoRow, Pushed}]
    PROVE  AnalysisIInv'
<1> USE DEF AnalysisIInv
<1>1. Tables' /\ req'[r] = Idle /\ \A q \in Requests : q # r => req'[q] = req[q]
  BY ReturnKeepsTables DEF Return
<1>2. Claims'
  BY ReturnKeepsClaims
<1>3. PoolTyped' /\ \A q \in Requests : PoolOf(q)'
  BY <1>1, DropKeepsPools
<1> QED BY <1>1, <1>2, <1>3

\* Every step forward with a pool.
LEMMA LateMoveKeeps ==
    ASSUME AnalysisIInv, NEW r \in Requests, Running(r), AllDone(r),
           req[r].pc \in Pooled, results[r] # {},
           NEW pc \in {"consolidate", "save"}, Goto(r, pc),
           NEW p \in ShownAt(pc), SetProgress(r, p),
           UNCHANGED <<tables, active, pool>>
    PROVE  AnalysisIInv'
<1> USE DEF AnalysisIInv
<1> DEFINE x == [req[r] EXCEPT !.pc = pc]
<1>1. /\ x \in RequestType /\ x.pc = pc /\ x.session = Of(r)
      /\ x.total = req[r].total /\ req' = [req EXCEPT ![r] = x]
  BY GotoIsRequest DEF Pooled
<1> HIDE DEF x
<1>2. Tables' /\ req'[r] = x /\ \A q \in Requests : q # r => req'[q] = req[q]
  BY <1>1, GotoKeepsTables DEF tables, Tables
<1>3. Running(r)' /\ Of(r)' = Of(r)
  BY <1>1, <1>2 DEF Running, At, Of
<1>4. Claims'
  BY <1>1, <1>2, <1>3, MoveKeepsClaims DEF SetProgress
<1>5. PoolTyped' /\ \A q \in Requests : PoolOf(q)'
  BY <1>1, <1>2, GatheredKeepsPools
<1> QED BY <1>2, <1>4, <1>5

LEMMA GatherKeeps ==
    ASSUME AnalysisIInv, NEW r \in Requests, Gather(r)
    PROVE  AnalysisIInv'
<1>1. Running(r) /\ AllDone(r) /\ req[r].pc \in Pooled /\ UNCHANGED tables
  BY DEF Gather, Running, At, Pooled
<1>2. CASE Return(r) /\ DropPool(r)
  BY <1>1, <1>2, LateReturnKeeps DEF AnalysisIInv, Tables, tables
<1>3. CASE Cardinality(results[r]) = 1 /\ SetProgress(r, 95) /\ Goto(r, "save")
           /\ UNCHANGED <<active, pool>>
  <2>1. results[r] # {} /\ 95 \in ShownAt("save")
    BY <1>3, FS_EmptySet DEF ShownAt
  <2> QED BY <1>1, <1>3, <2>1, LateMoveKeeps
<1>4. CASE Cardinality(results[r]) > 1 /\ SetProgress(r, 90) /\ Goto(r, "consolidate")
           /\ UNCHANGED <<active, pool>>
  <2>1. results[r] # {} /\ 90 \in ShownAt("consolidate")
    BY <1>4, FS_EmptySet DEF ShownAt
  <2> QED BY <1>1, <1>4, <2>1, LateMoveKeeps
<1> QED BY <1>2, <1>3, <1>4 DEF Gather

LEMMA ConsolidateKeeps ==
    ASSUME AnalysisIInv, NEW r \in Requests, Consolidate(r)
    PROVE  AnalysisIInv'
<1>1. Running(r) /\ AllDone(r) /\ req[r].pc \in Pooled /\ UNCHANGED tables
      /\ results[r] # {}
  BY DEF Consolidate, Running, At, Pooled, AnalysisIInv, PoolOf
<1>2. CASE Return(r) /\ DropPool(r)
  BY <1>1, <1>2, LateReturnKeeps DEF AnalysisIInv, Tables, tables
<1>3. CASE SetProgress(r, 95) /\ Goto(r, "save") /\ UNCHANGED <<active, pool>>
  <2>1. 95 \in ShownAt("save")
    BY DEF ShownAt
  <2> QED BY <1>1, <1>3, <2>1, LateMoveKeeps
<1> QED BY <1>2, <1>3 DEF Consolidate

LEMMA SaveSummaryKeeps ==
    ASSUME AnalysisIInv, NEW r \in Requests, SaveSummary(r)
    PROVE  AnalysisIInv'
<1>1. Running(r) /\ AllDone(r) /\ results[r] \in Analyses
  <2>1. Running(r) /\ AllDone(r) /\ results[r] # {}
    BY DEF SaveSummary, Running, At, AnalysisIInv, PoolOf
  <2>2. results[r] \in SUBSET Chunks
    BY DEF AnalysisIInv, PoolTyped
  <2> QED BY <2>1, <2>2 DEF Analyses
<1>2. /\ summaries' \in {summaries, [summaries EXCEPT ![Of(r)] = results[r]]}
      /\ Return(r) /\ DropPool(r) /\ UNCHANGED transcripts
  BY DEF SaveSummary, StatementFails
<1>3. summaries' \in [Sessions -> Analyses \cup {NoRow, Pushed}]
  BY <1>1, <1>2 DEF AnalysisIInv, Tables
<1> QED BY <1>1, <1>2, <1>3, LateReturnKeeps

-------------------------------------------------------------------------------
(* What goes on beside it. *)

LEMMA IngestKeeps ==
    ASSUME AnalysisIInv, NEW s \in Sessions, Ingest(s)
    PROVE  AnalysisIInv'
<1> USE DEF AnalysisIInv
<1>1. UNCHANGED <<active, progress, req, pool>>
  BY DEF Ingest
<1>2. Claims'
  BY <1>1, SameClaims
<1>3. PoolTyped' /\ \A q \in Requests : PoolOf(q)'
  <2>1. PoolTyped'
    BY <1>1 DEF PoolTyped, pool
  <2>2. ASSUME NEW q \in Requests PROVE PoolOf(q)'
    BY <1>1, OthersKeepPool DEF pool
  <2> QED BY <2>1, <2>2
<1>4. /\ transcripts' \in [Sessions -> (0..MaxChunks) \cup {NoRow}]
      /\ \A t \in Sessions : transcripts[t] # NoRow => transcripts'[t] # NoRow
  <2>1. CASE UNCHANGED transcripts
    BY <2>1 DEF Tables
  <2>2. CASE transcripts' \in {[transcripts EXCEPT ![s] = n] : n \in 0..MaxChunks}
    <3>1. NoRow \notin 0..MaxChunks
      BY AnalysisAssumption
    <3> QED BY <2>2, <3>1 DEF Tables
  <2> QED BY <2>1, <2>2 DEF Ingest
<1>5. summaries' \in [Sessions -> Analyses \cup {NoRow, Pushed}]
  BY DEF Ingest, Tables
<1>6. \A q \in Requests : Of(q) \in Sessions /\ Of(q)' = Of(q)
  BY <1>1, RequestFacts DEF Of
<1>7. Tables'
  BY <1>1, <1>4, <1>5, <1>6 DEF Tables
<1> QED BY <1>2, <1>3, <1>7

LEMMA CrashKeeps ==
    ASSUME AnalysisIInv, Crash
    PROVE  AnalysisIInv'
<1> USE DEF AnalysisIInv
<1>1. /\ active' = {} /\ progress' = [s \in Sessions |-> NoProgress]
      /\ req' = [r \in Requests |-> Idle]
      /\ cursor' = [r \in Requests |-> 0] /\ completed' = [r \in Requests |-> 0]
      /\ worker' = [r \in Requests |-> NoWorkers]
      /\ results' = [r \in Requests |-> {}] /\ answered' = [r \in Requests |-> {}]
      /\ UNCHANGED tables
  BY DEF Crash
<1>2. Tables'
  BY <1>1, IdleTyped DEF Tables, tables
<1>3. \A r \in Requests : ~Running(r)'
  BY <1>1, IdleTyped DEF Running, At
<1>4. Claims'
  BY <1>1, <1>3 DEF Claims
<1>5. PoolTyped'
  BY <1>1, UnbornTyped DEF PoolTyped, NoWorkers
<1>6. ASSUME NEW r \in Requests PROVE PoolOf(r)'
  <2>1. AllDone(r)'
    BY <1>1, UnbornTyped DEF AllDone, NoWorkers
  <2> QED BY <1>1, <2>1, IdleTyped DEF PoolOf, Pooled
<1> QED BY <1>2, <1>4, <1>5, <1>6

-------------------------------------------------------------------------------
(* Every step. *)

\* Every step of a request, a worker, the ingest or a crash keeps the invariant.
LEMMA NextKeepsIInv == AnalysisIInv /\ [Next]_vars => AnalysisIInv'
<1> SUFFICES ASSUME AnalysisIInv, [Next]_vars PROVE AnalysisIInv'
  OBVIOUS
<1>1. ASSUME NEW r \in Requests, Request(r) PROVE AnalysisIInv'
  BY <1>1, RequestKeeps
<1>2. ASSUME NEW r \in Requests, SummarizeStep(r) PROVE AnalysisIInv'
  BY <1>2, AlreadyRunningKeeps, ClaimKeeps, ExistsKeeps, ReadCacheKeeps, DeleteCachedKeeps,
     ReadStepsKeeps, NoLinesKeeps, StartWorkersKeeps, GatherKeeps, ConsolidateKeeps,
     SaveSummaryKeeps DEF SummarizeStep
<1>3. ASSUME NEW r \in Requests, NEW w \in Workers, WorkerStep(r, w) PROVE AnalysisIInv'
  BY <1>3, TakeKeeps, ModelReturnsKeeps, ReportKeeps DEF WorkerStep
<1>4. ASSUME NEW s \in Sessions, Ingest(s) PROVE AnalysisIInv'
  BY <1>4, IngestKeeps
<1>5. CASE Crash
  BY <1>5, CrashKeeps
<1>6. CASE UNCHANGED vars
  <2>1. UNCHANGED <<tables, active, progress, req, pool>>
    BY <1>6 DEF vars
  <2>2. Tables' /\ Claims' /\ PoolTyped'
    BY <2>1, SameClaims DEF AnalysisIInv, Tables, tables, Of, PoolTyped, pool
  <2>3. \A r \in Requests : PoolOf(r)'
    BY <2>1, OthersKeepPool DEF pool
  <2> QED BY <2>2, <2>3 DEF AnalysisIInv
<1> QED BY <1>1, <1>2, <1>3, <1>4, <1>5, <1>6 DEF Next

\* In every state, the claims are those of the running requests, and each pool's indexes,
\* answers and counter agree (Summarize, analyzeChunksInParallel).
THEOREM AnalysisInvariant == Spec => []AnalysisIInv
<1> QED BY InitIInv, NextKeepsIInv, PTL DEF Spec

-------------------------------------------------------------------------------
(* The properties. *)

\* Every variable keeps its type.
THEOREM AnalysisTypeOK == Spec => []TypeOK
<1>1. ASSUME AnalysisIInv PROVE TypeOK
  <2>1. ASSUME NEW r \in Requests
        PROVE  /\ req[r] \in [pc : {"idle", "claim", "exists", "cache", "steps", "chunk",
                                   "analyze", "consolidate", "save"},
                              session : Sessions, force : BOOLEAN, total : 0..MaxChunks]
               /\ cursor[r] \in 0..(MaxChunks + Cardinality(Workers))
               /\ completed[r] \in 0..MaxChunks
               /\ worker[r] \in [Workers -> [at : {"take", "call", "report", "done"},
                                           chunk : Chunks, ok : BOOLEAN, percent : Percent]]
               /\ results[r] \subseteq Chunks
    <3>1. req[r] \in RequestType /\ req[r].pc \in Early \cup Pooled
          /\ req[r].total \in 0..MaxChunks /\ MaxChunks \in Nat
      BY <1>1, RequestFacts, UnbornTyped DEF AnalysisIInv
    <3>2. /\ cursor[r] \in Nat /\ completed[r] \in Nat /\ results[r] \subseteq Chunks
          /\ worker[r] \in [Workers -> WorkerType]
      BY <1>1 DEF AnalysisIInv, PoolTyped
    <3>3. cursor[r] <= MaxChunks + Cardinality(Workers) /\ completed[r] <= MaxChunks
      <4>1. /\ Cardinality(Workers) \in Nat /\ Cardinality(Calling(r)) \in Nat
            /\ Cardinality(Finished(r)) \in Nat
            /\ Cardinality(Finished(r)) <= Cardinality(Workers)
        BY WorkersAreCounted
      <4>2. CASE req[r].pc \in Early
        BY <1>1, <3>1, <4>1, <4>2 DEF AnalysisIInv, PoolOf
      <4>3. CASE req[r].pc \in Pooled
        BY <1>1, <3>1, <3>2, <4>1, <4>3 DEF AnalysisIInv, PoolOf, Shared, Taken
      <4> QED BY <3>1, <4>2, <4>3
    <3>4. WorkerType \subseteq [at : {"take", "call", "report", "done"},
                               chunk : Chunks, ok : BOOLEAN, percent : Percent]
      BY DEF WorkerType, Percent
    <3>5. Cardinality(Workers) \in Nat
      BY WorkersAreCounted
    <3> QED BY <3>1, <3>2, <3>3, <3>4, <3>5 DEF RequestType, Early, Pooled
  <2> QED BY <1>1, <2>1 DEF AnalysisIInv, Tables, Claims, TypeOK
<1> QED BY <1>1, AnalysisInvariant, PTL

\* The claims are the sessions of the running requests, one each, whichever way
\* a request ends (claimTask and its deferred release).
THEOREM ClaimsAreRunning == Spec => []OneAnalysisPerSession
<1>1. ASSUME AnalysisIInv PROVE OneAnalysisPerSession
  <2>1. \A r \in Requests : Of(r) \in Sessions
    BY <1>1, RequestFacts DEF AnalysisIInv
  <2> QED BY <1>1, <2>1 DEF AnalysisIInv, Claims, OneAnalysisPerSession
<1> QED BY <1>1, AnalysisInvariant, PTL

\* What can be polled belongs to a request that runs.
THEOREM ProgressIsOfARunningRequest == Spec => []ProgressMeansRunning
<1>1. ASSUME AnalysisIInv PROVE ProgressMeansRunning
  BY <1>1 DEF AnalysisIInv, Claims, ProgressMeansRunning
<1> QED BY <1>1, AnalysisInvariant, PTL

\* Every chunk is sent to the model once, and no answer of the model is lost
\* between the workers of analyzeChunksInParallel and the analysis.
THEOREM NoAnswerIsLost == Spec => []EveryAnswerCounts
<1>1. ASSUME AnalysisIInv, NEW r \in Requests, At(r, "consolidate") \/ At(r, "save")
      PROVE  completed[r] = req[r].total /\ results[r] = answered[r]
  <2>1. Shared(r) /\ AllDone(r)
    BY <1>1 DEF AnalysisIInv, PoolOf, At, Pooled
  <2>2. Cardinality(Calling(r)) = 0 /\ Unkept(r) = {}
    BY <2>1, DonePool
  <2>3. cursor[r] \in Nat /\ completed[r] \in Nat /\ req[r].total \in Nat
    BY <1>1, RequestFacts DEF AnalysisIInv, PoolTyped
  <2> QED BY <2>1, <2>2, <2>3 DEF Shared, Taken
<1>2. AnalysisIInv => EveryAnswerCounts
  BY <1>1 DEF EveryAnswerCounts
<1> QED BY <1>2, AnalysisInvariant, PTL

\* What a step that writes to the progress of one request does to the others.
LEMMA ForwardIsForward ==
    ASSUME Claims, NEW t \in Sessions, NEW p, progress' = [progress EXCEPT ![t] = p],
           p # NoProgress /\ progress[t] # NoProgress => p >= progress[t],
           NEW s \in Sessions, progress[s] # NoProgress, progress'[s] # NoProgress
    PROVE  progress'[s] >= progress[s]
<1>1. CASE s = t
  BY <1>1 DEF Claims
<1>2. CASE s # t
  <2>1. progress'[s] = progress[s] /\ progress[s] \in Percent
    BY <1>2 DEF Claims
  <2> QED BY <2>1 DEF Percent
<1> QED BY <1>1, <1>2

\* The progress of an analysis never goes back, except where its pool starts:
\* advanceProgress, over reports that come in any order.
THEOREM ProgressOnlyAdvances == Spec => ProgressNeverGoesBack
<1> DEFINE Forward(s) == \/ progress'[s] >= progress[s]
                         \/ \E r \in Requests : Of(r) = s /\ StartWorkers(r)
<1>1. ASSUME AnalysisIInv, [Next]_vars, NEW s \in Sessions,
             progress[s] # NoProgress, progress'[s] # NoProgress
      PROVE  Forward(s)
  <2> USE <1>1
  <2>1. CASE progress' = progress
    <3>1. progress[s] \in Percent
      BY DEF AnalysisIInv, Claims
    <3> QED BY <2>1, <3>1 DEF Percent
  <2>2. ASSUME NEW r \in Requests, NEW p, SetProgress(r, p),
               p # NoProgress /\ progress[Of(r)] # NoProgress => p >= progress[Of(r)]
        PROVE  Forward(s)
    BY <2>2, RequestFacts, ForwardIsForward DEF SetProgress, AnalysisIInv
  <2>3. ASSUME NEW r \in Requests, Return(r) PROVE Forward(s)
    <3>1. SetProgress(r, NoProgress)
      BY <2>3 DEF Return, SetProgress
    <3> QED BY <2>2, <3>1
  <2>4. ASSUME NEW r \in Requests, Running(r)
        PROVE  progress[Of(r)] \in ShownAt(req[r].pc)
    BY <2>4 DEF AnalysisIInv, Claims
  <2>5. ASSUME NEW r \in Requests, SummarizeStep(r) PROVE Forward(s)
    <3>1. CASE AlreadyRunning(r)
      BY <3>1, <2>1 DEF AlreadyRunning
    <3>2. CASE Claim(r)
      <4>1. progress[Of(r)] = NoProgress
        BY <3>2, RequestFacts DEF Claim, Claimable, AnalysisIInv, Claims
      <4> QED BY <3>2, <4>1, <2>2 DEF Claim
    <3>3. CASE Exists(r)
      BY <3>3, <2>1, <2>3 DEF Exists, StatementFails
    <3>4. CASE ReadCache(r) \/ DeleteCached(r)
      <4>1. progress[Of(r)] = 5
        BY <3>4, <2>4 DEF ReadCache, DeleteCached, Running, At, ShownAt
      <4>2. SetProgress(r, 10) \/ Return(r)
        BY <3>4 DEF ReadCache, DeleteCached, StatementFails
      <4> QED BY <4>1, <4>2, <2>2, <2>3
    <3>5. CASE ReadSteps(r)
      <4>1. progress[Of(r)] = 10
        BY <3>5, <2>4 DEF ReadSteps, Running, At, ShownAt
      <4>2. SetProgress(r, 15) \/ Return(r)
        BY <3>5 DEF ReadSteps, StatementFails
      <4> QED BY <4>1, <4>2, <2>2, <2>3
    <3>6. CASE NoLines(r)
      BY <3>6, <2>3 DEF NoLines
    <3>7. CASE StartWorkers(r)
      <4>1. CASE Of(r) = s
        BY <3>7, <4>1
      <4>2. CASE Of(r) # s
        <5>1. progress'[s] = progress[s] /\ progress[s] \in Percent
          BY <3>7, <4>2, RequestFacts DEF StartWorkers, SetProgress, AnalysisIInv, Claims
        <5> QED BY <5>1 DEF Percent
      <4> QED BY <4>1, <4>2
    <3>8. CASE Gather(r)
      <4>1. progress[Of(r)] \in 0..90
        BY <3>8, <2>4 DEF Gather, Running, At, ShownAt
      <4>2. SetProgress(r, 90) \/ SetProgress(r, 95) \/ Return(r)
        BY <3>8 DEF Gather
      <4> QED BY <4>1, <4>2, <2>2, <2>3
    <3>9. CASE Consolidate(r)
      <4>1. progress[Of(r)] = 90
        BY <3>9, <2>4 DEF Consolidate, Running, At, ShownAt
      <4>2. SetProgress(r, 95) \/ Return(r)
        BY <3>9 DEF Consolidate
      <4> QED BY <4>1, <4>2, <2>2, <2>3
    <3>10. CASE SaveSummary(r)
      BY <3>10, <2>3 DEF SaveSummary, StatementFails
    <3> QED BY <2>5, <3>1, <3>2, <3>3, <3>4, <3>5, <3>6, <3>7, <3>8, <3>9, <3>10
            DEF SummarizeStep
  <2>6. ASSUME NEW r \in Requests, NEW w \in Workers, WorkerStep(r, w) PROVE Forward(s)
    <3>1. CASE Take(r, w) \/ ModelReturns(r, w)
      BY <3>1, <2>1 DEF Take, ModelReturns
    <3>2. CASE Report(r, w)
      <4>1. ~WorkerAt(r, w, "done")
        BY <3>2 DEF Report, WorkerAt
      <4>2. worker[r][w].percent \in 0..90 /\ progress[Of(r)] \in 0..90
        BY <4>1, <2>4, WorkerFacts DEF WorkerType, ShownAt
      <4>3. CASE progress' = progress
        BY <4>3, <2>1
      <4>4. CASE /\ progress[Of(r)] = NoProgress \/ worker[r][w].percent > progress[Of(r)]
                 /\ SetProgress(r, worker[r][w].percent)
        <5> DEFINE percent == worker[r][w].percent
        <5>0. \A a, b \in 0..90 : a > b => a >= b
          OBVIOUS
        <5>1. percent # NoProgress /\ progress[Of(r)] # NoProgress => percent >= progress[Of(r)]
          BY <4>2, <4>4, <5>0, Zenon
        <5>2. SetProgress(r, percent)
          BY <4>4
        <5> HIDE DEF percent
        <5>3. Claims /\ Of(r) \in Sessions
          BY RequestFacts DEF AnalysisIInv
        <5>4. progress'[s] >= progress[s]
          BY <5>1, <5>2, <5>3, ForwardIsForward DEF SetProgress
        <5> QED BY <5>4
      <4> QED BY <3>2, <4>3, <4>4 DEF Report, AdvanceProgress
    <3> QED BY <2>6, <3>1, <3>2 DEF WorkerStep
  <2>7. CASE Crash
    BY <2>7 DEF Crash
  <2>8. CASE \E t \in Sessions : Ingest(t)
    BY <2>8, <2>1 DEF Ingest
  <2>9. CASE \E r \in Requests : Request(r)
    BY <2>9, <2>1 DEF Request
  <2>10. CASE UNCHANGED vars
    BY <2>10, <2>1 DEF vars
  <2> QED BY <2>5, <2>6, <2>7, <2>8, <2>9, <2>10 DEF Next
<1>2. AnalysisIInv /\ [Next]_vars =>
        [\A s \in Sessions :
            progress[s] # NoProgress /\ progress'[s] # NoProgress =>
               \/ progress'[s] >= progress[s]
               \/ \E r \in Requests : Of(r) = s /\ StartWorkers(r)]_vars
  BY <1>1
<1> QED BY <1>2, AnalysisInvariant, PTL DEF Spec, ProgressNeverGoesBack
===============================================================================
