--------------------------- MODULE JudgePanelProofs ---------------------------
(***************************************************************************)
(* The request over many sessions, for any sample, reviewers, answers and  *)
(* concurrency: its calls are bounded, nothing writes to the results once  *)
(* the report is made, and the report covers what was counted.             *)
(***************************************************************************)
EXTENDS JudgePanel, FiniteSetTheorems, SequenceTheorems, WellFoundedInduction, TLAPS

Steps == {"unborn", "ready", "calling", "called", "written", "released", "done"}

\* What a goroutine has done to the shared results so far.
ResultOf(t) ==
    /\ task[t] \in {"called", "written", "released", "done"} => answered[t] \in Ratings \cup {Failed}
    /\ task[t] \in {"written", "released", "done"} => panels[t] = Verdict(answered[t])

\* Which goroutines there are, by where the request is.
Born ==
    /\ pc \in {"count", "collect", "spawn", "wait", "answer", "done"}
    /\ pc \in {"count", "collect"} => \A t \in Tasks : task[t] = "unborn"
    /\ pc \in {"wait", "answer", "done"} => \A t \in Asked : task[t] # "unborn"
    /\ pc \in {"answer", "done"} => \A t \in Tasks : task[t] \in {"unborn", "done"}

\* The tokens and the counter are what the goroutines' steps say, so that
\* neither can run out or be left behind.
Counted ==
    /\ sem = Cardinality(Holding) /\ sem <= Concurrency
    /\ wg = Cardinality(Alive)

\* The store only grows until the request has collected.
Covered ==
    /\ total \in Nat
    /\ pc \in {"count", "collect"} => stored \in Seq(BOOLEAN)
    /\ pc = "collect" => total <= Len(stored)
    /\ pc \in {"spawn", "wait", "answer", "done"} =>
          collected \in Nat /\ collected >= Min({total, MaxSessions})
    /\ pc = "done" =>
          /\ report.sampled = collected /\ report.total = total
          /\ report.scored = [r \in Reviewers |-> Scored(panels, r)]

PanelIInv ==
    /\ task \in [Tasks -> Steps]
    /\ answered \in [Tasks -> Ratings \cup {Failed, Unset}]
    /\ DOMAIN panels = Tasks
    /\ Born /\ Counted /\ Covered
    /\ \A t \in Tasks : ResultOf(t)

LEMMA MinOfTwo ==
    ASSUME NEW a \in Int, NEW b \in Int
    PROVE  Min({a, b}) \in {a, b} /\ Min({a, b}) <= a /\ Min({a, b}) <= b
<1>1. \E x \in {a, b} : \A y \in {a, b} : x <= y
  OBVIOUS
<1> QED BY <1>1 DEF Min

LEMMA TasksAreFinite == IsFiniteSet(Tasks)
<1>1. IsFiniteSet(1..SampleLimit)
  BY PanelAssumption, FS_Interval
<1> QED BY <1>1, PanelAssumption, FS_Product DEF Tasks

LEMMA HoldingIsFinite == IsFiniteSet(Holding) /\ Cardinality(Holding) \in Nat
<1>1. Holding \in SUBSET Tasks
  BY DEF Holding
<1> QED BY <1>1, TasksAreFinite, FS_Subset, FS_CardinalityType

LEMMA AliveIsFinite == IsFiniteSet(Alive) /\ Cardinality(Alive) \in Nat
<1>1. Alive \in SUBSET Tasks
  BY DEF Alive
<1> QED BY <1>1, TasksAreFinite, FS_Subset, FS_CardinalityType

\* A rating stays within the criteria's scale, and is never taken for a failure.
LEMMA VerdictTyped ==
    ASSUME NEW v \in Ratings \cup {Failed}
    PROVE  Verdict(v) \in (1..5) \cup {Failed} /\ (Verdict(v) = Failed <=> v = Failed)
BY PanelAssumption DEF Verdict, Clamped

LEMMA InitIInv == PanelInit => PanelIInv
<1> SUFFICES ASSUME PanelInit PROVE PanelIInv
  OBVIOUS
<1> USE DEF PanelInit
<1>1. Holding = {} /\ Alive = {}
  BY DEF Holding, Alive
<1>2. Counted
  BY <1>1, FS_EmptySet, PanelAssumption DEF Counted
<1>3. stored \in Seq(BOOLEAN)
  OBVIOUS
<1>4. Born /\ Covered
  BY <1>3 DEF Born, Covered
<1> QED BY <1>2, <1>4 DEF PanelIInv, Steps, ResultOf

-------------------------------------------------------------------------------
(* The request.  None of its steps but Spawn touches a goroutine. *)

Unmoved == UNCHANGED <<task, shared>>

LEMMA UnmovedKeeps ==
    ASSUME PanelIInv, Unmoved
    PROVE  /\ task' \in [Tasks -> Steps]
           /\ answered' \in [Tasks -> Ratings \cup {Failed, Unset}]
           /\ DOMAIN panels' = Tasks
           /\ Counted'
           /\ \A t \in Tasks : ResultOf(t)'
<1>1. Holding' = Holding /\ Alive' = Alive
  BY DEF Unmoved, Holding, Alive
<1>2. Counted'
  BY <1>1 DEF PanelIInv, Counted, Unmoved, shared
<1> QED BY <1>2 DEF PanelIInv, Unmoved, shared, ResultOf

LEMMA IngestKeeps ==
    ASSUME PanelIInv, NEW usable \in BOOLEAN, Ingest(usable)
    PROVE  PanelIInv'
<1>1. Unmoved /\ stored \in Seq(BOOLEAN)
  BY DEF Ingest, Unmoved, PanelIInv, Covered
<1>2. stored' \in Seq(BOOLEAN) /\ Len(stored') = 1 + Len(stored)
  BY <1>1 DEF Ingest
<1>3. Covered'
  BY <1>1, <1>2 DEF Ingest, PanelIInv, Covered
<1>4. Born'
  BY DEF Ingest, PanelIInv, Born, Asked
<1> QED BY <1>1, <1>3, <1>4, UnmovedKeeps DEF PanelIInv

LEMMA CountKeeps ==
    ASSUME PanelIInv, Count
    PROVE  PanelIInv'
<1>1. Unmoved
  BY DEF Count, Unmoved
<1>2. Covered'
  BY DEF Count, PanelIInv, Covered
<1>3. Born'
  BY DEF Count, PanelIInv, Born, Asked
<1> QED BY <1>1, <1>2, <1>3, UnmovedKeeps DEF PanelIInv

LEMMA CollectKeeps ==
    ASSUME PanelIInv, Collect
    PROVE  PanelIInv'
<1>1. Unmoved
  BY DEF Collect, Unmoved
<1> DEFINE m == Min({MaxSessions, Len(stored)})
<1>2. /\ stored \in Seq(BOOLEAN) /\ total \in Nat /\ total <= Len(stored) /\ Len(stored) \in Nat
      /\ MaxSessions \in Nat
  BY PanelAssumption DEF Collect, PanelIInv, Covered
<1>3. m \in Nat /\ m <= Len(stored) /\ m \in {MaxSessions, Len(stored)}
  <2>1. MaxSessions \in Int /\ Len(stored) \in Int
    BY <1>2
  <2>2. m \in {MaxSessions, Len(stored)} /\ m <= Len(stored)
    BY <2>1, MinOfTwo, Zenon
  <2> QED BY <1>2, <2>2
<1>4. collected' = Len(SubSeq(stored, 1, m))
  BY DEF Collect, FirstOf
<1>5. Len(SubSeq(stored, 1, m)) = m
  <2> HIDE DEF m
  <2> QED BY <1>2, <1>3
<1> DEFINE least == Min({total, MaxSessions})
<1>6. least \in Nat /\ least <= m
  <2>1. total \in Int /\ MaxSessions \in Int
    BY <1>2
  <2>2. least \in {total, MaxSessions} /\ least <= total /\ least <= MaxSessions
    BY <2>1, MinOfTwo, Zenon
  <2> HIDE DEF m, least
  <2> QED BY <1>2, <1>3, <2>2
<1>7. pc' \in {"answer", "spawn"} /\ total' = total
  BY DEF Collect
<1>8. Covered'
  <2>1. collected' \in Nat /\ collected' >= Min({total', MaxSessions})
    BY <1>3, <1>4, <1>5, <1>6, <1>7
  <2> QED BY <1>2, <1>7, <2>1 DEF Covered
<1>9. Born'
  <2>1. \A t \in Tasks : task'[t] = "unborn"
    BY <1>1 DEF Collect, PanelIInv, Born, Unmoved
  <2>2. pc' = "answer" => Asked' = {}
    <3>1. ASSUME pc' = "answer" PROVE sample' = <<>>
      BY <3>1 DEF Collect
    <3>2. ASSUME sample' = <<>> PROVE Asked' = {}
      BY <3>2 DEF Asked
    <3> QED BY <3>1, <3>2
  <2> QED BY <1>7, <2>1, <2>2 DEF Born
<1> QED BY <1>1, <1>8, <1>9, UnmovedKeeps DEF PanelIInv

LEMMA SpawnKeeps ==
    ASSUME PanelIInv, NEW t \in Tasks, Spawn(t)
    PROVE  PanelIInv'
<1>1. /\ task \in [Tasks -> Steps] /\ task[t] = "unborn"
      /\ task' = [task EXCEPT ![t] = "ready"] /\ task' \in [Tasks -> Steps]
  BY DEF Spawn, PanelIInv, Steps
<1>2. Holding' = Holding /\ Alive' = Alive \cup {t} /\ t \notin Alive
  BY <1>1 DEF Holding, Alive
<1>3. Counted'
  BY <1>2, AliveIsFinite, FS_AddElement DEF Spawn, Add, PanelIInv, Counted
<1>4. Born' /\ Covered'
  BY DEF Spawn, PanelIInv, Born, Covered
<1>5. ASSUME NEW u \in Tasks PROVE ResultOf(u)'
  BY <1>1 DEF Spawn, PanelIInv, ResultOf
<1> QED BY <1>1, <1>3, <1>4, <1>5 DEF PanelIInv, Spawn

LEMMA SpawnedKeeps ==
    ASSUME PanelIInv, Spawned
    PROVE  PanelIInv'
<1>1. Unmoved
  BY DEF Spawned, Unmoved
<1>2. Born' /\ Covered'
  BY DEF Spawned, PanelIInv, Born, Covered, Asked
<1> QED BY <1>1, <1>2, UnmovedKeeps DEF PanelIInv

\* wg.Wait returns when the counter is 0: no goroutine is left.
LEMMA WaitOverKeeps ==
    ASSUME PanelIInv, WaitOver
    PROVE  PanelIInv'
<1>1. Unmoved
  BY DEF WaitOver, Unmoved
<1>2. Alive = {}
  <2>1. Cardinality(Alive) = 0
    BY AliveIsFinite DEF WaitOver, PanelIInv, Counted
  <2> QED BY <2>1, AliveIsFinite, FS_EmptySet
<1>3. \A t \in Tasks : task[t] \in {"unborn", "done"}
  BY <1>2 DEF Alive
<1>4. Born' /\ Covered'
  BY <1>3 DEF WaitOver, PanelIInv, Born, Covered, Asked
<1> QED BY <1>1, <1>4, UnmovedKeeps DEF PanelIInv

LEMMA AnswerKeeps ==
    ASSUME PanelIInv, Answer
    PROVE  PanelIInv'
<1>1. Unmoved
  BY DEF Answer, Unmoved
<1>2. Born'
  BY DEF Answer, PanelIInv, Born, Asked
<1>3. /\ report'.sampled = collected' /\ report'.total = total'
      /\ report'.scored = [r \in Reviewers |-> Scored(panels, r)']
  BY DEF Answer, shared, Scored
<1>4. Covered'
  BY <1>3 DEF Answer, PanelIInv, Covered
<1> QED BY <1>1, <1>2, <1>4, UnmovedKeeps DEF PanelIInv

-------------------------------------------------------------------------------
(* A goroutine.  What the request knows does not depend on it, as long as it *)
(* goes on, and it cannot be there once the request has stopped waiting.     *)

LEMMA GoroutineAlive ==
    ASSUME PanelIInv, NEW t \in Tasks, NEW from, NEW to \in Steps \ {"unborn"},
           Step(t, from, to), from \notin {"unborn", "done"},
           UNCHANGED <<pc, stored, total, collected, sample, report>>
    PROVE  /\ task' \in [Tasks -> Steps]
           /\ task' = [task EXCEPT ![t] = to]
           /\ pc \in {"spawn", "wait"}
           /\ Born' /\ Covered'
<1>1. /\ task \in [Tasks -> Steps] /\ task[t] = from
      /\ task' = [task EXCEPT ![t] = to] /\ task' \in [Tasks -> Steps]
  BY DEF Step, PanelIInv
<1>2. pc \in {"spawn", "wait"}
  BY <1>1 DEF PanelIInv, Born
<1>3. ASSUME NEW u \in Asked, task[u] # "unborn" PROVE task'[u] # "unborn"
  <2>1. CASE u \in Tasks
    BY <1>1, <1>3, <2>1
  <2>2. CASE u \notin Tasks
    BY <1>1, <1>3, <2>2
  <2> QED BY <2>1, <2>2
<1>4. Born'
  BY <1>2, <1>3 DEF PanelIInv, Born, Asked
<1>5. Covered'
  BY <1>2 DEF PanelIInv, Covered
<1> QED BY <1>1, <1>2, <1>4, <1>5

LEMMA AcquireKeeps ==
    ASSUME PanelIInv, NEW t \in Tasks, Acquire(t)
    PROVE  PanelIInv'
<1>1. /\ task' \in [Tasks -> Steps] /\ task' = [task EXCEPT ![t] = "calling"]
      /\ Born' /\ Covered' /\ task[t] = "ready"
  BY GoroutineAlive DEF Acquire, Step, Steps
<1>2. Holding' = Holding \cup {t} /\ t \notin Holding /\ Alive' = Alive
  BY <1>1 DEF Holding, Alive, PanelIInv
<1>3. Counted'
  <2>1. Cardinality(Holding') = Cardinality(Holding) + 1
    BY <1>2, HoldingIsFinite, FS_AddElement
  <2>2. Concurrency \in Nat
    BY PanelAssumption
  <2> QED BY <1>2, <2>1, <2>2, HoldingIsFinite DEF Acquire, Room, PanelIInv, Counted
<1>4. ASSUME NEW u \in Tasks PROVE ResultOf(u)'
  BY <1>1 DEF Acquire, PanelIInv, ResultOf
<1> QED BY <1>1, <1>3, <1>4 DEF PanelIInv, Acquire

LEMMA CallKeeps ==
    ASSUME PanelIInv, NEW t \in Tasks, Call(t)
    PROVE  PanelIInv'
<1>1. /\ task' \in [Tasks -> Steps] /\ task' = [task EXCEPT ![t] = "called"]
      /\ Born' /\ Covered' /\ task[t] = "calling"
  BY GoroutineAlive DEF Call, Step, Steps
<1>2. Holding' = Holding /\ Alive' = Alive
  BY <1>1 DEF Holding, Alive, PanelIInv
<1>3. Counted'
  BY <1>2 DEF Call, PanelIInv, Counted
<1>4. PICK v \in {Failed} \cup Ratings : answered' = [answered EXCEPT ![t] = v]
  BY DEF Call
<1>5. answered' \in [Tasks -> Ratings \cup {Failed, Unset}] /\ answered'[t] = v
  BY <1>4 DEF PanelIInv
<1>6. ASSUME NEW u \in Tasks PROVE ResultOf(u)'
  BY <1>1, <1>4, <1>5 DEF Call, PanelIInv, ResultOf
<1> QED BY <1>1, <1>3, <1>5, <1>6 DEF PanelIInv, Call

LEMMA WriteKeeps ==
    ASSUME PanelIInv, NEW t \in Tasks, Write(t)
    PROVE  PanelIInv'
<1>1. /\ task' \in [Tasks -> Steps] /\ task' = [task EXCEPT ![t] = "written"]
      /\ Born' /\ Covered'  /\ task[t] = "called"
  BY GoroutineAlive DEF Write, Step, Steps
<1>2. Holding' = Holding /\ Alive' = Alive
  BY <1>1 DEF Holding, Alive, PanelIInv
<1>3. Counted'
  BY <1>2 DEF Write, PanelIInv, Counted
<1>4. panels' = [panels EXCEPT ![t] = Verdict(answered[t])] /\ answered' = answered
      /\ DOMAIN panels = Tasks
  BY DEF Write, PanelIInv
<1>5. ASSUME NEW u \in Tasks PROVE ResultOf(u)'
  BY <1>1, <1>4 DEF PanelIInv, ResultOf, Verdict
<1> QED BY <1>1, <1>3, <1>4, <1>5 DEF PanelIInv

LEMMA ReleaseKeeps ==
    ASSUME PanelIInv, NEW t \in Tasks, Release(t)
    PROVE  PanelIInv'
<1>1. /\ task' \in [Tasks -> Steps] /\ task' = [task EXCEPT ![t] = "released"]
      /\ Born' /\ Covered' /\ task[t] = "written"
  BY GoroutineAlive DEF Release, Step, Steps
<1>2. Holding' = Holding \ {t} /\ t \in Holding /\ Alive' = Alive
  BY <1>1 DEF Holding, Alive, PanelIInv
<1>3. Counted'
  <2>1. Cardinality(Holding') = Cardinality(Holding) - 1
    BY <1>2, HoldingIsFinite, FS_RemoveElement
  <2>2. Concurrency \in Nat
    BY PanelAssumption
  <2> QED BY <1>2, <2>1, <2>2, HoldingIsFinite DEF Release, PanelIInv, Counted
<1>4. ASSUME NEW u \in Tasks PROVE ResultOf(u)'
  BY <1>1 DEF Release, PanelIInv, ResultOf
<1> QED BY <1>1, <1>3, <1>4 DEF PanelIInv, Release

LEMMA DoneKeeps ==
    ASSUME PanelIInv, NEW t \in Tasks, Done(t)
    PROVE  PanelIInv'
<1>1. /\ task' \in [Tasks -> Steps] /\ task' = [task EXCEPT ![t] = "done"]
      /\ Born' /\ Covered' /\ task[t] = "released"
  BY GoroutineAlive DEF Done, Step, Steps
<1>2. Holding' = Holding /\ Alive' = Alive \ {t} /\ t \in Alive
  BY <1>1 DEF Holding, Alive, PanelIInv
<1>3. Counted'
  BY <1>2, AliveIsFinite, FS_RemoveElement DEF Done, PanelIInv, Counted
<1>4. ASSUME NEW u \in Tasks PROVE ResultOf(u)'
  BY <1>1 DEF Done, PanelIInv, ResultOf
<1> QED BY <1>1, <1>3, <1>4 DEF PanelIInv, Done

-------------------------------------------------------------------------------

LEMMA NextKeepsIInv == PanelIInv /\ [PanelNext]_vars => PanelIInv'
<1> SUFFICES ASSUME PanelIInv, [PanelNext]_vars PROVE PanelIInv'
  OBVIOUS
<1>1. CASE \E usable \in BOOLEAN : Ingest(usable)
  BY <1>1, IngestKeeps
<1>2. CASE Handler
  BY <1>2, CountKeeps, CollectKeeps, SpawnKeeps, SpawnedKeeps, WaitOverKeeps, AnswerKeeps
  DEF Handler
<1>3. CASE \E t \in Tasks : Goroutine(t)
  BY <1>3, AcquireKeeps, CallKeeps, WriteKeeps, ReleaseKeeps, DoneKeeps DEF Goroutine
<1>4. CASE UNCHANGED vars
  <2>1. Unmoved
    BY <1>4 DEF vars, Unmoved
  <2>2. Born' /\ Covered'
    BY <1>4 DEF vars, shared, PanelIInv, Born, Covered, Asked, Scored
  <2> QED BY <2>1, <2>2, UnmovedKeeps DEF PanelIInv
<1> QED BY <1>1, <1>2, <1>3, <1>4 DEF PanelNext

\* The inductive invariant of the judge panel and of the prompt lab: the tokens
\* and the WaitGroup's counter are what the goroutines hold and owe.
THEOREM PanelInvariance == PanelSpec => []PanelIInv
<1> QED BY InitIInv, NextKeepsIInv, PTL DEF PanelSpec

\* At most judgeConcurrency (optimizeConcurrency) calls of the model are under
\* way, however many sessions, reviewers and failures there are.
THEOREM PanelCallsAreBounded == PanelSpec => []CallsAreBounded
<1>1. ASSUME PanelIInv PROVE CallsAreBounded
  <2> DEFINE Calling == {t \in Tasks : task[t] = "calling"}
  <2>1. Calling \in SUBSET Holding
    BY DEF Holding
  <2>2. Cardinality(Calling) <= Cardinality(Holding) /\ Cardinality(Calling) \in Nat
    BY <2>1, HoldingIsFinite, FS_Subset, FS_CardinalityType
  <2>3. sem = Cardinality(Holding) /\ sem <= Concurrency /\ Cardinality(Holding) \in Nat
    BY <1>1, HoldingIsFinite DEF PanelIInv, Counted
  <2> QED BY <2>2, <2>3, PanelAssumption DEF CallsAreBounded
<1> QED BY <1>1, PanelInvariance, PTL

\* A report covers all the sessions its request counted, or MaxSessions.
THEOREM ReportCoversCount == PanelSpec => []SampleCoversCount
<1>1. ASSUME PanelIInv PROVE SampleCoversCount
  BY <1>1 DEF PanelIInv, Covered, SampleCoversCount
<1> QED BY <1>1, PanelInvariance, PTL

\* When the report is made no goroutine is left that could write to the results,
\* every result that was written is the model's answer, clamped or failed, and
\* the scores the report counts are those of the results as they stay.
ReportIsSettled == pc = "done" =>
    /\ Alive = {}
    /\ \A t \in Tasks : task[t] # "unborn" =>
          /\ panels[t] = Verdict(answered[t]) /\ panels[t] \in (1..5) \cup {Failed}
          /\ panels[t] = Failed <=> answered[t] = Failed
    /\ \A r \in Reviewers : report.scored[r] = Scored(panels, r)

\* wg.Wait (eval.go, optimize.go) returns after the last goroutine's write.
THEOREM ReportsAreSettled == PanelSpec => []ReportIsSettled
<1>1. ASSUME PanelIInv, pc = "done" PROVE ReportIsSettled
  <2>1. \A t \in Tasks : task[t] \in {"unborn", "done"}
    BY <1>1 DEF PanelIInv, Born
  <2>2. Alive = {}
    BY <2>1 DEF Alive
  <2>3. ASSUME NEW t \in Tasks, task[t] # "unborn"
        PROVE  /\ panels[t] = Verdict(answered[t]) /\ panels[t] \in (1..5) \cup {Failed}
               /\ panels[t] = Failed <=> answered[t] = Failed
    <3>1. answered[t] \in Ratings \cup {Failed} /\ panels[t] = Verdict(answered[t])
      BY <1>1, <2>1, <2>3 DEF PanelIInv, ResultOf
    <3> QED BY <3>1, VerdictTyped
  <2>4. \A r \in Reviewers : report.scored[r] = Scored(panels, r)
    BY <1>1 DEF PanelIInv, Covered
  <2> QED BY <2>2, <2>3, <2>4 DEF ReportIsSettled
<1>2. PanelIInv => ReportIsSettled
  BY <1>1 DEF ReportIsSettled
<1> QED BY <1>2, PanelInvariance, PTL

-------------------------------------------------------------------------------
(* Every verdict that arrived is in the report. *)

\* A loop that skips some positions takes each of the others once, in some place.
LEMMA InOrderHasAll ==
    ASSUME NEW S \in SUBSET Nat, IsFiniteSet(S)
    PROVE  /\ InOrder(S) \in Seq(S)
           /\ \A m, n \in DOMAIN InOrder(S) : InOrder(S)[m] = InOrder(S)[n] => m = n
           /\ \A i \in S : \E n \in DOMAIN InOrder(S) : InOrder(S)[n] = i
<1> DEFINE upTo(i) == {j \in S : j <= i}
           rank == [i \in S |-> Cardinality(upTo(i))]
           N == 1..Cardinality(S)
           nth(n) == CHOOSE i \in S : Cardinality(upTo(i)) = n
<1>1. Cardinality(S) \in Nat /\ IsFiniteSet(N) /\ Cardinality(N) = Cardinality(S)
  BY FS_CardinalityType, FS_Interval
<1>2. ASSUME NEW i \in S
      PROVE  /\ upTo(i) \in SUBSET S /\ i \in upTo(i) /\ IsFiniteSet(upTo(i))
             /\ Cardinality(upTo(i)) \in N
  <2>1. upTo(i) \in SUBSET S /\ i \in upTo(i)
    OBVIOUS
  <2> HIDE DEF upTo
  <2>2. IsFiniteSet(upTo(i)) /\ Cardinality(upTo(i)) <= Cardinality(S)
    BY <2>1, FS_Subset
  <2>3. Cardinality(upTo(i)) \in Nat /\ Cardinality(upTo(i)) # 0
    BY <2>1, <2>2, FS_CardinalityType, FS_EmptySet
  <2> QED BY <1>1, <2>1, <2>2, <2>3
<1>3. ASSUME NEW i \in S, NEW j \in S, i <= j, Cardinality(upTo(i)) = Cardinality(upTo(j))
      PROVE  i = j
  <2>1. upTo(i) \in SUBSET upTo(j)
    <3>1. \A k, m, n \in Nat : k <= m /\ m <= n => k <= n
      OBVIOUS
    <3>2. \A k \in S : k <= i => k <= j
      BY <1>3, <3>1
    <3> QED BY <3>2
  <2>2. j \in upTo(j) /\ IsFiniteSet(upTo(j)) /\ (j \in upTo(i) => j <= i)
    BY <1>2
  <2> HIDE DEF upTo
  <2>3. upTo(i) = upTo(j)
    BY <1>3, <2>1, <2>2, FS_Subset
  <2> QED BY <1>3, <2>2, <2>3
<1>4. \A i, j \in S : Cardinality(upTo(i)) = Cardinality(upTo(j)) => i = j
  <2> SUFFICES ASSUME NEW i \in S, NEW j \in S, Cardinality(upTo(i)) = Cardinality(upTo(j))
               PROVE  i = j
    OBVIOUS
  <2>1. i <= j \/ j <= i
    OBVIOUS
  <2> HIDE DEF upTo
  <2> QED BY <1>3, <2>1
<1>5. rank \in Injection(S, N) /\ \A i \in S : rank[i] = Cardinality(upTo(i))
  <2> HIDE DEF upTo, N
  <2> QED BY <1>2, <1>4 DEF Injection, IsInjective
<1>6. InOrder(S) = [n \in N |-> nth(n)]
  BY DEF InOrder
<1> HIDE DEF rank, N, upTo
<1>7. rank \in Surjection(S, N)
  BY <1>1, <1>5, FS_Injection
<1>8. ASSUME NEW n \in N PROVE nth(n) \in S /\ Cardinality(upTo(nth(n))) = n
  <2>1. \E i \in S : rank[i] = n
    BY <1>7 DEF Surjection
  <2> QED BY <1>5, <2>1
<1>9. \A i \in S : nth(Cardinality(upTo(i))) = i
  <2> SUFFICES ASSUME NEW i \in S PROVE nth(Cardinality(upTo(i))) = i
    OBVIOUS
  <2>1. Cardinality(upTo(i)) \in N
    BY <1>2
  <2>2. nth(Cardinality(upTo(i))) \in S
        /\ Cardinality(upTo(nth(Cardinality(upTo(i))))) = Cardinality(upTo(i))
    BY <1>8, <2>1
  <2> HIDE DEF nth
  <2> QED BY <1>4, <2>2
<1> HIDE DEF nth
<1>10. InOrder(S) \in Seq(S)
  <2>1. InOrder(S) \in [N -> S]
    BY <1>6, <1>8
  <2> QED BY <1>1, <2>1, SeqDef DEF N
<1>11. \A m, n \in DOMAIN InOrder(S) : InOrder(S)[m] = InOrder(S)[n] => m = n
  BY <1>6, <1>8
<1>12. \A i \in S : \E n \in DOMAIN InOrder(S) : InOrder(S)[n] = i
  BY <1>2, <1>6, <1>9
<1> QED BY <1>10, <1>11, <1>12

\* The first n of a list are a part of it.
LEMMA FirstOfIsPart ==
    ASSUME NEW S, NEW s \in Seq(S), NEW n \in Nat
    PROVE  /\ FirstOf(s, n) \in Seq(S) /\ Len(FirstOf(s, n)) <= n /\ Len(FirstOf(s, n)) <= Len(s)
           /\ Len(FirstOf(s, n)) \in Nat
           /\ \A i \in DOMAIN FirstOf(s, n) : i \in DOMAIN s /\ FirstOf(s, n)[i] = s[i]
<1> DEFINE m == Min({n, Len(s)})
<1>1. m \in Nat /\ m <= n /\ m <= Len(s)
  <2>1. n \in Int /\ Len(s) \in Int /\ Len(s) \in Nat
    OBVIOUS
  <2>2. m \in {n, Len(s)} /\ m <= n /\ m <= Len(s)
    BY <2>1, MinOfTwo, Zenon
  <2> HIDE DEF m
  <2> QED BY <2>1, <2>2
<1>2. FirstOf(s, n) = SubSeq(s, 1, m)
  BY DEF FirstOf
<1> HIDE DEF m
<1>3. /\ SubSeq(s, 1, m) \in Seq(S) /\ Len(SubSeq(s, 1, m)) = m
      /\ \A i \in 1..m : SubSeq(s, 1, m)[i] = s[i]
  BY <1>1
<1> QED BY <1>1, <1>2, <1>3

\* The sessions asked about are different ones, and the report has the cases of the
\* results as they stay.
SampleIInv ==
    /\ sample \in Seq(Nat) /\ Len(sample) <= SampleLimit
    /\ \A i, j \in DOMAIN sample : sample[i] = sample[j] => i = j
    /\ pc = "done" => report.judged = Cases(panels)

\* Positions of a list.
LEMMA PositionsAreFinite ==
    ASSUME NEW n \in Nat, NEW S \in SUBSET (1..n)
    PROVE  S \in SUBSET Nat /\ IsFiniteSet(S)
<1>1. IsFiniteSet(1..n)
  BY FS_Interval
<1>2. S \in SUBSET Nat
  OBVIOUS
<1> QED BY <1>1, <1>2, FS_Subset

\* A sample has no session twice, and SampleLimit at most.
LEMMA SampledOnce ==
    ASSUME NEW rows \in Seq(BOOLEAN)
    PROVE  /\ Sampled(rows) \in Seq(Nat) /\ Len(Sampled(rows)) <= SampleLimit
           /\ \A i, j \in DOMAIN Sampled(rows) : Sampled(rows)[i] = Sampled(rows)[j] => i = j
<1> DEFINE S == {i \in DOMAIN rows : rows[i]}
<1>1. S \in SUBSET (1..Len(rows)) /\ Len(rows) \in Nat
  OBVIOUS
<1>2. S \in SUBSET Nat /\ IsFiniteSet(S) /\ Usable(rows) = InOrder(S)
  <2>1. Usable(rows) = InOrder(S)
    BY DEF Usable
  <2> HIDE DEF S
  <2> QED BY <1>1, <2>1, PositionsAreFinite
<1> HIDE DEF S
<1>3. /\ Usable(rows) \in Seq(Nat)
      /\ \A i, j \in DOMAIN Usable(rows) : Usable(rows)[i] = Usable(rows)[j] => i = j
  <2>1. InOrder(S) \in Seq(S)
    BY <1>2, InOrderHasAll
  <2>2. InOrder(S) \in Seq(Nat)
    <3>1. /\ Len(InOrder(S)) \in Nat /\ InOrder(S) = [i \in 1..Len(InOrder(S)) |-> InOrder(S)[i]]
          /\ \A i \in 1..Len(InOrder(S)) : InOrder(S)[i] \in S
      BY <2>1
    <3> QED BY <1>2, <3>1
  <2> QED BY <1>2, <2>2, InOrderHasAll
<1>4. SampleLimit \in Nat
  BY PanelAssumption
<1> QED BY <1>3, <1>4, FirstOfIsPart DEF Sampled

\* A sample is taken once, and no result is written when the report is made.
LEMMA NextKeepsSample == PanelIInv /\ SampleIInv /\ [PanelNext]_vars => SampleIInv'
<1> SUFFICES ASSUME PanelIInv, SampleIInv, [PanelNext]_vars PROVE SampleIInv'
  OBVIOUS
<1>1. CASE Collect
  <2>1. stored \in Seq(BOOLEAN) /\ MaxSessions \in Nat
    BY <1>1, PanelAssumption DEF Collect, PanelIInv, Covered
  <2>2. FirstOf(stored, MaxSessions) \in Seq(BOOLEAN)
    BY <2>1, FirstOfIsPart
  <2>3. sample' = Sampled(FirstOf(stored, MaxSessions)) /\ pc' # "done"
    BY <1>1 DEF Collect
  <2> QED BY <2>2, <2>3, SampledOnce DEF SampleIInv
<1>2. CASE Answer
  BY <1>2 DEF Answer, SampleIInv, shared, Cases, Case
<1>3. ASSUME NEW t \in Tasks, Write(t) PROVE SampleIInv'
  <2>1. pc # "done"
    BY <1>3 DEF Write, Step, PanelIInv, Born
  <2> QED BY <1>3, <2>1 DEF Write, SampleIInv
<1>4. ASSUME UNCHANGED <<sample, panels, report>>, pc' = "done" => pc = "done"
      PROVE  SampleIInv'
  BY <1>4 DEF SampleIInv, Cases, Case
<1>5. CASE \E usable \in BOOLEAN : Ingest(usable)
  BY <1>4, <1>5 DEF Ingest, shared
<1>6. CASE Count \/ Spawned \/ WaitOver \/ \E t \in Tasks : Spawn(t)
  BY <1>4, <1>6 DEF Count, Spawned, WaitOver, Spawn, shared
<1>7. ASSUME NEW t \in Tasks, Acquire(t) \/ Call(t) \/ Release(t) \/ Done(t) PROVE SampleIInv'
  BY <1>4, <1>7 DEF Acquire, Call, Release, Done
<1>8. CASE UNCHANGED vars
  BY <1>4, <1>8 DEF vars, shared
<1> QED BY <1>1, <1>2, <1>3, <1>5, <1>6, <1>7, <1>8 DEF PanelNext, Handler, Goroutine

\* EveryVerdictCounts: the report is made after the last goroutine's write (wg.Wait), and has
\* one case for each sampled session with a verdict, of all its verdicts.
THEOREM NoVerdictIsLost == PanelSpec => []EveryVerdictCounts
<1>1. PanelInit => SampleIInv
  <2>1. SampleLimit \in Nat
    BY PanelAssumption
  <2> QED BY <2>1 DEF PanelInit, SampleIInv
<1>2. PanelIInv /\ SampleIInv => EveryVerdictCounts
  <2> SUFFICES ASSUME PanelIInv, SampleIInv, pc = "done" PROVE EveryVerdictCounts
    BY DEF EveryVerdictCounts
  <2> DEFINE Got(i) == {l \in Reviewers : answered[<<i, l>>] \notin {Failed, Unset}}
             S == {i \in DOMAIN sample : Verdicts(panels, i) # {}}
  <2>1. Alive = {}
    BY DEF PanelIInv, Born, Alive
  <2>2. ASSUME NEW i \in DOMAIN sample, NEW l \in Reviewers
        PROVE  /\ <<i, l>> \in Tasks
               /\ panels[<<i, l>>] \in {Failed, Unset} <=> answered[<<i, l>>] \in {Failed, Unset}
    <3>1. Len(sample) \in Nat /\ Len(sample) <= SampleLimit /\ SampleLimit \in Nat
          /\ DOMAIN sample = 1..Len(sample)
      BY PanelAssumption DEF SampleIInv
    <3>2. <<i, l>> \in Asked /\ <<i, l>> \in Tasks
      BY <3>1 DEF Asked, Tasks
    <3>3. task[<<i, l>>] = "done"
      BY <3>2 DEF PanelIInv, Born
    <3>4. panels[<<i, l>>] = Verdict(answered[<<i, l>>]) /\ answered[<<i, l>>] \in Ratings \cup {Failed}
      BY <3>2, <3>3 DEF PanelIInv, ResultOf
    <3>5. /\ panels[<<i, l>>] \in (1..5) \cup {Failed}
          /\ panels[<<i, l>>] = Failed <=> answered[<<i, l>>] = Failed
      BY <3>4, VerdictTyped
    <3>6. answered[<<i, l>>] # Unset /\ panels[<<i, l>>] # Unset
      <4>1. \A v \in Ratings \cup (1..5) \cup {Failed} : v # Unset
        <5>1. Ratings \subseteq Int /\ (1..5) \subseteq Int
          BY PanelAssumption
        <5> QED BY <5>1, PanelAssumption, Zenon
      <4> QED BY <3>4, <3>5, <4>1, Zenon
    <3> QED BY <3>2, <3>5, <3>6
  <2>3. ASSUME NEW i \in DOMAIN sample
        PROVE  /\ Verdicts(panels, i) = {<<i, l>> : l \in Got(i)}
               /\ Cardinality(Verdicts(panels, i)) = Cardinality(Got(i))
    <3>1. Verdicts(panels, i) = {<<i, l>> : l \in Got(i)}
      <4>1. ASSUME NEW t \in Verdicts(panels, i) PROVE \E l \in Got(i) : t = <<i, l>>
        <5>1. t \in {i} \X Reviewers /\ panels[t] \notin {Failed, Unset}
          BY DEF Verdicts
        <5>2. PICK l \in Reviewers : t = <<i, l>>
          BY <5>1
        <5> QED BY <2>2, <5>1, <5>2
      <4>2. ASSUME NEW l \in Got(i) PROVE <<i, l>> \in Verdicts(panels, i)
        BY <2>2 DEF Verdicts
      <4> QED BY <4>1, <4>2
    <3> DEFINE f == [l \in Got(i) |-> <<i, l>>]
    <3>2. f \in Bijection(Got(i), Verdicts(panels, i))
      <4>1. f \in [Got(i) -> Verdicts(panels, i)]
        BY <3>1
      <4>2. \A k, l \in Got(i) : f[k] = f[l] => k = l
        OBVIOUS
      <4>3. \A t \in Verdicts(panels, i) : \E l \in Got(i) : f[l] = t
        BY <3>1
      <4> HIDE DEF f
      <4> QED BY <4>1, <4>2, <4>3 DEF Bijection, Injection, IsInjective, Surjection
    <3>3. IsFiniteSet(Got(i))
      BY PanelAssumption, FS_Subset
    <3> QED BY <3>1, <3>2, <3>3, FS_Bijection DEF ExistsBijection
  <2>4. S \in SUBSET Nat /\ IsFiniteSet(S)
    <3>1. S \in SUBSET (1..Len(sample)) /\ Len(sample) \in Nat
      BY DEF SampleIInv
    <3> HIDE DEF S
    <3> QED BY <3>1, PositionsAreFinite
  <2>5. /\ report.judged = [n \in DOMAIN InOrder(S) |-> Case(panels, InOrder(S)[n])]
        /\ \A n \in DOMAIN InOrder(S) : InOrder(S)[n] \in S
        /\ \A i \in S : \E n \in DOMAIN InOrder(S) : InOrder(S)[n] = i
    <3>1. report.judged = [n \in DOMAIN InOrder(S) |-> Case(panels, InOrder(S)[n])]
      BY DEF SampleIInv, Cases
    <3>2. InOrder(S) \in Seq(S)
      BY <2>4, InOrderHasAll
    <3> HIDE DEF S
    <3> QED BY <2>4, <3>1, <3>2, InOrderHasAll
  <2>6. ASSUME NEW i \in DOMAIN sample
        PROVE  \/ Got(i) = {} /\ \A c \in Range(report.judged) : c.position # sample[i]
               \/ \E c \in Range(report.judged) :
                     c.position = sample[i] /\ c.samples = Cardinality(Got(i))
    <3>1. CASE Got(i) = {}
      <4>1. i \notin S
        BY <2>3, <3>1
      <4>2. ASSUME NEW c \in Range(report.judged) PROVE c.position # sample[i]
        <5>1. PICK n \in DOMAIN InOrder(S) : c = Case(panels, InOrder(S)[n])
          BY <2>5 DEF Range
        <5>2. InOrder(S)[n] \in S /\ c.position = sample[InOrder(S)[n]]
          BY <2>5, <5>1 DEF Case
        <5>3. InOrder(S)[n] \in DOMAIN sample /\ InOrder(S)[n] # i
          BY <4>1, <5>2
        <5> QED BY <5>2, <5>3 DEF SampleIInv
      <4> QED BY <3>1, <4>2
    <3>2. CASE Got(i) # {}
      <4>1. i \in S
        <5>1. PICK l \in Got(i) : TRUE
          BY <3>2
        <5>2. <<i, l>> \in {<<i, k>> : k \in Got(i)}
          BY <5>1
        <5>3. <<i, l>> \in Verdicts(panels, i)
          BY <2>3, <5>2
        <5> QED BY <5>3
      <4>2. PICK n \in DOMAIN InOrder(S) : InOrder(S)[n] = i
        BY <2>5, <4>1
      <4>3. Case(panels, i) \in Range(report.judged)
        BY <2>5, <4>2 DEF Range
      <4>4. Case(panels, i).position = sample[i]
            /\ Case(panels, i).samples = Cardinality(Got(i))
        BY <2>3 DEF Case
      <4> QED BY <4>3, <4>4
    <3> QED BY <3>1, <3>2
  <2>7. ASSUME NEW r \in Reviewers
        PROVE  report.scored[r] = Cardinality({i \in DOMAIN sample :
                                      answered[<<i, r>>] \notin {Failed, Unset}})
    <3>1. report.scored[r] = Scored(panels, r)
      BY DEF PanelIInv, Covered
    <3>2. {i \in DOMAIN sample : panels[<<i, r>>] \notin {Failed, Unset}}
          = {i \in DOMAIN sample : answered[<<i, r>>] \notin {Failed, Unset}}
      BY <2>2
    <3> QED BY <3>1, <3>2 DEF Scored
  <2> HIDE DEF S
  <2> QED BY <2>1, <2>6, <2>7 DEF EveryVerdictCounts
<1> QED BY <1>1, <1>2, NextKeepsSample, PanelInvariance, PTL DEF PanelSpec
-------------------------------------------------------------------------------
(* Sums.  The induction theorems of the library are about operators; these are *)
(* about sets and functions, as a prover can instantiate them.                 *)

LEMMA SmallestSet ==
    ASSUME NEW S, IsFiniteSet(S), NEW B \in SUBSET SUBSET S, B # {}
    PROVE  \E T \in B : \A U \in B : U \subseteq T => U = T
<1>1. IsWellFoundedOn(StrictSubsetOrdering(S), FiniteSubsetsOf(S))
  BY FS_StrictSubsetOrderingWellFounded
<1>2. B \subseteq FiniteSubsetsOf(S)
  BY FS_FiniteSubsetsOfFinite
<1>3. \E T \in B : \A U \in B : ~(<<U, T>> \in StrictSubsetOrdering(S))
  BY <1>1, <1>2, WFMin
<1> QED BY <1>3 DEF StrictSubsetOrdering

LEMMA NatByStep ==
    ASSUME NEW B, 0 \in B, \A n \in Nat : n \in B => n + 1 \in B
    PROVE  \A n \in Nat : n \in B
<1>1. SUFFICES ASSUME NEW n \in Nat, n \notin B PROVE FALSE
  OBVIOUS
<1> DEFINE Missed == {0..k : k \in {j \in 0..n : j \notin B}}
<1>2. \E T \in Missed : \A U \in Missed : U \subseteq T => U = T
  <2> DEFINE I == 0..n
  <2>1. IsFiniteSet(I)
    BY FS_Interval
  <2>2. Missed \in SUBSET SUBSET I
    OBVIOUS
  <2>3. Missed # {}
    BY <1>1
  <2> HIDE DEF Missed, I
  <2> QED BY <2>1, <2>2, <2>3, SmallestSet
<1>3. PICK m \in 0..n : m \notin B /\ \A U \in Missed : U \subseteq 0..m => U = 0..m
  BY <1>2
<1>4. m - 1 \in 0..n /\ m - 1 \notin B
  BY <1>3
<1>5. 0..(m - 1) = 0..m
  <2>1. 0..(m - 1) \in Missed
    BY <1>4
  <2>2. 0..(m - 1) \subseteq 0..m
    OBVIOUS
  <2> HIDE DEF Missed
  <2> QED BY <1>3, <2>1, <2>2
<1> QED BY <1>5, <1>4

\* What a choice function, and the iteration of a fold over a set, are.
Chooses(ch, S) == \A s \in SUBSET S : s # {} => ch[s] \in s
Iterates(h, S, base, ch, F) ==
    \A s \in SUBSET S : h[s] = IF s = {} THEN base ELSE F[<<ch[s], h[s \ {ch[s]}]>>]

\* A fold's iteration exists
LEMMA IterationExists ==
    ASSUME NEW S, IsFiniteSet(S), NEW V, NEW base \in V,
           NEW ch, Chooses(ch, S), NEW F \in [S \X V -> V]
    PROVE  \E h \in [SUBSET S -> V] : Iterates(h, S, base, ch, F)
<1> USE DEF Chooses
<1> DEFINE Eq(h, s) == h[s] = IF s = {} THEN base ELSE F[<<ch[s], h[s \ {ch[s]}]>>]
           UpTo(k) == \E h \in [SUBSET S -> V] : \A s \in SUBSET S : Cardinality(s) <= k => Eq(h, s)
           B == {k \in Nat : UpTo(k)}
<1>0. \A s \in SUBSET S : IsFiniteSet(s) /\ Cardinality(s) \in Nat /\ (Cardinality(s) = 0 <=> s = {})
                          /\ Cardinality(s) <= Cardinality(S)
  BY FS_Subset, FS_CardinalityType, FS_EmptySet
<1>1. \A s \in SUBSET S : s # {} => /\ s \ {ch[s]} \in SUBSET S
                                    /\ Cardinality(s \ {ch[s]}) = Cardinality(s) - 1
  BY <1>0, FS_RemoveElement
<1>2. 0 \in B
  <2>1. [s \in SUBSET S |-> base] \in [SUBSET S -> V]
    OBVIOUS
  <2>2. \A s \in SUBSET S : Cardinality(s) <= 0 => Eq([r \in SUBSET S |-> base], s)
    BY <1>0
  <2> QED BY <2>1, <2>2
<1>3. ASSUME NEW k \in Nat, k \in B PROVE k + 1 \in B
  <2>1. PICK h \in [SUBSET S -> V] : \A s \in SUBSET S : Cardinality(s) <= k => Eq(h, s)
    BY <1>3
  <2> DEFINE g == [s \in SUBSET S |-> IF Cardinality(s) <= k THEN h[s] ELSE F[<<ch[s], h[s \ {ch[s]}]>>]]
  <2>2. ASSUME NEW s \in SUBSET S, s # {} PROVE F[<<ch[s], h[s \ {ch[s]}]>>] \in V
    <3>1. ch[s] \in S /\ h[s \ {ch[s]}] \in V
      BY <2>2, <1>1
    <3> QED BY <3>1
  <2>3. g \in [SUBSET S -> V]
    <3>1. \A s \in SUBSET S : ~(Cardinality(s) <= k) => s # {}
      BY <1>0
    <3> QED BY <2>2, <3>1
  <2>4. ASSUME NEW s \in SUBSET S, Cardinality(s) <= k + 1 PROVE Eq(g, s)
    <3>1. CASE s = {}
      BY <3>1, <2>1, <1>0
    <3>2. CASE s # {}
      <4>1. s \ {ch[s]} \in SUBSET S /\ Cardinality(s \ {ch[s]}) <= k
        BY <3>2, <1>1, <1>0, <2>4
      <4>2. g[s \ {ch[s]}] = h[s \ {ch[s]}]
        BY <4>1
      <4>3. g[s] = F[<<ch[s], h[s \ {ch[s]}]>>]
        BY <3>2, <2>1
      <4> QED BY <4>2, <4>3, <3>2
    <3> QED BY <3>1, <3>2
  <2> HIDE DEF g, Eq
  <2>5. UpTo(k + 1)
    BY <2>3, <2>4
  <2> QED BY <2>5
<1>4. Cardinality(S) \in B
  <2> HIDE DEF B
  <2> QED BY <1>2, <1>3, NatByStep, FS_CardinalityType
<1> QED BY <1>4, <1>0 DEF Iterates

\* A sum over a finite set is between its size times a lower and times an upper bound.
LEMMA IterationWithin ==
    ASSUME NEW S, IsFiniteSet(S), NEW g, NEW ch, NEW low \in Int, NEW high \in Int,
           Chooses(ch, S), \A x \in S : g[x] \in low..high,
           NEW h, \A s \in SUBSET S : h[s] = IF s = {} THEN 0 ELSE g[ch[s]] + h[s \ {ch[s]}]
    PROVE  h[S] \in Int /\ low * Cardinality(S) <= h[S] /\ h[S] <= high * Cardinality(S)
<1> DEFINE Ok(s) == h[s] \in Int /\ low * Cardinality(s) <= h[s] /\ h[s] <= high * Cardinality(s)
           Bad == {s \in SUBSET S : ~Ok(s)}
<1>1. SUFFICES ASSUME Bad # {} PROVE FALSE
  OBVIOUS
<1>2. PICK s \in Bad : \A r \in Bad : r \subseteq s => r = s
  <2> HIDE DEF Bad
  <2>1. Bad \in SUBSET SUBSET S
    BY DEF Bad
  <2> QED BY <1>1, <2>1, SmallestSet
<1>3. IsFiniteSet(s) /\ Cardinality(s) \in Nat
  BY FS_Subset, FS_CardinalityType
<1>4. s # {}
  <2>1. SUFFICES ASSUME s = {} PROVE FALSE
    OBVIOUS
  <2>2. h[s] = 0 /\ Cardinality(s) = 0
    BY <2>1, FS_EmptySet
  <2>3. ~Ok(s)
    OBVIOUS
  <2> QED BY <2>2, <2>3
<1> DEFINE x == ch[s]
<1>5. x \in S /\ x \in s /\ s \ {x} \in SUBSET S /\ s \ {x} # s
  BY <1>4 DEF Chooses
<1>6. Ok(s \ {x})
  BY <1>2, <1>5
<1>7. Cardinality(s \ {x}) = Cardinality(s) - 1
  BY <1>3, <1>5, FS_RemoveElement
<1>8. h[s] = g[x] + h[s \ {x}] /\ g[x] \in low..high
  BY <1>4, <1>5
<1> HIDE DEF x
<1>9. ASSUME NEW a \in Int, NEW b \in Int, NEW n \in Int, low <= a, a <= high,
             low * (n - 1) <= b, b <= high * (n - 1)
      PROVE  low * n <= a + b /\ a + b <= high * n
  <2>1. low * n = low + low * (n - 1) /\ high * n = high + high * (n - 1)
    OBVIOUS
  <2>2. low * (n - 1) \in Int /\ high * (n - 1) \in Int
    OBVIOUS
  <2> QED BY <1>9, <2>1, <2>2
<1>10. Ok(s)
  BY <1>3, <1>6, <1>7, <1>8, <1>9
<1> QED BY <1>10

LEMMA SumWithin ==
    ASSUME NEW S, IsFiniteSet(S), NEW p, NEW low \in Int, NEW high \in Int,
           \A x \in S : p[x] \in low..high
    PROVE  /\ SumOf(p, S) \in Int
           /\ low * Cardinality(S) <= SumOf(p, S)
           /\ SumOf(p, S) <= high * Cardinality(S)
<1> DEFINE ch == [s \in SUBSET S |-> CHOOSE x \in s : TRUE]
           F == [q \in S \X Int |-> p[q[1]] + q[2]]
           It(h) == h = [s \in SUBSET S |-> IF s = {} THEN 0
                           ELSE p[CHOOSE x \in s : TRUE] + h[s \ {CHOOSE x \in s : TRUE}]]
           iter == CHOOSE h : It(h)
<1>1. Chooses(ch, S)
  BY DEF Chooses
<1>0. \A s \in SUBSET S : ch[s] = CHOOSE x \in s : TRUE
  OBVIOUS
<1>2. \E h : It(h)
  <2> DEFINE V == Int
  <2>1. F \in [S \X V -> V] /\ 0 \in V
    OBVIOUS
  <2>2. PICK h \in [SUBSET S -> V] : Iterates(h, S, 0, ch, F)
    <3> HIDE DEF F, ch, V, It
    <3> QED BY <1>1, <2>1, IterationExists
  <2>3. \A s \in SUBSET S : h[s] = IF s = {} THEN 0
                           ELSE p[CHOOSE x \in s : TRUE] + h[s \ {CHOOSE x \in s : TRUE}]
    <3>1. ASSUME NEW s \in SUBSET S, s # {}
          PROVE  h[s] = p[ch[s]] + h[s \ {ch[s]}]
      <4>1. ch[s] \in S /\ h[s \ {ch[s]}] \in Int
        BY <1>1, <3>1 DEF Chooses
      <4> QED BY <2>2, <3>1, <4>1 DEF Iterates
    <3>2. h[{}] = 0
      BY <2>2 DEF Iterates
    <3> QED BY <1>0, <3>1, <3>2
  <2>4. It(h)
    BY <2>3
  <2> QED BY <2>4
<1>3. It(iter)
  BY <1>2
<1>4. SumOf(p, S) = iter[S]
  BY DEF SumOf, MapThenSumSet, MapThenFoldSet
<1>5. \A s \in SUBSET S : iter[s] = IF s = {} THEN 0 ELSE p[ch[s]] + iter[s \ {ch[s]}]
  <2> HIDE DEF iter
  <2> QED BY <1>0, <1>3
<1> HIDE DEF iter, ch
<1>6. iter[S] \in Int /\ low * Cardinality(S) <= iter[S] /\ iter[S] <= high * Cardinality(S)
  BY <1>1, <1>5, IterationWithin
<1> QED BY <1>4, <1>6

LEMMA QuotientWithin ==
    ASSUME NEW a \in Int, NEW b \in Nat, b # 0, NEW low \in Int, NEW high \in Int,
           low * b <= a, a < (high + 1) * b
    PROVE  a \div b \in low..high
<1> DEFINE q == a \div b
<1>1. q \in Int /\ q * b <= a /\ a < (q + 1) * b
  OBVIOUS
<1> HIDE DEF q
<1>2. \A x, y \in Int : x * b < y * b => x < y
  OBVIOUS
<1>3. low < q + 1 /\ q < high + 1
  <2>1. low * b < (q + 1) * b /\ q * b < (high + 1) * b
    <3>1. low * b \in Int /\ q * b \in Int /\ (q + 1) * b \in Int /\ (high + 1) * b \in Int
      BY <1>1
    <3> QED BY <1>1, <3>1
  <2> QED BY <1>1, <1>2, <2>1
<1> QED BY <1>1, <1>3 DEF q

\* A mean of ratings is between the lowest and the highest.
LEMMA TenthsWithin ==
    ASSUME NEW sum \in Int, NEW n \in Nat, n # 0, NEW low \in Int, NEW high \in Int,
           low * n <= sum, sum <= high * n
    PROVE  Tenths(sum, n) \in (10 * low)..(10 * high)
<1>1. 20 * sum + n \in Int /\ 2 * n \in Nat /\ 2 * n # 0
  OBVIOUS
<1>2. (10 * low) * (2 * n) <= 20 * sum + n
  <2>1. (10 * low) * (2 * n) = 20 * (low * n) /\ low * n \in Int
    OBVIOUS
  <2> QED BY <2>1
<1>3. 20 * sum + n < (10 * high + 1) * (2 * n)
  <2>1. (10 * high + 1) * (2 * n) = 20 * (high * n) + 2 * n /\ high * n \in Int
    OBVIOUS
  <2> QED BY <2>1
<1>4. (20 * sum + n) \div (2 * n) \in (10 * low)..(10 * high)
  BY <1>1, <1>2, <1>3, QuotientWithin, 10 * low \in Int, 10 * high \in Int
<1> QED BY <1>4 DEF Tenths

\* Ratings have a lowest and a highest.
LEMMA RatingBounds ==
    ASSUME NEW S \in SUBSET (1..5), S # {}
    PROVE  /\ Min(S) \in 1..5 /\ Max(S) \in 1..5
           /\ \A x \in S : Min(S) <= x /\ x <= Max(S)
<1>0. \A y \in S : y = 1 \/ y = 2 \/ y = 3 \/ y = 4 \/ y = 5
  OBVIOUS
<1>1. \E x \in S : \A y \in S : x <= y
  <2>1. 1 \in S \/ 2 \in S \/ 3 \in S \/ 4 \in S \/ 5 \in S
    BY <1>0
  <2> QED BY <1>0, <2>1
<1>2. \E x \in S : \A y \in S : x >= y
  <2>1. 1 \in S \/ 2 \in S \/ 3 \in S \/ 4 \in S \/ 5 \in S
    BY <1>0
  <2> QED BY <1>0, <2>1
<1>3. Min(S) \in S /\ \A y \in S : Min(S) <= y
  BY <1>1 DEF Min
<1>4. Max(S) \in S /\ \A y \in S : Max(S) >= y
  BY <1>2 DEF Max
<1> QED BY <1>3, <1>4

-------------------------------------------------------------------------------
(* The figures of the report. *)

\* A case's figures, and those of the whole report.
CaseInRange(c) == /\ c.low \in Int /\ c.mean \in 10..50 /\ c.high \in Int
                  /\ 10 <= c.low /\ c.low <= c.mean /\ c.mean <= c.high /\ c.high <= 50

FiguresIInv ==
    /\ panels \in [Tasks -> (1..5) \cup {Failed, Unset}]
    /\ pc # "done" => report = NoReport
    /\ pc = "done" => report.judged = Cases(panels) /\ report.overall = Overall(Cases(panels))

LEMMA CaseIsInRange ==
    ASSUME panels \in [Tasks -> (1..5) \cup {Failed, Unset}],
           sample \in Seq(Nat), Len(sample) <= SampleLimit,
           NEW i \in DOMAIN sample, Verdicts(panels, i) # {}
    PROVE  CaseInRange(Case(panels, i))
<1> DEFINE ts == Verdicts(panels, i)
           ratings == {panels[t] : t \in ts}
<1>1. IsFiniteSet(ts) /\ Cardinality(ts) \in Nat /\ Cardinality(ts) # 0
  <2>1. IsFiniteSet({i} \X Reviewers)
    BY PanelAssumption, FS_Singleton, FS_Product
  <2>2. ts \in SUBSET ({i} \X Reviewers)
    BY DEF Verdicts
  <2> QED BY <2>1, <2>2, FS_Subset, FS_EmptySet, FS_CardinalityType
<1>2. ASSUME NEW t \in ts PROVE panels[t] \in 1..5
  <2>1. t \in {i} \X Reviewers /\ panels[t] \notin {Failed, Unset}
    BY DEF Verdicts
  <2>2. i \in 1..SampleLimit
    BY PanelAssumption
  <2>3. t \in Tasks
    BY <2>1, <2>2 DEF Tasks
  <2> QED BY <2>1, <2>3
<1>3. ratings \in SUBSET (1..5) /\ ratings # {}
  BY <1>2
<1> DEFINE low == Min(ratings)
           high == Max(ratings)
<1>4. low \in 1..5 /\ high \in 1..5 /\ \A t \in ts : panels[t] \in low..high
  <2>1. low \in 1..5 /\ high \in 1..5 /\ \A x \in ratings : low <= x /\ x <= high
    <3> HIDE DEF ratings
    <3> QED BY <1>3, RatingBounds
  <2> QED BY <1>2, <2>1
<1> HIDE DEF low, high, ts
<1>5. /\ SumOf(panels, ts) \in Int
      /\ low * Cardinality(ts) <= SumOf(panels, ts) /\ SumOf(panels, ts) <= high * Cardinality(ts)
  <2>1. low \in Int /\ high \in Int
    BY <1>4
  <2> QED BY <1>1, <1>4, <2>1, SumWithin
<1>6. Tenths(SumOf(panels, ts), Cardinality(ts)) \in (10 * low)..(10 * high)
  <2>1. low \in Int /\ high \in Int
    BY <1>4
  <2> QED BY <1>1, <1>5, <2>1, TenthsWithin
<1>7. /\ Case(panels, i).mean = Tenths(SumOf(panels, ts), Cardinality(ts))
      /\ Case(panels, i).low = 10 * low /\ Case(panels, i).high = 10 * high
  BY DEF Case, ts, low, high
<1>8. ASSUME NEW m \in (10 * low)..(10 * high)
      PROVE  m \in 10..50 /\ 10 <= 10 * low /\ 10 * low <= m /\ m <= 10 * high /\ 10 * high <= 50
  BY <1>4
<1> DEFINE m == Tenths(SumOf(panels, ts), Cardinality(ts))
<1>9. m \in 10..50 /\ 10 <= 10 * low /\ 10 * low <= m /\ m <= 10 * high /\ 10 * high <= 50
  BY <1>6, <1>8
<1>10. 10 * low \in Int /\ 10 * high \in Int
  BY <1>4
<1> HIDE DEF m
<1>11. /\ Case(panels, i).low \in Int /\ Case(panels, i).mean \in 10..50 /\ Case(panels, i).high \in Int
       /\ 10 <= Case(panels, i).low /\ Case(panels, i).low <= Case(panels, i).mean
       /\ Case(panels, i).mean <= Case(panels, i).high /\ Case(panels, i).high <= 50
  BY <1>7, <1>9, <1>10, Zenon DEF m
<1> QED BY <1>11 DEF CaseInRange

LEMMA OverallIsInRange ==
    ASSUME NEW cases, NEW n \in Nat, n # 0, DOMAIN cases = 1..n, Len(cases) = n, cases # <<>>,
           \A i \in 1..n : cases[i].mean \in 10..50
    PROVE  Overall(cases) \in 10..50
<1> DEFINE means == [i \in 1..n |-> cases[i].mean]
           sum == SumOf(means, 1..n)
<1>1. IsFiniteSet(1..n) /\ Cardinality(1..n) = n
  BY FS_Interval
<1>2. sum \in Int /\ 10 * n <= sum /\ sum <= 50 * n
  <2>1. \A i \in 1..n : means[i] \in 10..50
    OBVIOUS
  <2> HIDE DEF means
  <2>2. 10 \in Int /\ 50 \in Int
    OBVIOUS
  <2> QED BY <1>1, <2>1, <2>2, SumWithin
<1>3. Overall(cases) = (2 * sum + n) \div (2 * n)
  BY DEF Overall
<1> HIDE DEF sum
<1>4. (2 * sum + n) \div (2 * n) \in 10..50
  <2>1. 2 * sum + n \in Int /\ 2 * n \in Nat /\ 2 * n # 0
    BY <1>2
  <2>2. 10 * (2 * n) <= 2 * sum + n /\ 2 * sum + n < (50 + 1) * (2 * n)
    BY <1>2
  <2> QED BY <2>1, <2>2, QuotientWithin, 10 \in Int, 50 \in Int
<1> QED BY <1>3, <1>4

\* The cases are those of sampled sessions with a verdict.
LEMMA CasesAreInRange ==
    ASSUME panels \in [Tasks -> (1..5) \cup {Failed, Unset}],
           sample \in Seq(Nat), Len(sample) <= SampleLimit
    PROVE  /\ \A c \in Range(Cases(panels)) : CaseInRange(c)
           /\ Cases(panels) # <<>> => Overall(Cases(panels)) \in 10..50
<1> DEFINE S == {i \in DOMAIN sample : Verdicts(panels, i) # {}}
<1>1. S \in SUBSET Nat /\ IsFiniteSet(S)
  <2>1. S \in SUBSET (1..Len(sample)) /\ Len(sample) \in Nat
    OBVIOUS
  <2> HIDE DEF S
  <2> QED BY <2>1, PositionsAreFinite
<1>2. /\ Cases(panels) = [i \in DOMAIN InOrder(S) |-> Case(panels, InOrder(S)[i])]
      /\ InOrder(S) \in Seq(S)
  <2>1. Cases(panels) = [i \in DOMAIN InOrder(S) |-> Case(panels, InOrder(S)[i])]
    BY DEF Cases
  <2> HIDE DEF S
  <2> QED BY <1>1, <2>1, InOrderHasAll
<1> DEFINE n == Len(InOrder(S))
<1>3. n \in Nat /\ DOMAIN InOrder(S) = 1..n /\ \A i \in 1..n : InOrder(S)[i] \in S
  <2> HIDE DEF S
  <2> QED BY <1>2
<1>4. \A i \in 1..n : CaseInRange(Case(panels, InOrder(S)[i]))
  <2>1. ASSUME NEW i \in 1..n PROVE CaseInRange(Case(panels, InOrder(S)[i]))
    <3>1. InOrder(S)[i] \in S
      BY <1>3
    <3>2. InOrder(S)[i] \in DOMAIN sample /\ Verdicts(panels, InOrder(S)[i]) # {}
      BY <3>1
    <3> HIDE DEF S, n
    <3> QED BY <3>2, CaseIsInRange
  <2> QED BY <2>1
<1> HIDE DEF S, n
<1>5. DOMAIN Cases(panels) = 1..n /\ Len(Cases(panels)) = n
      /\ \A i \in 1..n : Cases(panels)[i] = Case(panels, InOrder(S)[i])
  BY <1>2, <1>3
<1>6. \A c \in Range(Cases(panels)) : CaseInRange(c)
  BY <1>4, <1>5 DEF Range
<1>7. ASSUME Cases(panels) # <<>> PROVE Overall(Cases(panels)) \in 10..50
  <2>1. n # 0
    BY <1>2, <1>3, <1>7 DEF n
  <2>2. \A i \in 1..n : Cases(panels)[i].mean \in 10..50
    <3>1. ASSUME NEW i \in 1..n PROVE Cases(panels)[i].mean \in 10..50
      <4>1. CaseInRange(Cases(panels)[i])
        BY <1>4, <1>5
      <4> QED BY <4>1 DEF CaseInRange
    <3> QED BY <3>1
  <2> QED BY <1>3, <1>5, <1>7, <2>1, <2>2, OverallIsInRange
<1> QED BY <1>6, <1>7

\* The results are written before the report is made of them.
LEMMA NextKeepsFigures == PanelIInv /\ FiguresIInv /\ [PanelNext]_vars => FiguresIInv'
<1> SUFFICES ASSUME PanelIInv, FiguresIInv, [PanelNext]_vars PROVE FiguresIInv'
  OBVIOUS
<1>1. CASE Answer
  BY <1>1 DEF Answer, FiguresIInv, shared, Cases, Case, Overall
<1>2. ASSUME NEW t \in Tasks, Write(t) PROVE FiguresIInv'
  <2>1. pc # "done" /\ pc' # "done" /\ report' = report
    BY <1>2 DEF Write, Step, PanelIInv, Born
  <2>2. answered[t] \in Ratings \cup {Failed}
    BY <1>2 DEF Write, Step, PanelIInv, ResultOf
  <2>3. Verdict(answered[t]) \in (1..5) \cup {Failed}
    BY <2>2, VerdictTyped
  <2> QED BY <1>2, <2>1, <2>3 DEF Write, FiguresIInv
<1>3. ASSUME UNCHANGED <<panels, report>>,
             pc = "done" <=> pc' = "done", pc = "done" => UNCHANGED sample
      PROVE  FiguresIInv'
  <2>1. CASE pc # "done"
    BY <1>3, <2>1 DEF FiguresIInv
  <2>2. CASE pc = "done"
    <3>1. Cases(panels)' = Cases(panels)
      BY <1>3, <2>2 DEF Cases, Case
    <3>2. Overall(Cases(panels))' = Overall(Cases(panels))
      BY <3>1 DEF Overall
    <3> QED BY <1>3, <2>2, <3>1, <3>2 DEF FiguresIInv
  <2> QED BY <2>1, <2>2
<1>4. CASE \E usable \in BOOLEAN : Ingest(usable)
  BY <1>3, <1>4 DEF Ingest, shared
<1>5. CASE Count \/ Collect \/ Spawned \/ WaitOver \/ \E t \in Tasks : Spawn(t)
  BY <1>3, <1>5 DEF Count, Collect, Spawned, WaitOver, Spawn, shared
<1>6. ASSUME NEW t \in Tasks, Acquire(t) \/ Call(t) \/ Release(t) \/ Done(t) PROVE FiguresIInv'
  BY <1>3, <1>6 DEF Acquire, Call, Release, Done
<1>7. CASE UNCHANGED vars
  BY <1>3, <1>7 DEF vars, shared
<1> QED BY <1>1, <1>2, <1>4, <1>5, <1>6, <1>7 DEF PanelNext, Handler, Goroutine

\* PanelTypeOK: with whatever ratings, a case's mean lies between its lowest and highest verdict, and
\* those and the overall mean on the scale (ensembleJudgeVerdicts and the judge's summary in eval.go).
THEOREM MeansAreOnTheScale == PanelSpec => []PanelTypeOK
<1>1. PanelInit => SampleIInv /\ FiguresIInv
  <2>1. SampleLimit \in Nat
    BY PanelAssumption
  <2> QED BY <2>1 DEF PanelInit, SampleIInv, FiguresIInv
<1>2. PanelIInv /\ SampleIInv /\ FiguresIInv => PanelTypeOK
  <2> SUFFICES ASSUME PanelIInv, SampleIInv, FiguresIInv PROVE PanelTypeOK
    OBVIOUS
  <2>1. /\ pc \in {"count", "collect", "spawn", "wait", "answer", "done"} /\ task \in [Tasks -> Steps]
        /\ answered \in [Tasks -> Ratings \cup {Failed, Unset}]
    BY DEF PanelIInv, Born
  <2>2. sem \in Nat /\ wg \in Int
    BY HoldingIsFinite, AliveIsFinite DEF PanelIInv, Counted
  <2>3. sample \in Seq(Nat) /\ Len(sample) <= SampleLimit
        /\ panels \in [Tasks -> (1..5) \cup {Failed, Unset}]
    BY DEF SampleIInv, FiguresIInv
  <2>4. CASE pc # "done"
    <3>1. report.judged = <<>>
      BY <2>4 DEF FiguresIInv, NoReport
    <3>2. Range(report.judged) = {}
      BY <3>1 DEF Range
    <3> QED BY <2>1, <2>2, <2>3, <3>1, <3>2 DEF PanelTypeOK, Steps
  <2>5. CASE pc = "done"
    <3>1. report.judged = Cases(panels) /\ report.overall = Overall(Cases(panels))
      BY <2>5 DEF FiguresIInv
    <3>2. /\ \A c \in Range(report.judged) : CaseInRange(c)
          /\ report.judged # <<>> => report.overall \in 10..50
      BY <2>3, <3>1, CasesAreInRange
    <3> QED BY <2>1, <2>2, <2>3, <3>2 DEF PanelTypeOK, Steps, CaseInRange
  <2> QED BY <2>4, <2>5
<1> QED BY <1>1, <1>2, NextKeepsSample, NextKeepsFigures, PanelInvariance, PTL DEF PanelSpec
=============================================================================
