---------------------------- MODULE EvalRunsProofs ----------------------------
(***************************************************************************)
(* The cap on the saved evaluation runs, for any cap and any number of     *)
(* savers, flavors, saves and failures.                                    *)
(*                                                                         *)
(* The order of the rows is a strict total one, so that a trim keeps at    *)
(* most MaxRuns of the rows it sees.  CappedWhenTrimmed says that this     *)
(* stays true of what the trims under way will leave, whichever of them    *)
(* end first.                                                              *)
(***************************************************************************)
EXTENDS EvalRuns, FiniteSetTheorems, WellFoundedInduction, TLAPS

-------------------------------------------------------------------------------
(* The order of the rows. *)

Stamps == {u \in Seq(Nat) : Len(u) = Len(Begin)}

\* A stamp's text is a sequence of numbers, as long as any other.
LEMMA StampTyped ==
    ASSUME NEW t \in Instants
    PROVE  SavedAt(t) \in Stamps
<1>1. t \in Seq(Nat) /\ Len(t) = Len(Begin) /\ Base \in Nat
  BY EvalRunsAssumption
<1>2. \A i \in 1..Len(t) : t[i] \in Nat
  BY <1>1
<1>3. SavedAt(t) = [i \in 1..Len(t) |->
          IF i > 1 /\ \A j \in i..Len(t) : t[j] = 0 THEN Base ELSE t[i]]
  BY <1>1 DEF SavedAt
<1>4. SavedAt(t) \in [1..Len(t) -> Nat]
  BY <1>1, <1>2, <1>3
<1>5. SavedAt(t) \in Seq(Nat) /\ Len(SavedAt(t)) = Len(t)
  BY <1>1, <1>4
<1> QED BY <1>1, <1>5 DEF Stamps

\* Two different stamps differ at a first place.
LEMMA BeforeTotal ==
    ASSUME NEW u \in Stamps, NEW v \in Stamps, u # v
    PROVE  Before(u, v) \/ Before(v, u)
<1> DEFINE D == {i \in 1..Len(Begin) : u[i] # v[i]}
<1>1. /\ u \in Seq(Nat) /\ v \in Seq(Nat)
      /\ Len(u) = Len(Begin) /\ Len(v) = Len(Begin) /\ Len(Begin) \in Nat
      /\ DOMAIN u = 1..Len(Begin) /\ DOMAIN v = 1..Len(Begin)
  BY DEF Stamps
<1>2. D # {}
  BY <1>1
<1>3. D \subseteq Nat
  BY <1>1
<1>4. \E i \in D : \A j \in D : ~(<<j, i>> \in OpToRel(<, Nat))
  <2> HIDE DEF D
  <2> QED BY <1>2, <1>3, NatLessThanWellFounded, WFMin
<1>5. PICK i \in D : \A j \in D : ~(<<j, i>> \in OpToRel(<, Nat))
  BY <1>4
<1>6. \A j \in 1..(i - 1) : u[j] = v[j]
  <2> SUFFICES ASSUME NEW j \in 1..(i - 1), u[j] # v[j] PROVE FALSE
    OBVIOUS
  <2>1. i \in 1..Len(Begin) /\ j \in D /\ j < i /\ j \in Nat /\ i \in Nat
    BY <1>1
  <2>2. <<j, i>> \in OpToRel(<, Nat)
    BY <2>1 DEF OpToRel
  <2> QED BY <2>1, <2>2, <1>5
<1>7. i \in 1..Len(Begin) /\ u[i] # v[i] /\ u[i] \in Nat /\ v[i] \in Nat
  BY <1>1
<1>8. u[i] < v[i] \/ v[i] < u[i]
  BY <1>7
<1> QED BY <1>1, <1>6, <1>7, <1>8 DEF Before

LEMMA BeforeIrreflexive ==
    ASSUME NEW u \in Stamps
    PROVE  ~Before(u, u)
BY DEF Before, Stamps

LEMMA BeforeTransitive ==
    ASSUME NEW u \in Stamps, NEW v \in Stamps, NEW w \in Stamps,
           Before(u, v), Before(v, w)
    PROVE  Before(u, w)
<1>1. /\ DOMAIN u = 1..Len(Begin) /\ DOMAIN v = 1..Len(Begin) /\ Len(Begin) \in Nat
      /\ \A i \in 1..Len(Begin) : u[i] \in Nat /\ v[i] \in Nat /\ w[i] \in Nat
  BY DEF Stamps
<1>2. PICK i \in 1..Len(Begin) : u[i] < v[i] /\ \A j \in 1..(i - 1) : u[j] = v[j]
  BY <1>1 DEF Before
<1>3. PICK k \in 1..Len(Begin) : v[k] < w[k] /\ \A j \in 1..(k - 1) : v[j] = w[j]
  BY <1>1 DEF Before
<1>4. CASE i <= k
  <2>1. u[i] < w[i]
    BY <1>1, <1>2, <1>3, <1>4
  <2>2. \A j \in 1..(i - 1) : u[j] = w[j]
    BY <1>1, <1>2, <1>3, <1>4
  <2> QED BY <1>1, <2>1, <2>2 DEF Before
<1>5. CASE k < i
  <2>1. u[k] < w[k]
    BY <1>1, <1>2, <1>3, <1>5
  <2>2. \A j \in 1..(k - 1) : u[j] = w[j]
    BY <1>1, <1>2, <1>3, <1>5
  <2> QED BY <1>1, <2>1, <2>2 DEF Before
<1> QED BY <1>1, <1>4, <1>5

\* ORDER BY saved_at DESC, run_id DESC: the surrogate key breaks every tie.
LEMMA NewerIsStrictTotalOrder ==
    /\ \A r \in Rows : ~Newer(r, r)
    /\ \A r, q, o \in Rows : Newer(r, q) /\ Newer(q, o) => Newer(r, o)
    /\ \A r, q \in Rows : r.run_id # q.run_id => Newer(r, q) \/ Newer(q, r)
<1>1. \A r \in Rows : SavedAt(r.at) \in Stamps /\ r.run_id \in Nat
  BY StampTyped, EvalRunsAssumption DEF Rows
<1>2. ASSUME NEW r \in Rows PROVE ~Newer(r, r)
  BY <1>1, BeforeIrreflexive DEF Newer
<1>3. ASSUME NEW r \in Rows, NEW q \in Rows, NEW o \in Rows, Newer(r, q), Newer(q, o)
      PROVE  Newer(r, o)
  <2> DEFINE a == SavedAt(r.at)
             b == SavedAt(q.at)
             c == SavedAt(o.at)
  <2>1. /\ a \in Stamps /\ b \in Stamps /\ c \in Stamps
        /\ r.run_id \in Nat /\ q.run_id \in Nat /\ o.run_id \in Nat
    BY <1>1
  <2>2. /\ Before(b, a) \/ (a = b /\ r.run_id > q.run_id)
        /\ Before(c, b) \/ (b = c /\ q.run_id > o.run_id)
    BY <1>3 DEF Newer
  <2>3. Before(c, a) \/ (a = c /\ r.run_id > o.run_id)
    <3> HIDE DEF a, b, c
    <3>1. CASE Before(b, a) /\ Before(c, b)
      BY <3>1, <2>1, BeforeTransitive
    <3>2. CASE ~(Before(b, a) /\ Before(c, b))
      BY <3>2, <2>1, <2>2
    <3> QED BY <3>1, <3>2
  <2> QED BY <2>3 DEF Newer
<1>4. ASSUME NEW r \in Rows, NEW q \in Rows, r.run_id # q.run_id
      PROVE  Newer(r, q) \/ Newer(q, r)
  <2>1. CASE SavedAt(r.at) = SavedAt(q.at)
    <3>1. r.run_id > q.run_id \/ q.run_id > r.run_id
      BY <1>1, <1>4
    <3> QED BY <2>1, <3>1 DEF Newer
  <2>2. CASE SavedAt(r.at) # SavedAt(q.at)
    BY <2>2, <1>1, BeforeTotal DEF Newer
  <2> QED BY <2>1, <2>2
<1> QED BY <1>2, <1>3, <1>4

-------------------------------------------------------------------------------
(* What a trim keeps. *)

\* evalRunTrimSQL: LIMIT MaxRuns of the rows keeps no more than MaxRuns.
LEMMA KeptIsCapped ==
    ASSUME NEW S, S \subseteq Rows, IsFiniteSet(S),
           \A r, q \in S : r.run_id = q.run_id => r = q
    PROVE  Cardinality(Kept(S)) <= MaxRuns
<1> DEFINE Ahead(r) == {q \in S : Newer(q, r)}
           rank == [r \in Kept(S) |-> Cardinality(Ahead(r))]
<1>1. \A r \in S : IsFiniteSet(Ahead(r)) /\ Cardinality(Ahead(r)) \in Nat
  <2> TAKE r \in S
  <2>1. Ahead(r) \in SUBSET S
    OBVIOUS
  <2> HIDE DEF Ahead
  <2> QED BY <2>1, FS_Subset, FS_CardinalityType
<1>2. Kept(S) \subseteq S /\ \A r \in Kept(S) : Cardinality(Ahead(r)) < MaxRuns
  BY DEF Kept
<1>3. MaxRuns \in Nat \ {0}
  BY EvalRunsAssumption
<1>4. \A r \in Kept(S) : Cardinality(Ahead(r)) \in 0..(MaxRuns - 1)
  <2> HIDE DEF Ahead
  <2> QED BY <1>1, <1>2, <1>3
<1>5. ASSUME NEW r \in S, NEW q \in S, Newer(q, r)
      PROVE  Cardinality(Ahead(q)) < Cardinality(Ahead(r))
  <2>1. r \in Rows /\ q \in Rows
    OBVIOUS
  <2>2. Ahead(q) \subseteq Ahead(r) /\ q \in Ahead(r) /\ q \notin Ahead(q)
    BY <1>5, <2>1, NewerIsStrictTotalOrder
  <2> HIDE DEF Ahead
  <2>3. Ahead(q) \in SUBSET Ahead(r) /\ Ahead(q) # Ahead(r)
    BY <2>2
  <2>4. /\ Cardinality(Ahead(q)) <= Cardinality(Ahead(r))
        /\ Cardinality(Ahead(q)) # Cardinality(Ahead(r))
    BY <2>3, <1>1, FS_Subset
  <2> QED BY <2>4, <1>1
<1>6. rank \in Injection(Kept(S), 0..(MaxRuns - 1))
  <2>1. rank \in [Kept(S) -> 0..(MaxRuns - 1)]
    <3> HIDE DEF Ahead
    <3> QED BY <1>4
  <2>2. ASSUME NEW r \in Kept(S), NEW q \in Kept(S), r # q
        PROVE  rank[r] # rank[q]
    <3>1. r \in S /\ q \in S /\ r \in Rows /\ q \in Rows /\ r.run_id # q.run_id
      BY <1>2, <2>2
    <3>2. Newer(r, q) \/ Newer(q, r)
      BY <3>1, NewerIsStrictTotalOrder
    <3>3. rank[r] = Cardinality(Ahead(r)) /\ rank[q] = Cardinality(Ahead(q))
      OBVIOUS
    <3> HIDE DEF rank, Ahead
    <3> QED BY <3>1, <3>2, <3>3, <1>1, <1>5
  <2> HIDE DEF rank
  <2> QED BY <2>1, <2>2 DEF Injection, IsInjective
<1>7. IsFiniteSet(0..(MaxRuns - 1)) /\ Cardinality(0..(MaxRuns - 1)) = MaxRuns
  BY <1>3, FS_Interval
<1> HIDE DEF rank
<1> QED BY <1>6, <1>7, FS_Injection

-------------------------------------------------------------------------------
(* The inductive invariant. *)

\* What Cardinality says of the sets of the state.
LEMMA Sizes ==
    ASSUME TypeOK, IsFiniteSet(saved)
    PROVE  /\ \A R \in SUBSET saved : IsFiniteSet(R) /\ Cardinality(R) \in Nat
           /\ \A R, T \in SUBSET saved : R \subseteq T => Cardinality(R) <= Cardinality(T)
           /\ \A P \in SUBSET Savers : IsFiniteSet(P) /\ Cardinality(P) \in Nat
           /\ rows \subseteq saved /\ faults \in Nat /\ MaxRuns \in Nat
<1>1. \A R \in SUBSET saved : IsFiniteSet(R) /\ Cardinality(R) \in Nat
  BY FS_Subset, FS_CardinalityType
<1>2. \A R, T \in SUBSET saved : R \subseteq T => Cardinality(R) <= Cardinality(T)
  BY <1>1, FS_Subset
<1>3. \A P \in SUBSET Savers : IsFiniteSet(P) /\ Cardinality(P) \in Nat
  BY FS_Subset, FS_CardinalityType, EvalRunsAssumption
<1>4. rows \subseteq saved /\ faults \in Nat
  BY EvalRunsAssumption DEF TypeOK
<1>5. MaxRuns \in Nat
  BY EvalRunsAssumption
<1> QED BY <1>1, <1>2, <1>3, <1>4, <1>5

LEMMA InitIInv == Init => IInv
<1> SUFFICES ASSUME Init PROVE IInv
  OBVIOUS
<1>1. TypeOK
  <2>1. MaxSaves \in Nat /\ MaxFaults \in Nat /\ Begin \in Instants
    BY EvalRunsAssumption
  <2>2. report \in [Savers -> [at : Instants, flavor : Flavors]]
    BY <2>1 DEF Init
  <2> QED BY <2>1, <2>2 DEF Init, TypeOK
<1>2. IsFiniteSet(saved) /\ \A r \in saved : r.run_id <= lastId
  BY FS_EmptySet DEF Init
<1>3. CappedWhenTrimmed
  <2> SUFFICES ASSUME NEW Q \in SUBSET Trimming
               PROVE  Cardinality(Left(Q)) <= MaxRuns + Cardinality(Untrimmed \ Q) + faults
    BY DEF CappedWhenTrimmed
  <2>1. Left(Q) = {} /\ Untrimmed \ Q = {} /\ faults = 0
    BY DEF Init, Left, Untrimmed
  <2>2. MaxRuns \in Nat /\ Cardinality({}) = 0
    BY EvalRunsAssumption, FS_EmptySet
  <2> QED BY <2>1, <2>2
<1> QED BY <1>1, <1>2, <1>3 DEF IInv

\* An insert adds a row under a number that no row had.
LEMMA InsertIInv ==
    ASSUME IInv, NEW p \in Savers, Insert(p)
    PROVE  IInv'
<1> DEFINE row == [run_id |-> lastId + 1, at |-> report[p].at, flavor |-> report[p].flavor]
<1>1. /\ rows' = rows \cup {row} /\ saved' = saved \cup {row}
      /\ lastId' = lastId + 1 /\ pc' = [pc EXCEPT ![p] = "trim"] /\ pc[p] = "insert"
      /\ UNCHANGED <<now, report, doomed, faults>>
      /\ lastId \in 0..MaxSaves /\ lastId < MaxSaves
  BY DEF Insert, IInv, TypeOK
<1>2. row \in Rows /\ row.run_id = lastId + 1
  <2>1. MaxSaves \in Nat /\ lastId + 1 \in 1..MaxSaves
    BY <1>1, EvalRunsAssumption
  <2>2. report[p] \in [at : Instants, flavor : Flavors]
    BY DEF IInv, TypeOK
  <2> QED BY <2>1, <2>2 DEF Rows
<1>3. \A r \in saved : r.run_id \in Nat /\ r.run_id <= lastId
  BY DEF IInv, TypeOK, Rows
<1> HIDE DEF row
<1>4. row \notin saved
  BY <1>1, <1>2, <1>3
<1>5. TypeOK'
  <2>1. now' \in Instants /\ rows' \subseteq saved' /\ saved' \subseteq Rows
    BY <1>1, <1>2 DEF IInv, TypeOK
  <2>2. \A r, q \in saved' : r.run_id = q.run_id => r = q
    BY <1>1, <1>2, <1>3 DEF IInv, TypeOK
  <2>3. lastId' \in 0..MaxSaves /\ faults' \in 0..MaxFaults
    <3>1. MaxSaves \in Nat
      BY EvalRunsAssumption
    <3> QED BY <3>1, <1>1 DEF IInv, TypeOK
  <2>4. /\ pc' \in [Savers -> {"idle", "insert", "trim", "delete"}]
        /\ report' \in [Savers -> [at : Instants, flavor : Flavors]]
    BY <1>1 DEF IInv, TypeOK
  <2>5. doomed' \in [Savers -> SUBSET saved']
    BY <1>1 DEF IInv, TypeOK
  <2> QED BY <2>1, <2>2, <2>3, <2>4, <2>5 DEF TypeOK
<1>6. IsFiniteSet(saved') /\ \A r \in saved' : r.run_id <= lastId'
  BY <1>1, <1>2, <1>3, FS_AddElement DEF IInv
<1>7. CappedWhenTrimmed'
  <2> SUFFICES ASSUME NEW Q \in SUBSET Trimming'
               PROVE  Cardinality(Left(Q)') <= MaxRuns + Cardinality(Untrimmed' \ Q) + faults'
    BY DEF CappedWhenTrimmed
  <2>1. Trimming' = Trimming /\ p \notin Untrimmed /\ p \notin Q
    BY <1>1 DEF Trimming, Untrimmed, IInv, TypeOK
  <2>2. Untrimmed' = Untrimmed \cup {p}
    BY <1>1 DEF Untrimmed, IInv, TypeOK
  <2>3. Untrimmed' \ Q = (Untrimmed \ Q) \cup {p} /\ p \notin Untrimmed \ Q
    BY <2>1, <2>2
  <2>4. Left(Q)' \subseteq Left(Q) \cup {row}
    BY <1>1 DEF Left
  <2>5. IsFiniteSet(Left(Q)) /\ Cardinality(Left(Q)) \in Nat
    BY Sizes DEF IInv, Left
  <2>6. /\ IsFiniteSet(Left(Q) \cup {row})
        /\ Cardinality(Left(Q) \cup {row}) <= Cardinality(Left(Q)) + 1
    <3>1. row \notin Left(Q)
      BY <1>4 DEF Left, IInv, TypeOK
    <3>2. /\ IsFiniteSet(Left(Q) \cup {row})
          /\ Cardinality(Left(Q) \cup {row}) = Cardinality(Left(Q)) + 1
      BY <2>5, <3>1, FS_AddElement
    <3> QED BY <2>5, <3>2
  <2>7. Cardinality(Left(Q)') <= Cardinality(Left(Q) \cup {row})
    BY <2>4, <2>6, FS_Subset
  <2>8. Cardinality(Untrimmed' \ Q) = Cardinality(Untrimmed \ Q) + 1
        /\ Cardinality(Untrimmed \ Q) \in Nat
    <3>1. IsFiniteSet(Untrimmed \ Q) /\ Cardinality(Untrimmed \ Q) \in Nat
      BY Sizes DEF IInv, Untrimmed
    <3> QED BY <3>1, <2>3, FS_AddElement
  <2>9. Cardinality(Left(Q)) <= MaxRuns + Cardinality(Untrimmed \ Q) + faults
    BY <2>1 DEF IInv, CappedWhenTrimmed
  <2>10. Cardinality(Left(Q)') \in Nat /\ Cardinality(Left(Q) \cup {row}) \in Nat
    <3>1. IsFiniteSet(Left(Q)')
      BY <2>4, <2>6, FS_Subset
    <3> QED BY <3>1, <2>6, FS_CardinalityType
  <2>11. faults' = faults /\ faults \in Nat /\ MaxRuns \in Nat
    BY <1>1, Sizes DEF IInv
  <2> QED BY <2>5, <2>6, <2>7, <2>8, <2>9, <2>10, <2>11
<1> QED BY <1>5, <1>6, <1>7 DEF IInv

\* What the trims P leave is capped; so is any part of it, against savers U of
\* whom at most the savers W are missing.
LEMMA CapCarriesOver ==
    ASSUME IInv, NEW P \in SUBSET Trimming, NEW L, L \subseteq Left(P),
           NEW U \in SUBSET Savers, NEW W \in SUBSET Savers,
           Untrimmed \ P \subseteq U \cup W
    PROVE  Cardinality(L) <= MaxRuns + Cardinality(U) + Cardinality(W) + faults
<1>1. Cardinality(Left(P)) <= MaxRuns + Cardinality(Untrimmed \ P) + faults
  BY DEF IInv, CappedWhenTrimmed
<1>2. L \in SUBSET saved /\ Left(P) \in SUBSET saved
  BY DEF Left, IInv, TypeOK
<1>3. /\ Cardinality(L) <= Cardinality(Left(P))
      /\ Cardinality(L) \in Nat /\ Cardinality(Left(P)) \in Nat
  BY <1>2, Sizes DEF IInv
<1>4. /\ Untrimmed \ P \in SUBSET Savers
      /\ IsFiniteSet(U) /\ IsFiniteSet(W)
      /\ Cardinality(U) \in Nat /\ Cardinality(W) \in Nat
      /\ Cardinality(Untrimmed \ P) \in Nat
      /\ MaxRuns \in Nat /\ faults \in Nat
  <2>1. Untrimmed \ P \in SUBSET Savers
    BY DEF Untrimmed
  <2> QED BY <2>1, Sizes DEF IInv
<1>5. IsFiniteSet(U \cap W) /\ Cardinality(U \cap W) \in Nat
  BY <1>4, FS_Subset, FS_CardinalityType
<1>6. /\ IsFiniteSet(U \cup W)
      /\ Cardinality(U \cup W) = Cardinality(U) + Cardinality(W) - Cardinality(U \cap W)
  BY <1>4, FS_Union
<1>7. Cardinality(Untrimmed \ P) <= Cardinality(U \cup W)
  BY <1>6, FS_Subset
<1> QED BY <1>1, <1>3, <1>4, <1>5, <1>6, <1>7

\* A step that ends no save: nothing is inserted, and nobody stops to trim.
LEMMA QuietIInv ==
    ASSUME IInv, TypeOK', rows' \subseteq rows,
           UNCHANGED <<saved, lastId, doomed, faults>>,
           Untrimmed' = Untrimmed, Trimming' = Trimming
    PROVE  IInv'
<1>1. CappedWhenTrimmed'
  <2> SUFFICES ASSUME NEW Q \in SUBSET Trimming
               PROVE  Cardinality(Left(Q)') <= MaxRuns + Cardinality(Untrimmed \ Q) + faults
    BY DEF CappedWhenTrimmed
  <2>1. Left(Q)' \subseteq Left(Q)
    BY DEF Left
  <2>2. Untrimmed \ Q \in SUBSET Savers
    BY DEF Untrimmed
  <2>3. Cardinality(Left(Q)') <= MaxRuns + Cardinality(Untrimmed \ Q) + Cardinality({}) + faults
    BY <2>1, <2>2, CapCarriesOver
  <2>4. /\ Cardinality({}) = 0 /\ Cardinality(Untrimmed \ Q) \in Nat
        /\ MaxRuns \in Nat /\ faults \in Nat
    BY <2>2, Sizes, FS_EmptySet DEF IInv
  <2> QED BY <2>3, <2>4
<1> QED BY <1>1 DEF IInv

\* A save that fails, before its insert, before its trim or in it, counts as a
\* failure from then on.
LEMMA FailureIInv ==
    ASSUME IInv, NEW p \in Savers, StatementFails(p) \/ TrimFails(p)
    PROVE  IInv'
<1>1. /\ saved' = saved /\ rows' = rows /\ faults' = faults + 1
      /\ pc' = [pc EXCEPT ![p] = "idle"]
      /\ UNCHANGED <<now, lastId, report>> /\ faults < MaxFaults
  BY DEF StatementFails, TrimFails
<1>2. TypeOK'
  <2>1. doomed' \in [Savers -> SUBSET saved]
    BY DEF StatementFails, TrimFails, IInv, TypeOK
  <2>2. MaxFaults \in Nat /\ faults \in 0..MaxFaults
    BY EvalRunsAssumption DEF IInv, TypeOK
  <2>3. faults' \in 0..MaxFaults
    BY <1>1, <2>2
  <2> QED BY <1>1, <2>1, <2>3 DEF IInv, TypeOK
<1>3. CappedWhenTrimmed'
  <2> SUFFICES ASSUME NEW Q \in SUBSET Trimming'
               PROVE  Cardinality(Left(Q)') <= MaxRuns + Cardinality(Untrimmed' \ Q) + faults'
    BY DEF CappedWhenTrimmed
  <2>1. p \notin Q /\ Q \in SUBSET Trimming
    BY <1>1 DEF Trimming, IInv, TypeOK
  <2>2. Left(Q)' \subseteq Left(Q)
    <3>1. \A q \in Q : doomed'[q] = doomed[q]
      BY <2>1 DEF StatementFails, TrimFails, Trimming, IInv, TypeOK
    <3> QED BY <3>1, <1>1 DEF Left
  <2>3. /\ Untrimmed' \ Q \in SUBSET Savers
        /\ Untrimmed \ Q \subseteq (Untrimmed' \ Q) \cup {p}
    BY <1>1 DEF Untrimmed, IInv, TypeOK
  <2>4. Cardinality(Left(Q)')
          <= MaxRuns + Cardinality(Untrimmed' \ Q) + Cardinality({p}) + faults
    BY <2>1, <2>2, <2>3, CapCarriesOver
  <2>5. /\ Cardinality({p}) = 1 /\ Cardinality(Untrimmed' \ Q) \in Nat
        /\ MaxRuns \in Nat /\ faults \in Nat
    BY <2>3, Sizes, FS_Singleton DEF IInv
  <2> QED BY <2>4, <2>5, <1>1
<1> QED BY <1>1, <1>2, <1>3 DEF IInv

\* A trim that begins leaves MaxRuns of the rows it sees: it will not need its
\* own place any more.
LEMMA BeginTrimIInv ==
    ASSUME IInv, NEW p \in Savers, BeginTrim(p)
    PROVE  IInv'
<1>1. /\ pc[p] = "trim" /\ pc' = [pc EXCEPT ![p] = "delete"]
      /\ doomed' = [doomed EXCEPT ![p] = rows \ Kept(rows)]
      /\ UNCHANGED <<now, rows, lastId, report, saved, faults>>
  BY DEF BeginTrim
<1>2. TypeOK'
  BY <1>1 DEF IInv, TypeOK
<1>3. CappedWhenTrimmed'
  <2> SUFFICES ASSUME NEW Q \in SUBSET Trimming'
               PROVE  Cardinality(Left(Q)') <= MaxRuns + Cardinality(Untrimmed' \ Q) + faults'
    BY DEF CappedWhenTrimmed
  <2>1. Untrimmed' = Untrimmed /\ Trimming' = Trimming \cup {p} /\ p \notin Trimming
    BY <1>1 DEF Untrimmed, Trimming, IInv, TypeOK
  <2>2. Untrimmed \ Q \in SUBSET Savers
    BY DEF Untrimmed
  <2>3. /\ Cardinality({}) = 0 /\ Cardinality(Untrimmed \ Q) \in Nat
        /\ MaxRuns \in Nat /\ faults \in Nat
    BY <2>2, Sizes, FS_EmptySet DEF IInv
  <2>4. CASE p \notin Q
    <3>1. Q \in SUBSET Trimming /\ Q \subseteq Savers
      BY <2>1, <2>4 DEF Trimming
    <3>2. Left(Q)' \subseteq Left(Q)
      <4>1. \A q \in Q : doomed'[q] = doomed[q]
        BY <1>1, <2>4, <3>1 DEF IInv, TypeOK
      <4> QED BY <4>1, <1>1 DEF Left
    <3>3. Cardinality(Left(Q)')
            <= MaxRuns + Cardinality(Untrimmed \ Q) + Cardinality({}) + faults
      BY <2>2, <3>1, <3>2, CapCarriesOver
    <3> QED BY <3>3, <2>1, <2>3, <1>1
  <2>5. CASE p \in Q
    <3>1. doomed'[p] = rows \ Kept(rows)
      BY <1>1 DEF IInv, TypeOK
    <3>2. Left(Q)' \subseteq Kept(rows)
      BY <1>1, <2>5, <3>1 DEF Left
    <3>3. /\ rows \subseteq Rows /\ IsFiniteSet(rows)
          /\ \A r, q \in rows : r.run_id = q.run_id => r = q
      BY Sizes DEF IInv, TypeOK
    <3>4. Cardinality(Kept(rows)) <= MaxRuns
      BY <3>3, KeptIsCapped
    <3>5. Kept(rows) \in SUBSET saved /\ Left(Q)' \in SUBSET saved
      BY <3>2 DEF Kept, IInv, TypeOK
    <3>6. /\ Cardinality(Left(Q)') <= Cardinality(Kept(rows))
          /\ Cardinality(Left(Q)') \in Nat /\ Cardinality(Kept(rows)) \in Nat
      BY <3>2, <3>5, Sizes DEF IInv
    <3> QED BY <3>4, <3>6, <2>1, <2>3, <1>1
  <2> QED BY <2>4, <2>5
<1> QED BY <1>1, <1>2, <1>3 DEF IInv

\* A trim that ends leaves what CappedWhenTrimmed said it would.
LEMMA EndTrimIInv ==
    ASSUME IInv, NEW p \in Savers, EndTrim(p)
    PROVE  IInv'
<1>1. /\ pc[p] = "delete" /\ pc' = [pc EXCEPT ![p] = "idle"]
      /\ rows' = rows \ doomed[p] /\ doomed' = [doomed EXCEPT ![p] = {}]
      /\ UNCHANGED <<now, lastId, report, saved, faults>>
  BY DEF EndTrim
<1>2. TypeOK'
  BY <1>1 DEF IInv, TypeOK
<1>3. CappedWhenTrimmed'
  <2> SUFFICES ASSUME NEW Q \in SUBSET Trimming'
               PROVE  Cardinality(Left(Q)') <= MaxRuns + Cardinality(Untrimmed' \ Q) + faults'
    BY DEF CappedWhenTrimmed
  <2>1. p \notin Q /\ Q \cup {p} \in SUBSET Trimming /\ Q \subseteq Savers
    BY <1>1 DEF Trimming, IInv, TypeOK
  <2>2. Left(Q)' \subseteq Left(Q \cup {p})
    <3>1. \A q \in Q : doomed'[q] = doomed[q]
      BY <1>1, <2>1 DEF IInv, TypeOK
    <3> QED BY <3>1, <1>1 DEF Left
  <2>3. /\ Untrimmed' \ Q \in SUBSET Savers
        /\ Untrimmed \ (Q \cup {p}) \subseteq (Untrimmed' \ Q) \cup {}
    BY <1>1 DEF Untrimmed, IInv, TypeOK
  <2>4. Cardinality(Left(Q)')
          <= MaxRuns + Cardinality(Untrimmed' \ Q) + Cardinality({}) + faults
    BY <2>1, <2>2, <2>3, CapCarriesOver
  <2>5. /\ Cardinality({}) = 0 /\ Cardinality(Untrimmed' \ Q) \in Nat
        /\ MaxRuns \in Nat /\ faults \in Nat
    BY <2>3, Sizes, FS_EmptySet DEF IInv
  <2> QED BY <2>4, <2>5, <1>1
<1> QED BY <1>1, <1>2, <1>3 DEF IInv

LEMMA NextIInv == IInv /\ [Next]_vars => IInv'
<1> SUFFICES ASSUME IInv, [Next]_vars PROVE IInv'
  OBVIOUS
<1>1. CASE Tick
  <2>1. TypeOK'
    BY <1>1 DEF Tick, IInv, TypeOK
  <2> QED BY <1>1, <2>1, QuietIInv DEF Tick, Untrimmed, Trimming
<1>2. ASSUME NEW p \in Savers, Save(p) PROVE IInv'
  <2>1. TypeOK'
    BY <1>2 DEF Save, IInv, TypeOK
  <2>2. Untrimmed' = Untrimmed /\ Trimming' = Trimming
    BY <1>2 DEF Save, Untrimmed, Trimming, IInv, TypeOK
  <2> QED BY <1>2, <2>1, <2>2, QuietIInv DEF Save
<1>3. ASSUME NEW p \in Savers, Insert(p) PROVE IInv'
  BY <1>3, InsertIInv
<1>4. ASSUME NEW p \in Savers, StatementFails(p) \/ TrimFails(p) PROVE IInv'
  BY <1>4, FailureIInv
<1>5. ASSUME NEW p \in Savers, BeginTrim(p) PROVE IInv'
  BY <1>5, BeginTrimIInv
<1>6. ASSUME NEW p \in Savers, EndTrim(p) PROVE IInv'
  BY <1>6, EndTrimIInv
<1>7. ASSUME NEW t \in Instants, Delete(t) PROVE IInv'
  <2>1. TypeOK'
    BY <1>7 DEF Delete, IInv, TypeOK
  <2> QED BY <1>7, <2>1, QuietIInv DEF Delete, Untrimmed, Trimming
<1>8. CASE UNCHANGED vars
  <2>1. TypeOK'
    BY <1>8 DEF vars, IInv, TypeOK
  <2> QED BY <1>8, <2>1, QuietIInv DEF vars, Untrimmed, Trimming
<1> QED BY <1>1, <1>2, <1>3, <1>4, <1>5, <1>6, <1>7, <1>8 DEF Next

\* The inductive invariant of the saved runs: their numbers are unique, and
\* whichever trims end first, what they leave is capped.
THEOREM Invariance == Spec => []IInv
<1>1. Init => IInv
  BY InitIInv
<1>2. IInv /\ [Next]_vars => IInv'
  BY NextIInv
<1> QED BY <1>1, <1>2, PTL DEF Spec

\* store.go, EvalRunMaxRuns: "the global cap on stored evaluation runs" holds
\* but for the saves that have not trimmed yet and the failures, however many
\* requests save, trim and delete at once.
THEOREM RunsAreCapped == Spec => []Capped
<1>1. IInv => Capped
  <2> SUFFICES ASSUME IInv PROVE Capped
    OBVIOUS
  <2>1. {} \in SUBSET Trimming /\ Left({}) = rows /\ Untrimmed \ {} = Untrimmed
    BY DEF Left
  <2>2. Cardinality(Left({})) <= MaxRuns + Cardinality(Untrimmed \ {}) + faults
    BY <2>1 DEF IInv, CappedWhenTrimmed
  <2> QED BY <2>1, <2>2 DEF Capped
<1> QED BY <1>1, Invariance, PTL

-------------------------------------------------------------------------------
(* Which rows a trim deletes. *)

\* Texts put the instants in their order, as they do when none has a fraction.
TextsKeepOrder == \A t, u \in Instants : Before(t, u) => Before(SavedAt(t), SavedAt(u))

\* Instants of whole seconds have such texts (time.RFC3339Nano drops the fraction).
LEMMA WholeSecondsKeepOrder ==
    ASSUME \A t \in Instants : \A i \in 2..Len(t) : t[i] = 0
    PROVE  TextsKeepOrder
<1> SUFFICES ASSUME NEW t \in Instants, NEW u \in Instants, Before(t, u)
             PROVE  Before(SavedAt(t), SavedAt(u))
  BY DEF TextsKeepOrder
<1>1. /\ t \in Seq(Nat) /\ u \in Seq(Nat) /\ Len(t) = Len(u) /\ Len(t) \in Nat \ {0}
      /\ \A i \in 2..Len(t) : t[i] = 0 /\ u[i] = 0
  BY EvalRunsAssumption
<1>2. PICK i \in 1..Len(t) : t[i] < u[i]
  BY <1>1 DEF Before
<1>3. i = 1
  <2>1. i # 1 => i \in 2..Len(t)
    BY <1>1
  <2>2. i # 1 => t[i] = 0 /\ u[i] = 0
    BY <1>1, <2>1
  <2> QED BY <1>2, <2>2
<1>4. SavedAt(t)[1] = t[1] /\ SavedAt(u)[1] = u[1] /\ 1 \in DOMAIN SavedAt(t)
  BY <1>1 DEF SavedAt
<1> QED BY <1>2, <1>3, <1>4 DEF Before

\* Of a row that a trim has chosen, MaxRuns rows of newer text were saved.
NewerSaved(r) == {q \in saved : Newer(q, r)}
Outnumbered == \A p \in Savers : \A r \in doomed[p] : Cardinality(NewerSaved(r)) >= MaxRuns

\* A trim chooses a row for the newer ones it sees, and no row's save is forgotten.
LEMMA NextOutnumbered == IInv /\ IInv' /\ Outnumbered /\ [Next]_vars => Outnumbered'
<1> SUFFICES ASSUME IInv, IInv', Outnumbered, [Next]_vars PROVE Outnumbered'
  OBVIOUS
<1>1. /\ \A R \in SUBSET saved : IsFiniteSet(R) /\ Cardinality(R) \in Nat
      /\ \A R, T \in SUBSET saved : R \subseteq T => Cardinality(R) <= Cardinality(T)
      /\ rows \subseteq saved /\ MaxRuns \in Nat
      /\ doomed \in [Savers -> SUBSET saved]
  BY Sizes DEF IInv, TypeOK
<1>3. saved \subseteq saved'
  BY DEF Next, vars, Tick, Save, Insert, StatementFails, BeginTrim, EndTrim, TrimFails, Delete
<1>4. ASSUME NEW r, Cardinality(NewerSaved(r)) >= MaxRuns
      PROVE  Cardinality(NewerSaved(r)') >= MaxRuns
  <2>1. NewerSaved(r) \in SUBSET saved /\ NewerSaved(r) \in SUBSET saved'
        /\ NewerSaved(r)' \in SUBSET saved' /\ NewerSaved(r) \subseteq NewerSaved(r)'
    BY <1>3 DEF NewerSaved
  <2>2. IsFiniteSet(NewerSaved(r)') /\ IsFiniteSet(saved')
    BY <2>1, FS_Subset DEF IInv
  <2>3. Cardinality(NewerSaved(r)') \in Nat /\ Cardinality(NewerSaved(r)) \in Nat
        /\ Cardinality(NewerSaved(r)) <= Cardinality(NewerSaved(r)')
    BY <1>1, <2>1, <2>2, FS_Subset, FS_CardinalityType
  <2> QED BY <1>1, <1>4, <2>3
<1>5. ASSUME NEW p \in Savers, BeginTrim(p) PROVE Outnumbered'
  <2>1. doomed' = [doomed EXCEPT ![p] = rows \ Kept(rows)]
    BY <1>5 DEF BeginTrim
  <2>2. ASSUME NEW r \in rows \ Kept(rows) PROVE Cardinality(NewerSaved(r)) >= MaxRuns
    <3> DEFINE ahead == {q \in rows : Newer(q, r)}
    <3>1. ahead \in SUBSET saved /\ NewerSaved(r) \in SUBSET saved /\ ahead \subseteq NewerSaved(r)
      BY <1>1 DEF NewerSaved
    <3>2. ~(Cardinality(ahead) < MaxRuns)
      BY <2>2 DEF Kept
    <3> HIDE DEF ahead
    <3>3. /\ Cardinality(ahead) <= Cardinality(NewerSaved(r))
          /\ Cardinality(ahead) \in Nat /\ Cardinality(NewerSaved(r)) \in Nat
      BY <1>1, <3>1
    <3> QED BY <1>1, <3>2, <3>3
  <2>3. ASSUME NEW q \in Savers, NEW r \in doomed'[q]
        PROVE  Cardinality(NewerSaved(r)) >= MaxRuns
    BY <1>1, <2>1, <2>2 DEF Outnumbered
  <2> QED BY <1>4, <2>3 DEF Outnumbered
<1>6. ASSUME \A p \in Savers : doomed'[p] \subseteq doomed[p] PROVE Outnumbered'
  BY <1>4, <1>6 DEF Outnumbered
<1>7. ASSUME NEW p \in Savers, EndTrim(p) \/ TrimFails(p)
      PROVE  \A q \in Savers : doomed'[q] \subseteq doomed[q]
  BY <1>1, <1>7 DEF EndTrim, TrimFails
<1>8. CASE UNCHANGED doomed
  BY <1>6, <1>8
<1> QED BY <1>5, <1>6, <1>7, <1>8 DEF Next, vars, Tick, Save, Insert, StatementFails, Delete

\* A row with a newer text is not older, where texts keep the order of instants.
LEMMA NewerIsNotOlder ==
    ASSUME TextsKeepOrder, IInv, NEW r \in saved
    PROVE  NewerSaved(r) \subseteq NotOlder(r)
<1> SUFFICES ASSUME NEW q \in saved, Newer(q, r) PROVE q # r /\ ~Before(q.at, r.at)
  BY DEF NewerSaved, NotOlder
<1>1. q \in Rows /\ r \in Rows
  BY DEF IInv, TypeOK
<1>2. q.at \in Instants /\ r.at \in Instants
  BY <1>1 DEF Rows
<1>3. SavedAt(q.at) \in Stamps /\ SavedAt(r.at) \in Stamps
  BY <1>2, StampTyped
<1>4. q # r
  BY <1>1, NewerIsStrictTotalOrder
<1>5. ASSUME Before(SavedAt(q.at), SavedAt(r.at)) PROVE FALSE
  <2>1. CASE Before(SavedAt(r.at), SavedAt(q.at))
    BY <1>3, <1>5, <2>1, BeforeTransitive, BeforeIrreflexive
  <2>2. CASE SavedAt(q.at) = SavedAt(r.at)
    BY <1>3, <1>5, <2>2, BeforeIrreflexive
  <2> QED BY <2>1, <2>2 DEF Newer
<1> QED BY <1>2, <1>4, <1>5 DEF TextsKeepOrder

\* OnlyTheOldestAreTrimmed: where texts keep the order of instants, a trim deletes a run only
\* for MaxRuns others that are not older, however saves and trims overlap.
THEOREM TrimsAreOfTheOldest ==
    ASSUME TextsKeepOrder
    PROVE  Spec => OnlyTheOldestAreTrimmed
<1>1. Init => Outnumbered
  BY DEF Init, Outnumbered
<1>2. IInv /\ IInv' /\ Outnumbered /\ [Next]_vars => Outnumbered'
  BY NextOutnumbered
<1>3. IInv /\ Outnumbered /\ [Next]_vars =>
          [\A r \in rows \ rows' :
              (\E p \in Savers : EndTrim(p)) => Cardinality(NotOlder(r)) >= MaxRuns]_vars
  <2> SUFFICES ASSUME IInv, Outnumbered, NEW r \in rows \ rows', NEW p \in Savers, EndTrim(p)
               PROVE  Cardinality(NotOlder(r)) >= MaxRuns
    OBVIOUS
  <2>1. r \in doomed[p] /\ r \in saved
    BY DEF EndTrim, IInv, TypeOK
  <2>2. Cardinality(NewerSaved(r)) >= MaxRuns
    BY <2>1 DEF Outnumbered
  <2>3. NewerSaved(r) \in SUBSET saved /\ NotOlder(r) \in SUBSET saved
    BY DEF NewerSaved, NotOlder
  <2>4. /\ Cardinality(NewerSaved(r)) <= Cardinality(NotOlder(r)) /\ MaxRuns \in Nat
        /\ Cardinality(NewerSaved(r)) \in Nat /\ Cardinality(NotOlder(r)) \in Nat
    BY <2>1, <2>3, NewerIsNotOlder, Sizes DEF IInv
  <2> QED BY <2>2, <2>4
<1> QED BY <1>1, <1>2, <1>3, Invariance, PTL DEF Spec, OnlyTheOldestAreTrimmed
===============================================================================
