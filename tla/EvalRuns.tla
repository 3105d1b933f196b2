------------------------------- MODULE EvalRuns -------------------------------
(***************************************************************************)
(* The saved evaluation runs: EvalRunRepository of                         *)
(* internal/store/store.go and the three eval-run handlers of              *)
(* internal/server/server.go.                                              *)
(*                                                                         *)
(* A save stamps the report, inserts a row, and then, in a statement of    *)
(* its own, deletes all rows but the MaxRuns first ones, so that saves,    *)
(* trims and deletes of concurrent requests interleave.  PostgreSQL runs a *)
(* DELETE against the rows that were committed when it began: the rows a   *)
(* trim will delete are chosen in one step and deleted in a later one.     *)
(* Trims that overlap may meet at a row: the second skips it.              *)
(*                                                                         *)
(* An instant is <<second, digit, digit, ..>>.  RFC3339Nano drops the      *)
(* zeros at the end of the fraction, and the text goes on with a Z, which  *)
(* sorts after every digit; a fraction with no digit left loses its point  *)
(* as well, and Z sorts after a point, too.  The clock does not run        *)
(* backwards.  The contents of a report are left out, but for its flavor.  *)
(***************************************************************************)
EXTENDS Naturals, FiniteSets, SequencesExt

CONSTANTS
    MaxRuns,        \* EvalRunMaxRuns: 200 in the code
    Flavors,
    Savers,         \* handlers of POST /api/eval/runs
    Instants,       \* the instants at which time.Now may be called
    Begin,          \* the first of them
    Base,           \* of a digit: 10 in the code
    MaxSaves,       \* bound on the rows ever inserted
    MaxFaults       \* bound on the statements that fail

ASSUME EvalRunsAssumption ==
    /\ MaxRuns \in Nat \ {0}
    /\ Base \in Nat \ {0, 1}
    /\ Begin \in Instants
    /\ \A t \in Instants :
          /\ t \in Seq(Nat) /\ Len(t) = Len(Begin) /\ t # <<>>
          /\ \A i \in 2..Len(t) : t[i] < Base
    /\ IsFiniteSet(Savers)
    /\ MaxSaves \in Nat
    /\ MaxFaults \in Nat

VARIABLES
    now,        \* the clock
    rows,       \* eval_runs: [run_id, at, flavor]; saved_at is SavedAt of at
    lastId,     \* the sequence behind run_id
    pc,         \* [Savers -> {"idle", "insert", "trim", "delete"}]
    report,     \* [Savers -> [at, flavor]]: the stamped report of a save
    doomed,     \* [Savers -> SUBSET rows]: what a trim under way will delete
    saved,      \* history: every row ever inserted
    faults

vars == <<now, rows, lastId, pc, report, doomed, saved, faults>>

Rows == [run_id : 1..MaxSaves, at : Instants, flavor : Flavors]

Init ==
    /\ now = Begin
    /\ rows = {}
    /\ lastId = 0
    /\ pc = [p \in Savers |-> "idle"]
    /\ report \in [Savers -> [at : {Begin}, flavor : Flavors]]
    /\ doomed = [p \in Savers |-> {}]
    /\ saved = {}
    /\ faults = 0

-------------------------------------------------------------------------------
(* The order of the rows. *)

\* The order of instants, and of equally long digit strings.
Before(u, v) ==
    \E i \in DOMAIN u : u[i] < v[i] /\ \A j \in 1..(i - 1) : u[j] = v[j]

\* time.Format(time.RFC3339Nano), as far as the order of texts goes.
SavedAt(t) ==
    [i \in DOMAIN t |->
        IF i > 1 /\ \A j \in i..Len(t) : t[j] = 0 THEN Base ELSE t[i]]

\* ORDER BY saved_at, run_id DESC.
OldestFirst(r, q) ==
    \/ Before(SavedAt(r.at), SavedAt(q.at))
    \/ SavedAt(q.at) = SavedAt(r.at) /\ r.run_id > q.run_id

\* ORDER BY saved_at DESC, run_id DESC: r comes before q.
Newer(r, q) ==
    \/ Before(SavedAt(q.at), SavedAt(r.at))
    \/ SavedAt(q.at) = SavedAt(r.at) /\ r.run_id > q.run_id

\* LIMIT MaxRuns + 1.
KeptWithOneMore(S) == {r \in S : Cardinality({q \in S : Newer(q, r)}) <= MaxRuns}

\* LIMIT MaxRuns, of all rows.
Kept(S) == {r \in S : Cardinality({q \in S : Newer(q, r)}) < MaxRuns}

\* List: the runs of a flavor, first to last.
List(flavor) == SetToSortSeq({r \in rows : r.flavor = flavor}, Newer)

-------------------------------------------------------------------------------
(* The handlers. *)

Tick ==
    /\ \E t \in Instants : Before(now, t) /\ now' = t
    /\ UNCHANGED <<rows, lastId, pc, report, doomed, saved, faults>>

\* Save: the report is stamped before its row is inserted.
Save(p) ==
    /\ pc[p] = "idle"
    /\ \E f \in Flavors : report' = [report EXCEPT ![p] = [at |-> now, flavor |-> f]]
    /\ pc' = [pc EXCEPT ![p] = "insert"]
    /\ UNCHANGED <<now, rows, lastId, doomed, saved, faults>>

\* A row numbered by the rows there are.
InsertByCount(p) ==
    /\ pc[p] = "insert"
    /\ lastId < MaxSaves
    /\ LET row == [run_id |-> Cardinality(rows) + 1, at |-> report[p].at,
                   flavor |-> report[p].flavor]
       IN  rows' = rows \cup {row} /\ saved' = saved \cup {row}
    /\ lastId' = lastId + 1
    /\ pc' = [pc EXCEPT ![p] = "trim"]
    /\ UNCHANGED <<now, report, doomed, faults>>

\* SaveAt: the row is in; the trim is still to come.
Insert(p) ==
    /\ pc[p] = "insert"
    /\ lastId < MaxSaves
    /\ LET row == [run_id |-> lastId + 1, at |-> report[p].at,
                   flavor |-> report[p].flavor]
       IN  rows' = rows \cup {row} /\ saved' = saved \cup {row}
    /\ lastId' = lastId + 1
    /\ pc' = [pc EXCEPT ![p] = "trim"]
    /\ UNCHANGED <<now, report, doomed, faults>>

\* A statement fails before it has begun: 503.  A row inserted stays.
StatementFails(p) ==
    /\ pc[p] \in {"insert", "trim"}
    /\ faults < MaxFaults
    /\ faults' = faults + 1
    /\ pc' = [pc EXCEPT ![p] = "idle"]
    /\ UNCHANGED <<now, rows, lastId, report, doomed, saved>>

\* The trim begins: its subquery counts the rows there are now, of any flavor.
BeginTrim(p) ==
    /\ pc[p] = "trim"
    /\ doomed' = [doomed EXCEPT ![p] = rows \ Kept(rows)]
    /\ pc' = [pc EXCEPT ![p] = "delete"]
    /\ UNCHANGED <<now, rows, lastId, report, saved, faults>>

\* It ends: the rows it chose are gone, whoever inserted others meanwhile.
\* If the answer is lost, it is a 503 all the same.
EndTrim(p) ==
    /\ pc[p] = "delete"
    /\ rows' = rows \ doomed[p]
    /\ doomed' = [doomed EXCEPT ![p] = {}]
    /\ pc' = [pc EXCEPT ![p] = "idle"]
    /\ UNCHANGED <<now, lastId, report, saved, faults>>

\* It is rolled back: 503, and nothing is deleted.
TrimFails(p) ==
    /\ pc[p] = "delete"
    /\ faults < MaxFaults
    /\ faults' = faults + 1
    /\ doomed' = [doomed EXCEPT ![p] = {}]
    /\ pc' = [pc EXCEPT ![p] = "idle"]
    /\ UNCHANGED <<now, rows, lastId, report, saved>>

\* DELETE /api/eval/runs?savedAt=: every row of that text, of any flavor.
Delete(t) ==
    /\ rows' = {r \in rows : SavedAt(r.at) # SavedAt(t)}
    /\ UNCHANGED <<now, lastId, pc, report, doomed, saved, faults>>

Next ==
    \/ Tick
    \/ \E p \in Savers : Save(p) \/ Insert(p) \/ StatementFails(p)
                            \/ BeginTrim(p) \/ EndTrim(p) \/ TrimFails(p)
    \/ \E t \in Instants : Delete(t)

Spec == Init /\ [][Next]_vars

-------------------------------------------------------------------------------
(* Properties. *)

TypeOK ==
    /\ now \in Instants
    /\ rows \subseteq saved
    /\ saved \subseteq Rows
    /\ \A r, q \in saved : r.run_id = q.run_id => r = q
    /\ lastId \in 0..MaxSaves
    /\ pc \in [Savers -> {"idle", "insert", "trim", "delete"}]
    /\ report \in [Savers -> [at : Instants, flavor : Flavors]]
    /\ doomed \in [Savers -> SUBSET saved]
    /\ faults \in 0..MaxFaults

\* "EvalRunMaxRuns is the global cap on stored evaluation runs": no more rows
\* than that, but for the saves that have inserted and not trimmed yet and for
\* those whose trim has failed.  A row the trim of one save does not see is
\* one its own save will count.
Untrimmed == {p \in Savers : pc[p] \in {"trim", "delete"}}
Capped == Cardinality(rows) <= MaxRuns + Cardinality(Untrimmed) + faults

\* What makes Capped inductive: whichever of the trims under way end first, what
\* they leave is capped by the saves that are still to trim.
Trimming == {p \in Savers : pc[p] = "delete"}
Left(Q) == rows \ UNION {doomed[p] : p \in Q}
CappedWhenTrimmed == \A Q \in SUBSET Trimming :
    Cardinality(Left(Q)) <= MaxRuns + Cardinality(Untrimmed \ Q) + faults

IInv ==
    /\ TypeOK
    /\ IsFiniteSet(saved)
    /\ \A r \in saved : r.run_id <= lastId
    /\ CappedWhenTrimmed

\* A run is trimmed only for newer ones: MaxRuns others were saved that are
\* not older, whatever the order in which the requests got to the database.
NotOlder(r) == {q \in saved \ {r} : ~Before(q.at, r.at)}
OnlyTheOldestAreTrimmed ==
    [][\A r \in rows \ rows' :
          (\E p \in Savers : EndTrim(p)) => Cardinality(NotOlder(r)) >= MaxRuns]_vars

\* schema.sql: saved_at is "a lexicographic stand-in for chronological order".
\* List returns the runs "newest first".
ListedNewestFirst ==
    \A f \in Flavors : \A i, j \in DOMAIN List(f) :
        i < j => ~Before(List(f)[i].at, List(f)[j].at)
===============================================================================
