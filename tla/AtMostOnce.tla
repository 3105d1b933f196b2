----------------------------- MODULE AtMostOnce -----------------------------
(***************************************************************************)
(* What a caller of the database may rely on, whatever happens to the      *)
(* connection: the server executes a statement at most once, never one     *)
(* that nobody asked for, and a statement whose success was reported has   *)
(* been executed.  A statement that failed for its caller may still be     *)
(* executed later: its outcome is in doubt.                                *)
(***************************************************************************)
EXTENDS Naturals

CONSTANT Ids              \* the statements: one per call of the driver

VARIABLES asked,          \* statements their callers have issued
          runs,           \* how often the server has executed each
          told            \* statements whose success was reported

onceVars == <<asked, runs, told>>

OnceInit ==
    /\ asked = {}
    /\ runs = [i \in Ids |-> 0]
    /\ told = {}

Ask(i) == /\ i \notin asked
          /\ asked' = asked \cup {i}
          /\ UNCHANGED <<runs, told>>

Execute(i) == /\ i \in asked
              /\ runs[i] = 0
              /\ runs' = [runs EXCEPT ![i] = 1]
              /\ UNCHANGED <<asked, told>>

Tell(i) == /\ runs[i] = 1
           /\ told' = told \cup {i}
           /\ UNCHANGED <<asked, runs>>

OnceNext == \E i \in Ids : Ask(i) \/ Execute(i) \/ Tell(i)

OnceSpec == OnceInit /\ [][OnceNext]_onceVars

=============================================================================
