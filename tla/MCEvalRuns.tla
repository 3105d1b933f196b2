------------------------------ MODULE MCEvalRuns ------------------------------
(* Values for EvalRuns' constants. *)
EXTENDS EvalRuns, TLC

CONSTANTS p1, p2, codex, claude

Interchangeable == Permutations(Savers) \cup Permutations(Flavors)

\* 12:00:01, 12:00:02 and 12:00:03.
Start == <<1, 0>>
WholeSeconds == {<<1, 0>>, <<2, 0>>, <<3, 0>>}

\* 12:00:01, .5, .51 and 12:00:02.
StartFraction == <<1, 0, 0>>
Fractions == {<<1, 0, 0>>, <<1, 5, 0>>, <<1, 5, 1>>, <<2, 0, 0>>}
===============================================================================
