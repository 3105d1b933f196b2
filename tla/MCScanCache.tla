----------------------------- MODULE MCScanCache ------------------------------
(* Values for ScanCache's constants: one session id found in two project    *)
(* directories, which are two entries of the walk.                          *)
EXTENDS ScanCache, TLC

CONSTANTS k1, p1, p2, c1, c2, r1, r2

\* Two Claude Code files with the same stem.
TwoFlatFiles == <<[key |-> k1, cands |-> <<p1>>], [key |-> k1, cands |-> <<p2>>]>>

Itself == [c \in Contents |-> c]

\* Runs are interchangeable, and so are contents.
Interchangeable == Permutations(Runs) \cup Permutations(Contents)
===============================================================================
