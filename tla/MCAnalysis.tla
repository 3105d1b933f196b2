------------------------------ MODULE MCAnalysis ------------------------------
(* Values for Analysis's constants. *)
EXTENDS Analysis

CONSTANTS r1, r2, w1, w2, s1
===============================================================================
