----------------------------- MODULE MCIngestSync -----------------------------
(* Values for IngestSync's constants. *)
EXTENDS IngestSync

CONSTANTS a1, a2, m1, m2, s1, s2, t1, t2, bad, f2, x1, x2, x3

OneHome == [a \in Agents |-> m1]

\* A file with invalid UTF-8 is stored as t1.
ToValid == [b \in Bytes |-> IF b = bad THEN t1 ELSE b]

\* The transcript t1 attaches nothing, t2 a file.
AttachedByT2 == [t \in Texts |-> IF t = t2 THEN f2 ELSE NoFiles]

InOrder == IF s2 \in Ids THEN <<s1, s2>> ELSE <<s1>>
===============================================================================
