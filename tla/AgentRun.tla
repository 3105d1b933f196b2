------------------------------- MODULE AgentRun -------------------------------
(***************************************************************************)
(* What an agent-ingest run works out without the server: the files a      *)
(* transcript attaches (scan/attachments.go), the batches it pushes, and   *)
(* its report (cli/main.go).                                               *)
(***************************************************************************)
EXTENDS Integers, Sequences, FiniteSets, FiniteSetsExt, SequencesExt

CONSTANTS
    FileAt,                     \* path |-> [absolute, secret, stat, read, bytes]
    MaxAttachments,             \* 25 in the code
    MaxAttachmentBytes,
    BatchSize, MaxBatchBytes

\* One mention: acc is [out, skipped, seen].
Offered(acc, path) ==
    LET file == FileAt[path]
        seen == [acc EXCEPT !.seen = @ \cup {path}]
        skip == [seen EXCEPT !.skipped = Append(@, path)]
    IN  IF ~file.absolute \/ path \in acc.seen THEN acc
        ELSE IF file.secret \/ Len(acc.out) >= MaxAttachments THEN skip
        ELSE IF ~file.stat THEN seen
        ELSE IF file.bytes > MaxAttachmentBytes THEN skip
        ELSE IF ~file.read THEN seen
        ELSE [seen EXCEPT !.out = Append(@, path)]

ReferencedFiles(mentions) == FoldLeft(Offered, [out |-> <<>>, skipped |-> <<>>, seen |-> {}], mentions)

-----------------------------------------------------------------------------

Total(sizes) == FoldLeft(LAMBDA a, b : a + b, 0, sizes)

FullAfterwards(current, size) == Len(current) >= BatchSize \/ Total(current) >= MaxBatchBytes

Full(current, size) == Len(current) >= BatchSize \/ Total(current) + size > MaxBatchBytes

\* One more item: b is [done, current], the batches that are closed and the last.
Put(b, size) ==
    IF b.current # <<>> /\ Full(b.current, size)
    THEN [done |-> Append(b.done, b.current), current |-> <<size>>]
    ELSE [b EXCEPT !.current = Append(@, size)]

\* Batches of sizes, in order.
chunkBy(sizes) ==
    LET s == FoldLeft(Put, [done |-> <<>>, current |-> <<>>], sizes)
    IN  IF s.current = <<>> THEN s.done ELSE Append(s.done, s.current)

-----------------------------------------------------------------------------

Counts == {"ingested", "skipped", "failed", "summariesFailed"}

errored(row) == row.error \/ row.failed > 0 \/ row.summariesFailed > 0

NewReport == [rows |-> <<>>, total |-> [c \in Counts |-> 0], failed |-> FALSE]

\* A source given twice has one row, that of its last pass.
AddRow(report, source, row) ==
    LET place == SelectInSeq(report.rows, LAMBDA r : r.source = source)
        new == [source |-> source, row |-> row]
    IN  [rows |-> IF place = 0 THEN Append(report.rows, new) ELSE [report.rows EXCEPT ![place] = new],
         total |-> [c \in Counts |-> report.total[c] + row[c]],
         failed |-> report.failed \/ errored(row)]
=============================================================================
