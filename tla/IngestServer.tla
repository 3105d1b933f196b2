----------------------------- MODULE IngestServer -----------------------------
(***************************************************************************)
(* The ingest half of the server: internal/transcript/ingestor.go, the     *)
(* ingest handlers of internal/server/server.go and the three tables they  *)
(* write through internal/store/store.go.                                  *)
(*                                                                         *)
(* A request is handled in a slot, one database statement per step, so the *)
(* handlers of concurrent requests interleave at every statement.  The     *)
(* handlers do not pass the request's context to the database: a handler   *)
(* whose client has gone away runs on to its end.                          *)
(*                                                                         *)
(* A statement may also be refused (it changes nothing) or lost (it is     *)
(* committed, and the connection breaks before the answer arrives); both   *)
(* come back to the caller as the same StoreUnavailableError.              *)
(*                                                                         *)
(* A text stands for a sanitized transcript and for its SHA-256, a summary *)
(* for its JSON and its SHA-256.  Titles and mtimes are left out.          *)
(***************************************************************************)
EXTENDS Naturals, Sequences

CONSTANTS
    Slots,          \* requests the server may be handling at once
    Agents,         \* the clients
    Nobody,         \* the owner of a request whose client went away
    Ids,            \* sessions
    UnknownSource,  \* SUBSET Ids: sessions of a source no normalizer handles
    Texts,          \* transcripts as sent: sanitized, valid UTF-8
    Free,           \* a slot with no request
    NoRow,          \* no row in a table
    NoFiles,        \* a push that carries no attached file
    Summaries,      \* cached analyses
    NoSummary,      \* a push that carries no summary
    TooLong,        \* SUBSET Summaries: over MaxSummaryChars
    MaxFaults       \* bound on the failures of one behaviour

ASSUME FaultsAssumption == MaxFaults \in Nat
ASSUME ServerSetsAssumption ==
    /\ UnknownSource \subseteq Ids
    /\ TooLong \subseteq Summaries
    /\ NoSummary \notin Summaries

VARIABLES
    sessions,   \* [Ids -> Texts \cup {NoRow}]: the sessions table
    files,      \* [Ids -> attachments \cup {NoFiles}]: session_files, by session
    summaries,  \* [Ids -> Summaries \cup {NoRow}]: the summaries table
    req,        \* [Slots -> request \cup {Free}]
    faults      \* the failures so far

tables == <<sessions, files, summaries>>

\* No request under way, nothing stored beside the transcripts.
ServerInit ==
    /\ files = [s \in Ids |-> NoFiles]
    /\ summaries = [s \in Ids |-> NoRow]
    /\ req = [h \in Slots |-> Free]
    /\ faults = 0

-------------------------------------------------------------------------------
(* Requests and their handlers. *)

\* POST /api/ingest/sessions ("sessions") or .../summaries ("summaries").
NewRequest(owner, kind, batch) ==
    [owner |-> owner, kind |-> kind, batch |-> batch, pos |-> 1,
     stage |-> "row", failed |-> FALSE, reply |-> "none"]

Handling(h, kind, stage) ==
    /\ req[h] # Free
    /\ req[h].reply = "none"
    /\ req[h].kind = kind
    /\ req[h].stage = stage
    /\ req[h].pos \in DOMAIN req[h].batch

Item(h) == req[h].batch[req[h].pos]

\* The three ways a statement may end.
Outcomes == {"ok", "refused", "lost"}
Ends(outcome) ==
    /\ outcome # "ok" => faults < MaxFaults
    /\ faults' = IF outcome = "ok" THEN faults ELSE faults + 1

\* ON CONFLICT DO NOTHING.
InsertOnly(table, s, value, outcome) ==
    IF outcome = "refused" \/ table[s] # NoRow THEN table
    ELSE [table EXCEPT ![s] = value]

\* INSERT .. ON CONFLICT DO UPDATE .. WHERE the hash differs: a row with this
\* hash has this value already.
Upsert(table, s, value, outcome) ==
    IF outcome = "refused" THEN table ELSE [table EXCEPT ![s] = value]

Unavailable(h) == req' = [req EXCEPT ![h].reply = "unavailable"]
AtStage(h, stage) == req' = [req EXCEPT ![h].stage = stage]
NextItem(h) == req' = [req EXCEPT ![h].stage = "row", ![h].pos = @ + 1]
RejectItemQuietly(h) == req' = [req EXCEPT ![h].stage = "row", ![h].pos = @ + 1]
RejectItem(h) ==
    req' = [req EXCEPT ![h].stage = "row", ![h].pos = @ + 1, ![h].failed = TRUE]

AfterFiles(h) == IF Item(h).summary \in Summaries \ TooLong
                   THEN AtStage(h, "summary") ELSE NextItem(h)
AfterRow(h) == IF Item(h).files # NoFiles THEN AtStage(h, "files") ELSE AfterFiles(h)

\* An upsert whose error is only logged.
RowEndsQuietly(h, outcome) == AfterRow(h)

\* An error ends the whole request; what earlier items wrote stays written.
RowEnds(h, outcome) == IF outcome = "ok" THEN AfterRow(h) ELSE Unavailable(h)

\* storeSession: an unknown source is counted as failed and touches nothing.
RejectSession(h) ==
    /\ Handling(h, "sessions", "row")
    /\ Item(h).id \in UnknownSource
    /\ RejectItem(h)
    /\ UNCHANGED <<tables, faults>>

\* storeSession: the row of the session.
UpsertSession(h) ==
    /\ Handling(h, "sessions", "row")
    /\ Item(h).id \notin UnknownSource
    /\ \E outcome \in Outcomes :
          /\ Ends(outcome)
          /\ sessions' = Upsert(sessions, Item(h).id, Item(h).text, outcome)
          /\ RowEnds(h, outcome)
    /\ UNCHANGED <<files, summaries>>

\* storeSession: ReplaceForSession, one transaction.  Its error is only logged.
ReplaceFiles(h) ==
    /\ Handling(h, "sessions", "files")
    /\ \E outcome \in Outcomes :
          /\ Ends(outcome)
          /\ files' = Upsert(files, Item(h).id, Item(h).files, outcome)
    /\ AfterFiles(h)
    /\ UNCHANGED <<sessions, summaries>>

\* storeSession: the pushed summary.  Its error is only logged, too.
UpsertPushedSummary(h) ==
    /\ Handling(h, "sessions", "summary")
    /\ \E outcome \in Outcomes :
          /\ Ends(outcome)
          /\ summaries' = Upsert(summaries, Item(h).id, Item(h).summary, outcome)
    /\ NextItem(h)
    /\ UNCHANGED <<sessions, files>>

\* storeSummary: an unknown source or a body over the limit counts as failed.
RejectSummary(h) ==
    /\ Handling(h, "summaries", "row")
    /\ Item(h).id \in UnknownSource \/ Item(h).summary \in TooLong
    /\ RejectItem(h)
    /\ UNCHANGED <<tables, faults>>

\* storeSummary: the upsert; an error ends the whole request.
UpsertSummary(h) ==
    /\ Handling(h, "summaries", "row")
    /\ Item(h).id \notin UnknownSource /\ Item(h).summary \notin TooLong
    /\ \E outcome \in Outcomes :
          /\ Ends(outcome)
          /\ summaries' = Upsert(summaries, Item(h).id, Item(h).summary, outcome)
          /\ IF outcome = "ok" THEN NextItem(h) ELSE Unavailable(h)
    /\ UNCHANGED <<sessions, files>>

\* The batch is done: 200 with the counts, of which the agent's exit code
\* depends on whether any item failed.
Answer(h) ==
    /\ req[h] # Free
    /\ req[h].reply = "none"
    /\ req[h].pos \notin DOMAIN req[h].batch
    /\ req' = [req EXCEPT ![h].reply = "ok"]
    /\ UNCHANGED <<tables, faults>>

\* A request nobody waits for ends unheard.
Discard(h) ==
    /\ req[h] # Free
    /\ req[h].reply # "none"
    /\ req[h].owner = Nobody
    /\ req' = [req EXCEPT ![h] = Free]
    /\ UNCHANGED <<tables, faults>>

HandlerStep(h) ==
    \/ RejectSession(h) \/ UpsertSession(h) \/ ReplaceFiles(h)
    \/ UpsertPushedSummary(h) \/ RejectSummary(h) \/ UpsertSummary(h)
    \/ Answer(h) \/ Discard(h)
===============================================================================
