------------------------------ MODULE IngestSync ------------------------------
(***************************************************************************)
(* agent-ingest against the server: cli/main.go, cli/internal/client and   *)
(* the scan of cli/internal/scan, composed with IngestServer.              *)
(*                                                                         *)
(* A run scans the transcripts of its home, asks the server which hashes   *)
(* it has, uploads the sessions that differ in batches, then the on-disk   *)
(* summaries the store is missing, and ends with an exit code.  Runs are   *)
(* started by a timer for ever, on several machines, and two may overlap   *)
(* on one.  Answers are lost, attempts time out and are retried while the  *)
(* first handler is still at work, the server and the runs crash, and the  *)
(* coding agents go on writing.                                            *)
(*                                                                         *)
(* The scan is one step: by ScanCache, a session is reported with the hash *)
(* of what its file holds, with or without its content in memory, and no   *)
(* step reads two files.  The byte budget of a batch and the order of the  *)
(* sources are left out; a run here has one source.  The retries of the    *)
(* two manifest requests, which change nothing, are left out as well: such *)
(* a request is answered or has failed.                                    *)
(***************************************************************************)
EXTENDS IngestServer, FiniteSets

CONSTANTS
    Homes,          \* machines
    HomeOf,         \* [Agents -> Homes]
    IdOrder,        \* the sessions in the order of scan.SortedByKey
    Bytes,          \* what a transcript file may hold; Texts \subseteq Bytes
    Coerced,        \* [Bytes -> Texts]: strings.ToValidUTF8
    Attached,       \* [Texts -> attachments \cup {NoFiles}]: ReferencedFiles
    Gone,           \* a transcript that is not there
    Unseen,         \* a session a scan did not find
    NoSlot,         \* no request under way
    BatchSize,      \* --batch-size
    ScanCached,     \* BOOLEAN: FALSE if the runs are started with --no-cache
    UploadFiles,    \* SUBSET BOOLEAN: without and with --no-upload-files
    MaxAttempts,    \* client.Client.attempts: 3 in the code
    MaxEdits        \* bound on what the coding agents write

\* What a request carries of a session, and a request at the server.
Item_ == [id : Ids, text : Texts, files : {Attached[t] : t \in Texts} \cup {NoFiles},
          summary : Summaries \cup {NoSummary}]
SummaryItem_ == [id : Ids, summary : Summaries]
Request_ == [owner : Agents \cup {Nobody}, kind : {"sessions", "summaries"},
             batch : Seq(Item_ \cup SummaryItem_), pos : Nat \ {0},
             stage : {"row", "files", "summary"}, failed : BOOLEAN,
             reply : {"none", "ok", "unavailable"}]

ASSUME SyncAssumption ==
    /\ HomeOf \in [Agents -> Homes]
    /\ Nobody \notin Agents
    /\ Free \notin Request_
    /\ NoRow \notin Texts /\ NoSlot \notin Slots
    /\ IsFiniteSet(Ids)
    /\ IdOrder \in Seq(Ids) /\ \A s \in Ids : \E i \in DOMAIN IdOrder : IdOrder[i] = s
    /\ Texts \subseteq Bytes
    /\ \A b \in Bytes : Coerced[b] \in Texts
    /\ \A t \in Texts : Coerced[t] = t
    /\ ScanCached \in BOOLEAN
    /\ UploadFiles \subseteq BOOLEAN
    /\ BatchSize \in Nat \ {0}
    /\ MaxAttempts \in Nat \ {0}
    /\ MaxEdits \in Nat

VARIABLES
    transcript, \* [Homes -> [Ids -> Bytes \cup {Gone}]]
    analysis,   \* [Homes -> [Ids -> Summaries \cup {NoSummary}]]: summary.json
    edits,      \* what the coding agents wrote so far
    pc,         \* [Agents -> step of the run]
    scan,       \* [Agents -> [Ids -> scanned session \cup {Unseen}]]
    manifest,   \* [Agents -> [Ids -> Texts \cup {NoRow}]]: the server's hashes
    missing,    \* [Agents -> SUBSET Ids]: LoadRaw failed, skipped with a warning
    queue,      \* [Agents -> Seq of batches]: requests still to be made
    tries,      \* [Agents -> Nat]: attempts made at the first of them
    conn,       \* [Agents -> Slots \cup {NoSlot}]: the attempt under way
    failed,     \* [Agents -> BOOLEAN]: report.failed, the exit code
    want,       \* history: [Agents -> [Ids -> Texts \cup {NoRow}]], what the
                \* run read of a session and vouches for
    held        \* history: [Agents -> [Ids -> SUBSET Texts]], what the store
                \* has held of a session since the run's scan

localVars == <<transcript, analysis, edits>>
runVars == <<pc, scan, manifest, missing, queue, tries, conn, failed, want>>
vars == <<tables, req, faults, localVars, runVars, held>>

NothingScanned == [s \in Ids |-> Unseen]
NothingKnown == [s \in Ids |-> NoRow]

NothingRunning ==
    /\ analysis = [m \in Homes |-> [s \in Ids |-> NoSummary]]
    /\ edits = 0
    /\ pc = [a \in Agents |-> "idle"]
    /\ scan = [a \in Agents |-> NothingScanned]
    /\ manifest = [a \in Agents |-> NothingKnown]
    /\ missing = [a \in Agents |-> {}]
    /\ queue = [a \in Agents |-> <<>>]
    /\ tries = [a \in Agents |-> 0]
    /\ conn = [a \in Agents |-> NoSlot]
    /\ failed = [a \in Agents |-> FALSE]
    /\ want = [a \in Agents |-> NothingKnown]
    /\ held = [a \in Agents |-> [s \in Ids |-> {}]]

Init ==
    /\ transcript \in [Homes -> [Ids -> Bytes \cup {Gone}]]
    /\ sessions = NothingKnown
    /\ ServerInit
    /\ NothingRunning

-------------------------------------------------------------------------------
(* The coding agents, on every machine. *)

EditTranscript(m, s) ==
    /\ edits < MaxEdits
    /\ edits' = edits + 1
    /\ \E b \in (Bytes \cup {Gone}) \ {transcript[m][s]} :
          transcript' = [transcript EXCEPT ![m][s] = b]
    /\ UNCHANGED <<tables, req, faults, analysis, runVars>>

EditAnalysis(m, s) ==
    /\ edits < MaxEdits
    /\ edits' = edits + 1
    /\ \E x \in Summaries \ {analysis[m][s]} :
          analysis' = [analysis EXCEPT ![m][s] = x]
    /\ UNCHANGED <<tables, req, faults, transcript, runVars>>

-------------------------------------------------------------------------------
(* A run, up to its uploads. *)

Local(a) == transcript[HomeOf[a]]

\* The hash of the bytes as they are in the file.
HashOfBytes(b) == b

\* The hash a scan computes: of the sanitized content the server will store.
HashOf(b) == Coerced[b]

\* The timer fires on a machine with no session of the source: nothing to do.
NothingToDo(a) ==
    /\ pc[a] = "idle"
    /\ \A s \in Ids : Local(a)[s] = Gone
    /\ UNCHANGED <<tables, req, faults, localVars, runVars>>

\* The timer fires, or somebody runs it by hand: ScanWithCache.
Begin(a) ==
    /\ pc[a] = "idle"
    /\ \E s \in Ids : Local(a)[s] # Gone
    /\ scan' = [scan EXCEPT ![a] = [s \in Ids |->
          IF Local(a)[s] = Gone THEN Unseen
          ELSE [hash |-> HashOf(Local(a)[s]), summary |-> analysis[HomeOf[a]][s]]]]
    /\ want' = [want EXCEPT ![a] = [s \in Ids |->
          IF Local(a)[s] = Gone THEN NoRow ELSE Coerced[Local(a)[s]]]]
    /\ pc' = [pc EXCEPT ![a] = "manifest"]
    /\ UNCHANGED <<tables, req, faults, localVars, manifest, missing, queue,
                   tries, conn, failed>>

\* The process is gone, and all it knew.
Exit(a) ==
    /\ pc' = [pc EXCEPT ![a] = "idle"]
    /\ scan' = [scan EXCEPT ![a] = NothingScanned]
    /\ manifest' = [manifest EXCEPT ![a] = NothingKnown]
    /\ missing' = [missing EXCEPT ![a] = {}]
    /\ queue' = [queue EXCEPT ![a] = <<>>]
    /\ tries' = [tries EXCEPT ![a] = 0]
    /\ conn' = [conn EXCEPT ![a] = NoSlot]
    /\ failed' = [failed EXCEPT ![a] = FALSE]
    /\ want' = [want EXCEPT ![a] = NothingKnown]

\* GET /api/ingest/manifest: the hashes as of now, used only later.
FetchManifest(a) ==
    /\ pc[a] = "manifest"
    /\ manifest' = [manifest EXCEPT ![a] = sessions]
    /\ pc' = [pc EXCEPT ![a] = "diff"]
    /\ UNCHANGED <<tables, req, faults, localVars, scan, missing, queue, tries,
                   conn, failed, want>>

\* A failure is recorded against the source, which is given up: exit code 1.
ManifestFails(a) ==
    /\ pc[a] = "manifest"
    /\ faults < MaxFaults
    /\ faults' = faults + 1
    /\ Exit(a)
    /\ UNCHANGED <<tables, req, localVars>>

Seen(a) == {s \in Ids : scan[a][s] # Unseen}

Changed(a) == {s \in Seen(a) : manifest[a][s] # scan[a][s].hash}

\* LoadRaw: what the scan read or, after a cache hit, the file as it is now.
Raw(a, s, hit) == IF ~hit THEN want[a][s]
                  ELSE IF Local(a)[s] = Gone THEN NoRow
                  ELSE Coerced[Local(a)[s]]

\* chunk: batches of at most BatchSize, in order.
Chunk(kind, items) ==
    [i \in 1..((Len(items) + BatchSize - 1) \div BatchSize) |->
        [kind |-> kind,
         items |-> SubSeq(items, (i - 1) * BatchSize + 1,
                          IF i * BatchSize < Len(items) THEN i * BatchSize
                                                        ELSE Len(items))]]

\* What is to be pushed of each session, in the order of the sessions.
Place(s) == CHOOSE i \in DOMAIN IdOrder : IdOrder[i] = s
UpTo(ids, s) == {t \in ids : Place(t) <= Place(s)}
Items(push) ==
    [n \in 1..Cardinality(DOMAIN push) |->
        push[CHOOSE s \in DOMAIN push : Cardinality(UpTo(DOMAIN push, s)) = n]]

\* changedSessions: read what is not in memory, skip with a warning what has
\* vanished, attach the files the transcript refers to unless the run was
\* started with --no-upload-files.
Diff(a) ==
    /\ pc[a] = "diff"
    /\ \E hits \in IF ScanCached THEN SUBSET Changed(a) ELSE {{}},
          uploadFiles \in UploadFiles :
          LET raw(s) == Raw(a, s, s \in hits)
              gone == {s \in Changed(a) : raw(s) = NoRow}
              push == [s \in Changed(a) \ gone |->
                  [id |-> s, text |-> raw(s),
                   files |-> IF uploadFiles THEN Attached[raw(s)] ELSE NoFiles,
                   summary |-> scan[a][s].summary]]
          IN  /\ missing' = [missing EXCEPT ![a] = gone]
              /\ queue' = [queue EXCEPT ![a] =
                     Chunk("sessions", Items(push))]
              /\ want' = [want EXCEPT ![a] = [s \in Ids |->
                     IF s \in Changed(a) THEN raw(s) ELSE want[a][s]]]
    /\ pc' = [pc EXCEPT ![a] = "summaries"]
    /\ UNCHANGED <<tables, req, faults, localVars, scan, manifest, tries, conn,
                   failed>>

\* The sessions with a summary where the store has none.
MissingSummaries(a) ==
    {s \in Seen(a) \ Changed(a) : scan[a][s].summary # NoSummary /\ summaries[s] = NoRow}

\* changedSummaries: only for a transcript the store already has.
StaleSummaries(a) ==
    {s \in Seen(a) \ Changed(a) : scan[a][s].summary \notin {NoSummary, summaries[s]}}

\* Without the summary manifest there is no summary to push, and no failure.
DiffSummaries(a) ==
    /\ pc[a] = "summaries"
    /\ LET push == [s \in StaleSummaries(a) |-> [id |-> s, summary |-> scan[a][s].summary]]
       IN  \/ /\ queue' = [queue EXCEPT ![a] = @ \o Chunk("summaries", Items(push))]
              /\ UNCHANGED faults
           \/ /\ faults < MaxFaults
              /\ faults' = faults + 1
              /\ UNCHANGED queue
    /\ pc' = [pc EXCEPT ![a] = "push"]
    /\ manifest' = [manifest EXCEPT ![a] = NothingKnown]     \* not used again
    /\ UNCHANGED <<tables, req, localVars, scan, missing, tries, conn,
                   failed, want>>

-------------------------------------------------------------------------------
(* The uploads of a run, each with its attempts. *)

\* doOnce: the request reaches the server.  The slot's number means nothing.
Send(a) ==
    /\ pc[a] = "push"
    /\ queue[a] # <<>>
    /\ \E h \in Slots :
          /\ req[h] = Free
          /\ \A g \in Slots : g < h => req[g] # Free
          /\ req' = [req EXCEPT ![h] = NewRequest(a, Head(queue[a]).kind, Head(queue[a]).items)]
          /\ conn' = [conn EXCEPT ![a] = h]
    /\ pc' = [pc EXCEPT ![a] = "await"]
    /\ tries' = [tries EXCEPT ![a] = @ + 1]
    /\ UNCHANGED <<tables, faults, localVars, scan, manifest, missing, queue,
                   failed, want>>

\* do: a transient failure is retried; the last one ends the source's uploads.
AttemptFailed(a) ==
    /\ pc' = [pc EXCEPT ![a] = "push"]
    /\ conn' = [conn EXCEPT ![a] = NoSlot]
    /\ IF tries[a] < MaxAttempts
         THEN UNCHANGED <<queue, tries, failed>>
         ELSE /\ queue' = [queue EXCEPT ![a] = <<>>]
              /\ tries' = [tries EXCEPT ![a] = 0]
              /\ failed' = [failed EXCEPT ![a] = TRUE]

Answered(a) == pc[a] = "await" /\ conn[a] # NoSlot /\ req[conn[a]].reply # "none"

\* 200: the counts are added to the report.
ReceiveCounts(a) ==
    /\ Answered(a)
    /\ req[conn[a]].reply = "ok"
    /\ failed' = [failed EXCEPT ![a] = @ \/ req[conn[a]].failed]
    /\ queue' = [queue EXCEPT ![a] = Tail(@)]
    /\ tries' = [tries EXCEPT ![a] = 0]
    /\ conn' = [conn EXCEPT ![a] = NoSlot]
    /\ req' = [req EXCEPT ![conn[a]] = Free]
    /\ pc' = [pc EXCEPT ![a] = "push"]
    /\ UNCHANGED <<tables, faults, localVars, scan, manifest, missing, want>>

\* 503.
ReceiveError(a) ==
    /\ Answered(a)
    /\ req[conn[a]].reply = "unavailable"
    /\ req' = [req EXCEPT ![conn[a]] = Free]
    /\ AttemptFailed(a)
    /\ UNCHANGED <<tables, faults, localVars, scan, manifest, missing, want>>

\* A request that goes on answering to a client that has gone away.
AbandonedOwned(h) ==
    \/ /\ req[h].stage = "row" /\ req[h].pos = 1 /\ req[h].reply = "none"
       /\ req' = [req EXCEPT ![h] = Free]
    \/ req' = req

\* What becomes of a request whose client no longer waits: it never arrived
\* whole, or it is handled to its end with nobody to answer.
Abandoned(h) ==
    \/ /\ req[h].stage = "row" /\ req[h].pos = 1 /\ req[h].reply = "none"
       /\ req' = [req EXCEPT ![h] = Free]
    \/ req' = [req EXCEPT ![h].owner = Nobody]

\* The 60 s timeout, a connection cut, an answer lost on the way.
TimeOut(a) ==
    /\ pc[a] = "await" /\ conn[a] # NoSlot
    /\ faults < MaxFaults
    /\ faults' = faults + 1
    /\ Abandoned(conn[a])
    /\ AttemptFailed(a)
    /\ UNCHANGED <<tables, localVars, scan, manifest, missing, want>>

\* The server's end of the connection went away.
ConnectionLost(a) ==
    /\ pc[a] = "await" /\ conn[a] = NoSlot
    /\ AttemptFailed(a)
    /\ UNCHANGED <<tables, req, faults, localVars, scan, manifest, missing, want>>

\* report.write, and the exit code: 1 if failed[a], 0 otherwise.
Finish(a) ==
    /\ pc[a] = "push"
    /\ queue[a] = <<>>
    /\ Exit(a)
    /\ UNCHANGED <<tables, req, faults, localVars>>

-------------------------------------------------------------------------------
(* Crashes. *)

\* The run is killed; a request of its own goes on without it.
AgentCrash(a) ==
    /\ pc[a] # "idle"
    /\ faults < MaxFaults
    /\ faults' = faults + 1
    /\ IF conn[a] = NoSlot THEN UNCHANGED req ELSE Abandoned(conn[a])
    /\ Exit(a)
    /\ UNCHANGED <<tables, localVars>>

\* The server dies between two statements of whatever it was handling, and is
\* started again.
ServerCrash ==
    /\ \E h \in Slots : req[h] # Free
    /\ faults < MaxFaults
    /\ faults' = faults + 1
    /\ req' = [h \in Slots |-> Free]
    /\ conn' = [a \in Agents |-> NoSlot]
    /\ UNCHANGED <<tables, localVars, pc, scan, manifest, missing,
                   queue, tries, failed, want>>

-------------------------------------------------------------------------------
RunStep(a) ==
    \/ NothingToDo(a) \/ Begin(a) \/ FetchManifest(a) \/ Diff(a) \/ DiffSummaries(a)
    \/ Send(a) \/ ReceiveCounts(a) \/ ReceiveError(a) \/ ConnectionLost(a)
    \/ Finish(a)

\* History: what the store has held of each session since a run's scan.
Track ==
    held' = [a \in Agents |-> [s \in Ids |->
        IF pc'[a] = "idle" THEN {}
        ELSE held[a][s] \cup ({sessions'[s]} \ {NoRow})]]

Step ==
    \/ \E m \in Homes, s \in Ids : EditTranscript(m, s) \/ EditAnalysis(m, s)
    \/ \E a \in Agents : RunStep(a) \/ ManifestFails(a) \/ TimeOut(a) \/ AgentCrash(a)
    \/ \E h \in Slots : HandlerStep(h) /\ UNCHANGED <<localVars, runVars>>
    \/ ServerCrash

Next == Step /\ Track

Spec == Init /\ [][Next]_vars

\* The handlers' goroutines run, a run that has begun goes on, and the timer
\* fires again after every run; failures and edits are never owed.
Fairness ==
    /\ \A a \in Agents : WF_vars(RunStep(a) /\ Track)
    /\ \A h \in Slots : WF_vars(HandlerStep(h) /\ UNCHANGED <<localVars, runVars>> /\ Track)

FairSpec == Spec /\ Fairness

-------------------------------------------------------------------------------
(* Properties. *)

BatchOK(kind, batch) == \A i \in DOMAIN batch :
    batch[i] \in IF kind = "sessions" THEN Item_ ELSE SummaryItem_

TypeOK ==
    /\ sessions \in [Ids -> Texts \cup {NoRow}]
    /\ files \in [Ids -> {Attached[t] : t \in Texts} \cup {NoFiles}]
    /\ summaries \in [Ids -> (Summaries \ TooLong) \cup {NoRow}]
    /\ faults \in 0..MaxFaults
    /\ edits \in 0..MaxEdits
    /\ \A a \in Agents :
          /\ pc[a] \in {"idle", "manifest", "diff", "summaries", "push", "await"}
          /\ pc[a] = "await" => tries[a] \in 1..MaxAttempts /\ queue[a] # <<>>
          /\ conn[a] # NoSlot => pc[a] = "await" /\ req[conn[a]].owner = a
          /\ \A i \in DOMAIN queue[a] : BatchOK(queue[a][i].kind, queue[a][i].items)
    /\ \A h \in Slots : req[h] # Free =>
          /\ BatchOK(req[h].kind, req[h].batch)
          /\ req[h].pos \in 1..(Len(req[h].batch) + 1)
          /\ req[h].owner # Nobody => conn[req[h].owner] = h

\* cli/README.md, exit code 0: "everything was ingested or already up to date".
\* Whatever was lost, retried, handled twice or overtaken on the way, a run
\* that ends with 0 saw the store hold, at some moment since its scan, what it
\* read of every session it did not have to give up as vanished.
ExitZeroMeansStored ==
    [][\A a \in Agents : Finish(a) /\ ~failed[a] =>
          \A s \in Seen(a) \ missing[a] : want[a][s] \in held[a][s]]_vars

Known(s) == s \notin UnknownSource

\* The store converges: once the files of a machine, the faults and the late
\* handlers are exhausted, the store holds every transcript that is left.
TranscriptsConverge ==
    \A m \in Homes, s \in Ids : Known(s) =>
        <>[](transcript[m][s] # Gone => sessions[s] = Coerced[transcript[m][s]])

\* So do the summaries, although a failure to store one that rides along a
\* push is only logged: the next run finds it missing from the manifest.
SummariesConverge ==
    \A m \in Homes, s \in Ids : Known(s) =>
        <>[](transcript[m][s] # Gone /\ analysis[m][s] \in Summaries \ TooLong
                => summaries[s] = analysis[m][s])

\* cli/README.md: "Running it again uploads nothing".  In the end the runs find
\* nothing to push, if no source is unknown to the server and no summary too
\* long for it.
EventuallyQuiet ==
    <>[](\A a \in Agents, s \in Ids :
            Known(s) /\ transcript[HomeOf[a]][s] # Gone /\ analysis[HomeOf[a]][s] \notin TooLong
               => \A i \in DOMAIN queue[a] : \A j \in DOMAIN queue[a][i].items :
                     queue[a][i].items[j].id # s)

\* README.md: the files a transcript attached are uploaded "along with the
\* session, so the preview works from any machine".
AttachmentsConverge ==
    \A m \in Homes, s \in Ids : Known(s) =>
        <>[](transcript[m][s] # Gone /\ Attached[Coerced[transcript[m][s]]] # NoFiles
                => files[s] = Attached[Coerced[transcript[m][s]]])
===============================================================================
