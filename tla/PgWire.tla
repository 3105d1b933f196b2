------------------------------- MODULE PgWire -------------------------------
(***************************************************************************)
(* The PostgreSQL driver (internal/pgdriver) under database/sql's pool,    *)
(* and what the store does over it: ReplaceForSession, a transaction that  *)
(* replaces the files of a session, Find, and the readiness probe, which   *)
(* has a deadline.  One session's files are modelled; a row is the         *)
(* operation that inserted it and the one that wrote it last.              *)
(*                                                                         *)
(* The client end of a connection is what pgConn keeps (bad, and what is   *)
(* still unread); database/sql hands connections out and takes them back.  *)
(* The server is PostgreSQL at READ COMMITTED: a statement sees the rows   *)
(* committed when it began, waits for rows another transaction has         *)
(* written, and then looks at the row again.                               *)
(***************************************************************************)
EXTENDS Naturals, Sequences, FiniteSets

CONSTANTS Callers,     \* goroutines of handlers
          Conns,       \* connections that can exist at a time
          Paths,       \* paths of attached files
          FileLists,   \* sequences of paths a transcript may attach
          MaxOps,      \* operations a caller starts
          MaxFaults,   \* connections that break, statements the server refuses
          MaxIdle      \* idle connections database/sql keeps

NoConn == 0
Earlier == <<0, 1>>                 \* the operation that stored what is there at the start

ASSUME PgWireAssumption ==
    /\ NoConn \notin Conns /\ Earlier[1] \notin Callers
    /\ IsFiniteSet(Paths)
    /\ \A f \in FileLists : f \in Seq(Paths) /\ \A i, j \in DOMAIN f : f[i] = f[j] => i = j
    /\ MaxOps \in Nat /\ MaxFaults \in Nat /\ MaxIdle \in Nat

NoRow == [ins |-> <<0, 0>>, by |-> <<0, 0>>]
Nothing == [p \in {} |-> NoRow]     \* the writes of a transaction that has none

VARIABLES call,     \* per caller: its operation and how far it is
          free,     \* idle connections of the pool
          conn,     \* client end: up, bad, cut
          req, ans, \* statements on their way to the server, and answers back
          sess,     \* server session: state, rows a DELETE still has to visit, writes
          rows,     \* the committed session_files
          last, committed,    \* history: the last commit and those before its BEGIN, and all commits
          sent, ran, reran, told,   \* history: statements sent, executed, executed again, reported
          faults

clientVars == <<call, free>>
wireVars == <<conn, req, ans>>
serverVars == <<sess, rows, last, committed, ran, reran>>
vars == <<call, free, conn, req, ans, sess, rows, last, committed, sent, ran, reran, told, faults>>

(***************************************************************************)
(* Operations.  A statement is named by its caller, the number of the      *)
(* operation and its place in it.                                          *)
(***************************************************************************)
Statement(kind) == [kind |-> kind, path |-> ""]
\* Mutant: what was there is not deleted.
Adding(files) ==
    << Statement("begin") >> \o [i \in 1..Len(files) |-> [kind |-> "upsert", path |-> files[i]]]
    \o << Statement("commit") >>
Replace(files) ==
    << Statement("begin"), Statement("delete") >>
    \o [i \in 1..Len(files) |-> [kind |-> "upsert", path |-> files[i]]]
    \o << Statement("commit") >>
Find(p) == << [kind |-> "select", path |-> p] >>
Readiness == << Statement("ping") >>
Operations == {Replace(f) : f \in FileLists} \cup {Find(p) : p \in Paths} \cup {Readiness}

FilesOf(stmts) == {stmts[i].path : i \in {j \in DOMAIN stmts : stmts[j].kind = "upsert"}}

OpId(k) == <<k, call[k].n>>
StmtId(k) == <<k, call[k].n, call[k].at>>
RollingBack == 0        \* the place of the deferred Rollback
Current(k) == IF call[k].at = RollingBack THEN Statement("rollback") ELSE call[k].stmts[call[k].at]
StmtIds == Callers \X (1..MaxOps) \X (0..(3 + Cardinality(Paths)))

IdleCall(n, result, files) ==
    [pc |-> "idle", n |-> n, stmts |-> <<>>, at |-> 1, c |-> NoConn, tries |-> 0,
     result |-> result, files |-> files]

ClosedConn == [up |-> FALSE, bad |-> FALSE, cut |-> FALSE]
OpenConn == [ClosedConn EXCEPT !.up = TRUE]
NoSession == [st |-> "none", todo |-> {}, started |-> FALSE,
              saw |-> {}, wrote |-> Nothing]
IdleSession == [NoSession EXCEPT !.st = "idle"]

PgInit ==
    /\ call = [k \in Callers |-> IdleCall(0, "none", {})]
    /\ free = {}
    /\ conn = [c \in Conns |-> ClosedConn]
    /\ req = [c \in Conns |-> <<>>]
    /\ ans = [c \in Conns |-> <<>>]
    /\ sess = [c \in Conns |-> NoSession]
    /\ last \in [id : {Earlier}, files : {{}, Paths}, saw : {{}}]
    /\ rows = [p \in Paths |-> IF p \in last.files THEN [ins |-> Earlier, by |-> Earlier] ELSE NoRow]
    /\ committed = {Earlier}
    /\ sent = {} /\ ran = {} /\ reran = {} /\ told = {}
    /\ faults = 0

-----------------------------------------------------------------------------
(***************************************************************************)
(* database/sql: handing out connections (conn, retry, putConn).           *)
(***************************************************************************)
Start(k) == \E op \in Operations :
    /\ call[k].pc = "idle" /\ call[k].n < MaxOps
    /\ call' = [call EXCEPT ![k] =
           [@ EXCEPT !.pc = "acquire", !.n = call[k].n + 1, !.stmts = op, !.at = 1, !.tries = 0,
                     !.result = "none", !.files = FilesOf(op)]]
    /\ UNCHANGED <<free, wireVars, serverVars, sent, told, faults>>

Use(k, c) == call' = [call EXCEPT ![k] = [@ EXCEPT !.pc = "send", !.c = c]]

\* An idle connection, or after two that turned out bad only a new one.
Checkout(k) == \E c \in free :
    /\ call[k].pc = "acquire" /\ call[k].tries < 2
    /\ free' = free \ {c}
    /\ Use(k, c)
    /\ UNCHANGED <<wireVars, serverVars, sent, told, faults>>

MustDial(k) == call[k].pc = "acquire" /\ (free = {} \/ call[k].tries >= 2)

Dial(k) == \E c \in Conns :
    /\ MustDial(k)
    /\ ~conn[c].up /\ sess[c].st = "none"
    /\ conn' = [conn EXCEPT ![c] = OpenConn]
    /\ sess' = [sess EXCEPT ![c] = IdleSession]
    /\ req' = [req EXCEPT ![c] = <<>>]
    /\ ans' = [ans EXCEPT ![c] = <<>>]
    /\ Use(k, c)
    /\ UNCHANGED <<free, rows, last, committed, ran, reran, sent, told, faults>>

\* The dial or the start-up fails, by its deadline or otherwise.
DialFails(k) ==
    /\ MustDial(k)
    /\ faults < MaxFaults
    /\ faults' = faults + 1
    /\ call' = [call EXCEPT ![k] = IdleCall(@.n, "error", @.files)]
    /\ UNCHANGED <<free, wireVars, serverVars, sent, told>>

\* A connection is given back, kept if there is room, even a bad one: only
\* ErrBadConn, which is returned at the next use, makes the pool drop it.
PutBack(c, cn) ==
    IF Cardinality(free) < MaxIdle
    THEN free' = free \cup {c} /\ conn' = cn
    ELSE free' = free /\ conn' = [cn EXCEPT ![c].up = FALSE]

-----------------------------------------------------------------------------
(***************************************************************************)
(* The driver: simpleQuery, in the two halves between which the server     *)
(* works, and what its callers do with its error.                          *)
(***************************************************************************)
\* The connection was found bad before anything was written: the first
\* statement of an operation is tried on another one.
SendOnBad(k) == LET c == call[k].c IN
    /\ call[k].pc = "send" /\ conn[c].bad
    /\ conn' = [conn EXCEPT ![c].up = FALSE]
    /\ call' = IF call[k].at = 1
               THEN [call EXCEPT ![k] = [@ EXCEPT !.pc = "acquire", !.c = NoConn, !.tries = call[k].tries + 1]]
               ELSE [call EXCEPT ![k] = IdleCall(@.n, "error", @.files)]
    /\ UNCHANGED <<free, req, ans, serverVars, sent, told, faults>>

Request(k) == [id |-> StmtId(k), kind |-> Current(k).kind, path |-> Current(k).path,
               files |-> call[k].files]

Send(k) == LET c == call[k].c IN
    /\ call[k].pc = "send" /\ ~conn[c].bad /\ ~conn[c].cut
    /\ req' = [req EXCEPT ![c] = Append(@, Request(k))]
    /\ call' = [call EXCEPT ![k].pc = "wait"]
    /\ sent' = sent \cup {StmtId(k)}
    /\ UNCHANGED <<free, conn, ans, serverVars, told, faults>>

\* What the caller is told when its operation fails: Find asks whether the
\* content is valid before it looks at the error.
ErrorResult(k) == IF Current(k).kind = "select" THEN "missing" ELSE "error"

\* Mutants of Fail: the deferred Rollback is missing; an error does not end
\* the reading of the answer.
FailWithoutRollback(k, cn) ==
    /\ call' = [call EXCEPT ![k] = IdleCall(@.n, ErrorResult(k), @.files)]
    /\ PutBack(call[k].c, cn)
FailReadsOn(k, cn) == UNCHANGED <<call, free>> /\ conn' = cn
\* Mutant of Fail: a first statement that failed on the wire is reported as
\* ErrBadConn, on which database/sql tries again.
FailAsBadConn(k, cn) ==
    IF call[k].at = 1
    THEN /\ call' = [call EXCEPT ![k] = [@ EXCEPT !.pc = "acquire", !.c = NoConn, !.tries = call[k].tries + 1]]
         /\ conn' = [cn EXCEPT ![call[k].c].up = FALSE] /\ UNCHANGED free
    ELSE FailWithoutRollback(k, cn)

\* A failed statement ends the operation.  A transaction is rolled back by
\* the deferred Rollback, unless BEGIN failed or Commit was called, which
\* ends it for database/sql whatever it returned.
Fail(k, cn) ==
    IF Current(k).kind \in {"delete", "upsert"}
    THEN /\ call' = [call EXCEPT ![k] = [@ EXCEPT !.pc = "send", !.at = RollingBack]]
         /\ conn' = cn
         /\ UNCHANGED free
    ELSE /\ call' = [call EXCEPT ![k] = IdleCall(@.n, ErrorResult(k), @.files)]
         /\ PutBack(call[k].c, cn)

Succeed(k, found) ==
    IF call[k].at # RollingBack /\ call[k].at < Len(call[k].stmts)
    THEN /\ call' = [call EXCEPT ![k] = [@ EXCEPT !.pc = "send", !.at = call[k].at + 1]]
         /\ UNCHANGED <<free, conn>>
    ELSE /\ call' = [call EXCEPT ![k] = IdleCall(@.n,
                         IF call[k].at = RollingBack THEN "error"
                         ELSE IF found THEN "ok" ELSE "missing", @.files)]
         /\ PutBack(call[k].c, conn)

\* Mutant: the connection stays in use after its answer was given up.
MarkNothing(c) == conn
MarkBad(c) == [conn EXCEPT ![c].bad = TRUE]

\* The answer is read up to ReadyForQuery.
Receive(k) == LET c == call[k].c IN
    /\ call[k].pc = "wait" /\ ans[c] # <<>>
    /\ ans' = [ans EXCEPT ![c] = Tail(@)]
    /\ IF Head(ans[c]).ok
       THEN Succeed(k, Head(ans[c]).found) /\ told' = told \cup {StmtId(k)}
       ELSE Fail(k, conn) /\ UNCHANGED told
    /\ UNCHANGED <<req, serverVars, sent, faults>>

\* Writing the request or reading the answer fails, because the connection
\* is cut or because the deadline of the readiness probe has passed while
\* the server is still at work.
IOError(k) == LET c == call[k].c IN
    /\ \/ call[k].pc = "send" /\ ~conn[c].bad /\ conn[c].cut
       \/ call[k].pc = "wait" /\ conn[c].cut /\ ans[c] = <<>>
       \/ call[k].pc = "wait" /\ Current(k).kind = "ping"
    /\ Fail(k, MarkBad(c))
    /\ UNCHANGED <<req, ans, serverVars, sent, told, faults>>

-----------------------------------------------------------------------------
(***************************************************************************)
(* The server (external).                                                  *)
(***************************************************************************)
LockedByOther(c, p) == \E d \in Conns \ {c} : p \in DOMAIN sess[d].wrote

\* The rows a transaction has written, with one more.
With(wrote, p, row) == [q \in DOMAIN wrote \cup {p} |-> IF q = p THEN row ELSE wrote[q]]

RowFor(c, p) == IF p \in DOMAIN sess[c].wrote THEN sess[c].wrote[p] ELSE rows[p]

Op(m) == <<m.id[1], m.id[2]>>

\* The statement at the head of a connection's stream is executed: the answer
\* is sent and it counts as run.
Answer(c, ok, found) ==
    /\ req' = [req EXCEPT ![c] = Tail(@)]
    /\ ans' = [ans EXCEPT ![c] = IF conn[c].cut \/ ~conn[c].up THEN @
                                 ELSE Append(@, [id |-> Head(req[c]).id, ok |-> ok, found |-> found])]
    /\ ran' = IF ok THEN ran \cup {Head(req[c]).id} ELSE ran
    /\ reran' = IF ok /\ Head(req[c]).id \in ran THEN reran \cup {Head(req[c]).id} ELSE reran

Executes(c, kind, states) ==
    req[c] # <<>> /\ Head(req[c]).kind = kind /\ sess[c].st \in states

ServerBegin(c) ==
    /\ Executes(c, "begin", {"idle", "tx"})
    /\ sess' = [sess EXCEPT ![c].st = "tx", ![c].saw = committed]
    /\ Answer(c, TRUE, TRUE)
    /\ UNCHANGED <<clientVars, conn, rows, last, committed, sent, told, faults>>

ServerRead(c) ==
    /\ Executes(c, "select", {"idle", "tx"}) \/ Executes(c, "ping", {"idle", "tx"})
    /\ Answer(c, TRUE, Head(req[c]).kind = "ping" \/ RowFor(c, Head(req[c]).path) # NoRow)
    /\ UNCHANGED <<clientVars, conn, sess, rows, last, committed, sent, told, faults>>

\* DELETE begins: the rows it will visit are those of its snapshot.
ServerDelete(c) ==
    /\ Executes(c, "delete", {"tx"}) /\ ~sess[c].started
    /\ sess' = [sess EXCEPT ![c].started = TRUE,
                            ![c].todo = {<<p, rows[p].ins>> : p \in {q \in Paths : rows[q] # NoRow}}]
    /\ UNCHANGED <<clientVars, wireVars, rows, last, committed, ran, reran, sent, told, faults>>

\* ... and it deletes each once no other transaction holds it, unless that
\* one has deleted it: a row inserted since is not in the snapshot.
DeleteRow(c) == \E t \in sess[c].todo : LET p == t[1] IN
    /\ sess[c].started /\ ~LockedByOther(c, p)
    /\ sess' = [sess EXCEPT ![c].todo = @ \ {t},
                            ![c].wrote = IF rows[p] # NoRow /\ rows[p].ins = t[2]
                                         THEN With(@, p, NoRow) ELSE @]
    /\ UNCHANGED <<clientVars, wireVars, rows, last, committed, ran, reran, sent, told, faults>>

DeleteDone(c) ==
    /\ Executes(c, "delete", {"tx"}) /\ sess[c].started /\ sess[c].todo = {}
    /\ sess' = [sess EXCEPT ![c].started = FALSE]
    /\ Answer(c, TRUE, TRUE)
    /\ UNCHANGED <<clientVars, conn, rows, last, committed, sent, told, faults>>

Written(row, op) == IF row = NoRow THEN [ins |-> op, by |-> op] ELSE [row EXCEPT !.by = op]

ServerUpsert(c) == LET m == Head(req[c]) IN
    /\ Executes(c, "upsert", {"tx"}) /\ ~LockedByOther(c, m.path)
    /\ sess' = [sess EXCEPT ![c].wrote = With(@, m.path, Written(RowFor(c, m.path), Op(m)))]
    /\ Answer(c, TRUE, TRUE)
    /\ UNCHANGED <<clientVars, conn, rows, last, committed, sent, told, faults>>

ServerCommit(c) == LET m == Head(req[c]) IN
    /\ Executes(c, "commit", {"tx"})
    /\ rows' = [p \in Paths |-> RowFor(c, p)]
    /\ last' = [id |-> Op(m), files |-> m.files, saw |-> sess[c].saw]
    /\ committed' = committed \cup {Op(m)}
    /\ sess' = [sess EXCEPT ![c] = IdleSession]
    /\ Answer(c, TRUE, TRUE)
    /\ UNCHANGED <<clientVars, conn, sent, told, faults>>

\* ROLLBACK; and COMMIT of a transaction that failed, which is answered alike.
ServerRollback(c) ==
    /\ Executes(c, "rollback", {"idle", "tx", "failed"}) \/ Executes(c, "commit", {"idle", "failed"})
    /\ sess' = [sess EXCEPT ![c] = IdleSession]
    /\ Answer(c, TRUE, TRUE)
    /\ UNCHANGED <<clientVars, conn, rows, last, committed, sent, told, faults>>

\* An error undoes the transaction; a block that is not at its end stays failed,
\* and what is sent in it next is the ROLLBACK (Fail).
Abort(c) ==
    /\ sess' = [sess EXCEPT ![c] = IF @.st = "idle" \/ Head(req[c]).kind = "commit"
                                   THEN IdleSession ELSE [NoSession EXCEPT !.st = "failed"]]
    /\ Answer(c, FALSE, FALSE)
    /\ UNCHANGED <<clientVars, conn, rows, last, committed, sent, told>>

\* The server refuses a statement (disk full, a shutdown, an encoding).
ServerRefuses(c) ==
    /\ req[c] # <<>> /\ sess[c].st \in {"idle", "tx"} /\ Head(req[c]).kind # "rollback"
    /\ faults < MaxFaults /\ faults' = faults + 1
    /\ Abort(c)

Wanted(c) ==
    IF req[c] = <<>> THEN {}
    ELSE IF Head(req[c]).kind = "upsert" /\ sess[c].st = "tx" THEN {Head(req[c]).path}
    ELSE {t[1] : t \in sess[c].todo}

WaitsFor(c, d) == c # d /\ Wanted(c) \cap DOMAIN sess[d].wrote # {}

\* A statement in a cycle of waits is the deadlock detector's victim.
Deadlocked(c) == \E d \in Conns : WaitsFor(c, d) /\ \/ WaitsFor(d, c)
                                                    \/ \E e \in Conns : WaitsFor(d, e) /\ WaitsFor(e, c)
DeadlockVictim(c) ==
    /\ req[c] # <<>> /\ Deadlocked(c)
    /\ Abort(c)
    /\ UNCHANGED faults

\* The server notices that a connection is gone; what it had begun is undone.
ServerEnds(c) ==
    /\ sess[c].st # "none" /\ (conn[c].cut \/ ~conn[c].up)
    /\ sess' = [sess EXCEPT ![c] = NoSession]
    /\ req' = [req EXCEPT ![c] = <<>>]
    /\ UNCHANGED <<clientVars, conn, ans, rows, last, committed, ran, reran, sent, told, faults>>

\* The network breaks a connection; an answer on its way may still arrive.
Break(c) == \E kept \in {ans[c], <<>>} :
    /\ conn[c].up /\ ~conn[c].cut
    /\ faults < MaxFaults /\ faults' = faults + 1
    /\ conn' = [conn EXCEPT ![c].cut = TRUE]
    /\ ans' = [ans EXCEPT ![c] = kept]
    /\ UNCHANGED <<clientVars, req, serverVars, sent, told>>

-----------------------------------------------------------------------------
CallerStep(k) == \/ Checkout(k) \/ Dial(k) \/ DialFails(k)
                 \/ SendOnBad(k) \/ Send(k) \/ Receive(k) \/ IOError(k)
Serve(c) == \/ ServerBegin(c) \/ ServerRead(c) \/ ServerDelete(c) \/ DeleteRow(c) \/ DeleteDone(c)
            \/ ServerUpsert(c) \/ ServerCommit(c) \/ ServerRollback(c)
            \/ DeadlockVictim(c) \/ ServerEnds(c)

PgNext == \/ \E k \in Callers : Start(k) \/ CallerStep(k)
          \/ \E c \in Conns : Serve(c) \/ ServerRefuses(c) \/ Break(c)

\* Goroutines are scheduled, the server works on what it is sent, and both
\* ends of a broken connection notice in the end (keep-alives).
PgFairness == /\ \A k \in Callers : WF_vars(CallerStep(k))
              /\ \A c \in Conns : WF_vars(Serve(c))

PgSpec == PgInit /\ [][PgNext]_vars /\ PgFairness

-----------------------------------------------------------------------------

\* A connection is lent to one caller at a time, for as long as its operation
\* takes, and what a caller reads next is the answer to its own statement: a
\* connection on which an answer was given up (IOError) never serves another
\* statement.
AnswersMatch == \A k \in Callers :
    /\ call[k].pc \in {"send", "wait"} <=> call[k].c # NoConn
    /\ call[k].c # NoConn => /\ call[k].c \notin free
                            /\ \A j \in Callers \ {k} : call[j].c # call[k].c
    /\ call[k].pc = "wait" /\ ans[call[k].c] # <<>> => Head(ans[call[k].c]).id = StmtId(k)

\* The pool keeps no more connections than it may, and one that will be used
\* as it is has no transaction open on the server and nothing in flight, so
\* that the next borrower's statement is not run inside another's transaction.
PoolIsClean ==
    /\ Cardinality(free) <= MaxIdle
    /\ \A c \in free : ~conn[c].bad /\ ~conn[c].cut =>
          sess[c].st = "idle" /\ req[c] = <<>> /\ ans[c] = <<>>

\* ReplaceForSession returns nil only if its transaction was committed, and
\* the files of the last commit are all there, as it wrote them: two
\* overlapping replacements, refusals and deadlocks leave no part of one.  The
\* files besides are those of a replacement that was not committed when the
\* last one began: what was there before it is gone.
ReplacedWhole ==
    /\ \A p \in last.files : rows[p].by = last.id
    /\ \A k \in Callers : call[k].result = "ok" /\ call[k].files # {} => OpId(k) \in committed
    /\ \A p \in Paths : rows[p] # NoRow => rows[p].by \in committed
    /\ \A p \in Paths \ last.files : rows[p] # NoRow => rows[p].by \notin last.saw

\* Every operation returns: no connection is lost to the pool, no row stays
\* locked, and no deadlock lasts.
OperationsReturn == \A k \in Callers : (call[k].pc # "idle") ~> (call[k].pc = "idle")

\* database/sql tries a statement again only if the driver has not sent it:
\* the connections, the pool and its retries implement AtMostOnce.
Once == INSTANCE AtMostOnce WITH
    Ids <- StmtIds,
    asked <- sent,
    runs <- [i \in StmtIds |-> IF i \in reran THEN 2 ELSE IF i \in ran THEN 1 ELSE 0],
    told <- told
StatementsRunOnce == Once!OnceSpec
=============================================================================
