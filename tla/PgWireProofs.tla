---------------------------- MODULE PgWireProofs ----------------------------
(***************************************************************************)
(* The driver and the pool, for any callers, connections, files and        *)
(* failures: an answer is read by the one who asked for it (AnswersMatch), *)
(* a connection is handed on clean (PoolIsClean), and no statement runs    *)
(* twice: the retries of database/sql implement AtMostOnce.                *)
(*                                                                         *)
(* ReplaceForSession over the driver, for the same (ReplacedWhole):        *)
(* success is reported only of what was committed, and a commit leaves     *)
(* exactly the files of its replacement among all those its transaction    *)
(* has seen.                                                               *)
(*                                                                         *)
(* WireIInv says of every connection whose it is and what is under way on  *)
(* it; OnceIInv says of every statement that was sent where it is.         *)
(* OpsIInv follows an operation from its statements under way to its       *)
(* commit; StoreIInv follows what its transaction has written and what its *)
(* DELETE has still to visit, up to the COMMIT.                            *)
(***************************************************************************)
EXTENDS PgWire, FiniteSetTheorems, SequenceTheorems, TLAPS

-------------------------------------------------------------------------------
(* The types. *)

Kinds == {"begin", "delete", "upsert", "commit", "select", "ping", "rollback"}
Stmt_ == {s \in [kind : Kinds, path : Paths \cup {""}] : s.kind = "upsert" => s.path \in Paths}
Op_ == (Callers \X (1..MaxOps)) \cup {Earlier, <<0, 0>>}
Row_ == [ins : Op_, by : Op_]
Write_ == UNION {[P -> Row_] : P \in SUBSET Paths}
Conn_ == [up : BOOLEAN, bad : BOOLEAN, cut : BOOLEAN]
Sess_ == [st : {"none", "idle", "tx", "failed"}, todo : SUBSET (Paths \X Op_),
          started : BOOLEAN, saw : SUBSET Op_, wrote : Write_]
Msg_ == {m \in [id : StmtIds, kind : Kinds, path : Paths \cup {""}, files : SUBSET Paths] :
             m.kind = "upsert" => m.path \in Paths}
Ans_ == [id : StmtIds, ok : BOOLEAN, found : BOOLEAN]

\* An operation is one statement, or a transaction.
Shape(stmts) ==
    /\ Len(stmts) <= 3 + Cardinality(Paths)
    /\ \/ Len(stmts) = 1 /\ stmts[1].kind \in {"select", "ping"}
       \/ /\ Len(stmts) >= 3 /\ stmts[1].kind = "begin" /\ stmts[2].kind = "delete"
          /\ \A i \in 3..(Len(stmts) - 1) : stmts[i].kind = "upsert"
          /\ stmts[Len(stmts)].kind = "commit"

\* Where an operation is.
Going(v) ==
    /\ v.pc # "idle" =>
          /\ v.n >= 1 /\ Shape(v.stmts) /\ v.at <= Len(v.stmts)
          /\ v.files = FilesOf(v.stmts)
          /\ v.at = RollingBack => Len(v.stmts) # 1
    /\ v.pc = "acquire" => v.at = 1
    /\ v.pc \in {"send", "wait"} <=> v.c # NoConn

Fields == [pc : {"idle", "acquire", "send", "wait"}, n : 0..MaxOps, stmts : Seq(Stmt_),
           at : Nat, c : Conns \cup {NoConn}, tries : Nat,
           result : {"none", "ok", "missing", "error"}, files : SUBSET Paths]
Call_ == {v \in Fields : Going(v)}

-------------------------------------------------------------------------------
(* Operations and their statements. *)

\* A queue of one message.
LEMMA OneMessage ==
    ASSUME NEW m
    PROVE  Head(<<m>>) = m /\ Tail(<<m>>) = <<>> /\ <<m>> # <<>> /\ Append(<<>>, m) = <<m>>
OBVIOUS

\* Three sequences one after the other.
LEMMA ThreeParts ==
    ASSUME NEW S, NEW A \in Seq(S), NEW B \in Seq(S), NEW C \in Seq(S)
    PROVE  /\ A \o B \o C \in Seq(S) /\ Len(A \o B \o C) = Len(A) + Len(B) + Len(C)
           /\ \A i \in 1..(Len(A) + Len(B) + Len(C)) : (A \o B \o C)[i] =
                 IF i <= Len(A) THEN A[i] ELSE IF i <= Len(A) + Len(B) THEN B[i - Len(A)]
                 ELSE C[i - (Len(A) + Len(B))]
<1>1. Len(A) \in Nat /\ Len(B) \in Nat /\ Len(C) \in Nat
  OBVIOUS
<1>2. A \o B \in Seq(S) /\ Len(A \o B) = Len(A) + Len(B)
      /\ \A i \in 1..(Len(A) + Len(B)) : (A \o B)[i] = IF i <= Len(A) THEN A[i] ELSE B[i - Len(A)]
  BY ConcatProperties
<1>3. \A D \in Seq(S) : D \o C \in Seq(S) /\ Len(D \o C) = Len(D) + Len(C)
      /\ \A i \in 1..(Len(D) + Len(C)) : (D \o C)[i] = IF i <= Len(D) THEN D[i] ELSE C[i - Len(D)]
  BY ConcatProperties
<1> QED BY <1>1, <1>2, <1>3

\* A list of files has each path once, so it is no longer than there are paths.
LEMMA FilesFit ==
    ASSUME NEW f \in FileLists
    PROVE  f \in Seq(Paths) /\ Len(f) \in Nat /\ Len(f) <= Cardinality(Paths)
           /\ Cardinality(Paths) \in Nat
<1>1. f \in Seq(Paths) /\ (\A i, j \in DOMAIN f : f[i] = f[j] => i = j) /\ IsFiniteSet(Paths)
  BY PgWireAssumption
<1>2. Len(f) \in Nat /\ DOMAIN f = 1..Len(f) /\ f \in [1..Len(f) -> Paths]
  BY <1>1, LenProperties
<1>3. f \in Injection(1..Len(f), Paths)
  BY <1>1, <1>2 DEF Injection, IsInjective
<1>4. Cardinality(1..Len(f)) <= Cardinality(Paths)
  BY <1>1, <1>3, FS_Injection
<1>5. Cardinality(1..Len(f)) = Len(f)
  BY <1>2, FS_Interval
<1>6. Cardinality(Paths) \in Nat
  BY <1>1, FS_CardinalityType
<1> QED BY <1>1, <1>2, <1>4, <1>5, <1>6

\* ReplaceForSession is BEGIN, DELETE, its upserts and COMMIT.
LEMMA ReplaceShape ==
    ASSUME NEW f \in FileLists
    PROVE  Replace(f) \in Seq(Stmt_) /\ Shape(Replace(f))
<1> DEFINE A == << Statement("begin"), Statement("delete") >>
           B == [i \in 1..Len(f) |-> [kind |-> "upsert", path |-> f[i]]]
           C == << Statement("commit") >>
<1>1. Len(f) \in Nat /\ Len(f) <= Cardinality(Paths) /\ Cardinality(Paths) \in Nat
      /\ f \in [1..Len(f) -> Paths]
  BY FilesFit, LenProperties
<1>2. /\ Statement("begin") \in Stmt_ /\ Statement("delete") \in Stmt_ /\ Statement("commit") \in Stmt_
      /\ Statement("begin").kind = "begin" /\ Statement("delete").kind = "delete"
      /\ Statement("commit").kind = "commit"
  BY DEF Statement, Stmt_, Kinds
<1>3. A \in Seq(Stmt_) /\ Len(A) = 2 /\ A[1] = Statement("begin") /\ A[2] = Statement("delete")
  BY <1>2
<1>4. C \in Seq(Stmt_) /\ Len(C) = 1 /\ C[1] = Statement("commit")
  BY <1>2
<1>5. B \in Seq(Stmt_) /\ Len(B) = Len(f) /\ \A i \in 1..Len(f) : B[i].kind = "upsert"
  <2>1. \A i \in 1..Len(f) : [kind |-> "upsert", path |-> f[i]] \in Stmt_
    BY <1>1 DEF Stmt_, Kinds
  <2>2. B \in [1..Len(f) -> Stmt_]
    BY <2>1
  <2>3. B \in Seq(Stmt_)
    BY <1>1, <2>2, SeqDef
  <2> QED BY <1>1, <2>3, LenProperties
<1> HIDE DEF A, B, C
<1>6. A \o B \o C \in Seq(Stmt_) /\ Len(A \o B \o C) = Len(A) + Len(B) + Len(C)
      /\ \A i \in 1..(Len(A) + Len(B) + Len(C)) : (A \o B \o C)[i] =
            IF i <= Len(A) THEN A[i] ELSE IF i <= Len(A) + Len(B) THEN B[i - Len(A)]
            ELSE C[i - (Len(A) + Len(B))]
  <2>1. A \in Seq(Stmt_) /\ B \in Seq(Stmt_) /\ C \in Seq(Stmt_)
    BY <1>3, <1>4, <1>5
  <2> QED BY ONLY <2>1, ThreeParts
<1> DEFINE E == A \o B \o C
<1>7. E \in Seq(Stmt_) /\ Replace(f) = E
  BY <1>6 DEF Replace, A, B, C
<1>8. Len(A) + Len(B) + Len(C) = 3 + Len(f) /\ Len(A) + Len(B) = 2 + Len(f) /\ Len(A) = 2
  BY <1>1, <1>3, <1>4, <1>5
<1>9. Len(E) = 3 + Len(f) /\ \A i \in 1..(3 + Len(f)) : E[i] =
            IF i <= 2 THEN A[i] ELSE IF i <= 2 + Len(f) THEN B[i - 2] ELSE C[i - (2 + Len(f))]
  BY ONLY <1>6, <1>8
<1> HIDE DEF E
<1>12. E[1].kind = "begin" /\ E[2].kind = "delete"
  BY <1>1, <1>2, <1>3, <1>9
<1>13. \A i \in 3..(2 + Len(f)) : E[i].kind = "upsert"
  <2> TAKE i \in 3..(2 + Len(f))
  <2>1. i \in 1..(2 + Len(f)) /\ i \in 1..(3 + Len(f)) /\ ~(i <= 2) /\ i <= 2 + Len(f) /\ i - 2 \in 1..Len(f)
    BY <1>1
  <2>2. E[i] = B[i - 2]
    BY <2>1, <1>9
  <2> QED BY <2>1, <2>2, <1>5
<1>14. E[3 + Len(f)].kind = "commit"
  <2>1. 3 + Len(f) \in 1..(3 + Len(f)) /\ ~(3 + Len(f) <= 2 + Len(f)) /\ (3 + Len(f)) - (2 + Len(f)) = 1
    BY <1>1
  <2> QED BY <2>1, <1>2, <1>4, <1>9
<1>15. (3 + Len(f)) - 1 = 2 + Len(f) /\ 3 + Len(f) >= 3 /\ 3 + Len(f) <= 3 + Cardinality(Paths)
  BY <1>1
<1>16. Shape(E)
  BY <1>9, <1>12, <1>13, <1>14, <1>15 DEF Shape
<1> QED BY <1>7, <1>16

\* What a caller may start.
LEMMA OperationsTyped ==
    ASSUME NEW op \in Operations
    PROVE  op \in Seq(Stmt_) /\ Shape(op) /\ Len(op) >= 1 /\ FilesOf(op) \in SUBSET Paths
<1>0. Cardinality(Paths) \in Nat
  BY PgWireAssumption, FS_CardinalityType
<1>1. op \in Seq(Stmt_) /\ Shape(op)
  <2>1. CASE \E f \in FileLists : op = Replace(f)
    BY <2>1, ReplaceShape
  <2>2. CASE \E p \in Paths : op = Find(p)
    <3>1. PICK p \in Paths : op = <<[kind |-> "select", path |-> p]>>
      BY <2>2 DEF Find
    <3>2. [kind |-> "select", path |-> p] \in Stmt_
      BY DEF Stmt_, Kinds
    <3>3. op \in Seq(Stmt_) /\ Len(op) = 1 /\ op[1].kind = "select"
      BY <3>1, <3>2
    <3> QED BY <3>3, <1>0 DEF Shape
  <2>3. CASE op = Readiness
    <3>1. Statement("ping") \in Stmt_ /\ Statement("ping").kind = "ping"
      BY DEF Stmt_, Kinds, Statement
    <3>2. op \in Seq(Stmt_) /\ Len(op) = 1 /\ op[1].kind = "ping"
      BY <2>3, <3>1 DEF Readiness
    <3> QED BY <3>2, <1>0 DEF Shape
  <2> QED BY <2>1, <2>2, <2>3 DEF Operations
<1>2. Len(op) \in Nat /\ DOMAIN op = 1..Len(op) /\ \A i \in 1..Len(op) : op[i] \in Stmt_
  BY <1>1, LenProperties, ElementOfSeq
<1>3. Len(op) >= 1
  BY <1>1, <1>2 DEF Shape
<1>4. FilesOf(op) \in SUBSET Paths
  BY <1>2 DEF FilesOf, Stmt_
<1> QED BY <1>1, <1>3, <1>4

\* A caller that is back, whatever came of its operation.
LEMMA IdleTyped ==
    ASSUME NEW n \in 0..MaxOps, NEW r \in {"none", "ok", "missing", "error"},
           NEW f \in SUBSET Paths
    PROVE  IdleCall(n, r, f) \in Call_
<1>1. <<>> \in Seq(Stmt_)
  OBVIOUS
<1> QED BY <1>1 DEF IdleCall, Call_, Fields, Going

\* The fields of a caller's record.
LEMMA CallTyped ==
    ASSUME NEW v \in Call_
    PROVE  /\ v.pc \in {"idle", "acquire", "send", "wait"} /\ v.n \in 0..MaxOps
           /\ v.stmts \in Seq(Stmt_) /\ v.at \in Nat /\ v.c \in Conns \cup {NoConn}
           /\ v.tries \in Nat /\ v.result \in {"none", "ok", "missing", "error"}
           /\ v.files \in SUBSET Paths /\ Going(v)
           /\ Len(v.stmts) \in Nat /\ Cardinality(Paths) \in Nat
           /\ v.pc \in {"send", "wait"} => v.c \in Conns
<1>1. Len(v.stmts) \in Nat
  BY LenProperties DEF Call_, Fields
<1>2. Cardinality(Paths) \in Nat
  BY PgWireAssumption, FS_CardinalityType
<1> QED BY <1>1, <1>2 DEF Call_, Fields, Going

\* The current statement of a caller.
LEMMA CurrentTyped ==
    ASSUME call \in [Callers -> Call_], NEW k \in Callers, call[k].pc # "idle"
    PROVE  /\ Current(k) \in Stmt_
           /\ StmtId(k) \in StmtIds
           /\ Request(k) \in Msg_
           /\ call[k].at \in 0..Len(call[k].stmts)
<1>1. call[k] \in Call_
  OBVIOUS
<1>2. /\ call[k].n \in 1..MaxOps /\ call[k].stmts \in Seq(Stmt_) /\ Shape(call[k].stmts)
      /\ call[k].at \in Nat /\ call[k].at <= Len(call[k].stmts) /\ call[k].files \in SUBSET Paths
      /\ Len(call[k].stmts) \in Nat /\ Cardinality(Paths) \in Nat
  BY <1>1, CallTyped, PgWireAssumption DEF Going
<1>3. Len(call[k].stmts) <= 3 + Cardinality(Paths)
  BY <1>2 DEF Shape
<1>4. call[k].at \in 0..Len(call[k].stmts) /\ call[k].at \in 0..(3 + Cardinality(Paths))
  BY <1>2, <1>3
<1>5. StmtId(k) \in StmtIds
  BY <1>2, <1>4 DEF StmtId, StmtIds
<1>6. Current(k) \in Stmt_
  <2>1. CASE call[k].at = RollingBack
    BY <2>1 DEF Current, Statement, Stmt_, Kinds
  <2>2. CASE call[k].at # RollingBack
    <3>1. call[k].at \in 1..Len(call[k].stmts)
      BY <2>2, <1>2 DEF RollingBack
    <3>2. call[k].stmts[call[k].at] \in Stmt_
      BY <3>1, <1>2, ElementOfSeq
    <3> QED BY <2>2, <3>2 DEF Current
  <2> QED BY <2>1, <2>2
<1>7. Request(k) \in Msg_
  BY <1>2, <1>5, <1>6 DEF Request, Msg_, Stmt_
<1> QED BY <1>4, <1>5, <1>6, <1>7

\* What a statement is says where in its operation it is.
LEMMA PlaceOfKind ==
    ASSUME call \in [Callers -> Call_], NEW k \in Callers, call[k].pc # "idle"
    PROVE  /\ Current(k).kind = "rollback" <=> call[k].at = RollingBack
           /\ Current(k).kind \in {"begin", "select", "ping"} <=> call[k].at = 1
           /\ Current(k).kind = "begin" => Len(call[k].stmts) >= 3
           /\ Current(k).kind \in {"select", "ping"} => Len(call[k].stmts) = 1
           /\ Current(k).kind \in {"delete", "upsert", "commit"} <=> call[k].at >= 2
           /\ Current(k).kind \in {"delete", "upsert"} => call[k].at < Len(call[k].stmts)
           /\ Current(k).kind = "commit" => call[k].at = Len(call[k].stmts)
<1>1. /\ Shape(call[k].stmts) /\ call[k].at \in 0..Len(call[k].stmts)
      /\ Len(call[k].stmts) \in Nat
  BY CallTyped, CurrentTyped DEF Going
<1>2. CASE call[k].at = RollingBack
  BY <1>2 DEF Current, Statement, RollingBack
<1>3. CASE call[k].at # RollingBack
  <2>1. Current(k) = call[k].stmts[call[k].at] /\ call[k].at \in 1..Len(call[k].stmts)
    BY <1>1, <1>3 DEF Current, RollingBack
  <2>2. CASE Len(call[k].stmts) = 1 /\ call[k].stmts[1].kind \in {"select", "ping"}
    BY <2>1, <2>2 DEF RollingBack
  <2>3. CASE /\ Len(call[k].stmts) >= 3 /\ call[k].stmts[1].kind = "begin"
             /\ call[k].stmts[2].kind = "delete"
             /\ \A i \in 3..(Len(call[k].stmts) - 1) : call[k].stmts[i].kind = "upsert"
             /\ call[k].stmts[Len(call[k].stmts)].kind = "commit"
    <3>1. \/ call[k].at = 1 \/ call[k].at = 2 \/ call[k].at \in 3..(Len(call[k].stmts) - 1)
          \/ call[k].at = Len(call[k].stmts)
      BY <1>1, <2>1
    <3> QED BY <1>1, <2>1, <2>3, <3>1 DEF RollingBack
  <2> QED BY <1>1, <2>2, <2>3 DEF Shape
<1> QED BY <1>2, <1>3

-------------------------------------------------------------------------------
(* Typed is inductive. *)

CallsTyped ==
    /\ call \in [Callers -> Call_]
    /\ free \in SUBSET Conns /\ IsFiniteSet(free) /\ Cardinality(free) <= MaxIdle
    /\ conn \in [Conns -> Conn_]
WireTyped == req \in [Conns -> Seq(Msg_)] /\ ans \in [Conns -> Seq(Ans_)]
StoreTyped ==
    /\ sess \in [Conns -> Sess_]
    /\ rows \in [Paths -> Row_]
    /\ last \in [id : Op_, files : SUBSET Paths, saw : SUBSET Op_]
    /\ committed \in SUBSET Op_

\* The sessions without a transaction.
LEMMA IdleSessionTyped ==
    /\ NoSession \in Sess_ /\ IdleSession \in Sess_ /\ [NoSession EXCEPT !.st = "failed"] \in Sess_
    /\ DOMAIN Nothing = {}
    /\ IdleSession.st = "idle" /\ IdleSession.started = FALSE /\ IdleSession.todo = {}
    /\ IdleSession.wrote = Nothing
<1>1. Nothing \in [{} -> Row_] /\ DOMAIN Nothing = {}
  BY DEF Nothing
<1>2. Nothing \in Write_
  BY <1>1 DEF Write_
<1> HIDE DEF Nothing
<1> QED BY <1>1, <1>2 DEF NoSession, IdleSession, Sess_

\* A connection that is given back is kept, up to MaxIdle, or closed.
LEMMA PutBackTyped ==
    ASSUME CallsTyped, NEW c \in Conns, NEW cn \in [Conns -> Conn_], PutBack(c, cn)
    PROVE  /\ free' \in SUBSET Conns /\ IsFiniteSet(free') /\ Cardinality(free') <= MaxIdle
           /\ conn' \in [Conns -> Conn_]
<1>1. CASE Cardinality(free) < MaxIdle
  <2>1. free' = free \cup {c} /\ conn' = cn
    BY <1>1 DEF PutBack
  <2>2. IsFiniteSet(free \cup {c}) /\ Cardinality(free) \in Nat
        /\ Cardinality(free \cup {c}) = IF c \in free THEN Cardinality(free) ELSE Cardinality(free) + 1
    BY FS_AddElement, FS_CardinalityType DEF CallsTyped
  <2>3. Cardinality(free \cup {c}) <= MaxIdle
    BY <1>1, <2>2, PgWireAssumption
  <2> QED BY <2>1, <2>2, <2>3 DEF CallsTyped
<1>2. CASE ~(Cardinality(free) < MaxIdle)
  <2>1. free' = free /\ conn' = [cn EXCEPT ![c].up = FALSE]
    BY <1>2 DEF PutBack
  <2> QED BY <2>1 DEF CallsTyped, Conn_
<1> QED BY <1>1, <1>2

\* Types: a caller begins an operation.
LEMMA StartTyped ==
    ASSUME CallsTyped, NEW k \in Callers, Start(k)
    PROVE  CallsTyped'
<1>1. PICK op \in Operations :
        /\ call[k].pc = "idle" /\ call[k].n < MaxOps
        /\ call' = [call EXCEPT ![k] =
             [call[k] EXCEPT !.pc = "acquire", !.n = call[k].n + 1, !.stmts = op, !.at = 1, !.tries = 0,
                       !.result = "none", !.files = FilesOf(op)]]
        /\ free' = free /\ conn' = conn
  BY DEF Start, wireVars
<1> DEFINE v == [call[k] EXCEPT !.pc = "acquire", !.n = call[k].n + 1, !.stmts = op, !.at = 1, !.tries = 0,
                       !.result = "none", !.files = FilesOf(op)]
<1>2. call[k] \in Call_ /\ MaxOps \in Nat
  BY PgWireAssumption DEF CallsTyped
<1>3. op \in Seq(Stmt_) /\ Shape(op) /\ Len(op) >= 1 /\ FilesOf(op) \in SUBSET Paths /\ Len(op) \in Nat
  BY OperationsTyped, LenProperties
<1>4. call[k].n + 1 \in 0..MaxOps /\ call[k].n + 1 >= 1
  BY <1>1, <1>2, CallTyped
<1>5. call[k].c = NoConn
  BY <1>1, <1>2, CallTyped DEF Going
<1>6. v.pc = "acquire" /\ v.n = call[k].n + 1 /\ v.stmts = op /\ v.at = 1 /\ v.c = NoConn
      /\ v.files = FilesOf(op)
      /\ v \in Fields
  BY <1>2, <1>3, <1>4, <1>5 DEF Call_, Fields
<1>7. call' = [call EXCEPT ![k] = v]
  BY <1>1, Zenon
<1> HIDE DEF v
<1>8. Going(v)
  BY <1>3, <1>4, <1>6 DEF Going, RollingBack
<1>9. v \in Call_
  BY <1>6, <1>8 DEF Call_
<1> QED BY <1>1, <1>7, <1>9 DEF CallsTyped

\* A caller that goes on: its place in its operation, and its connection.
LEMMA GoesOn ==
    ASSUME NEW v \in Call_, NEW w \in Fields, v.pc # "idle", w.pc # "idle",
           w.n = v.n, w.stmts = v.stmts, w.files = v.files,
           w.at <= Len(v.stmts), w.at = RollingBack => Len(v.stmts) # 1,
           w.pc = "acquire" => w.at = 1, w.pc = "acquire" <=> w.c = NoConn
    PROVE  w \in Call_
<1>1. Going(v) /\ w.pc \in {"idle", "acquire", "send", "wait"}
  BY CallTyped DEF Fields
<1>2. Going(w)
  BY <1>1 DEF Going
<1> QED BY <1>2 DEF Call_

\* Types: a caller takes a connection.
LEMMA UseTyped ==
    ASSUME call \in [Callers -> Call_], NEW k \in Callers, NEW c \in Conns,
           call[k].pc = "acquire", Use(k, c)
    PROVE  call' \in [Callers -> Call_]
<1> DEFINE v == call[k]
           w == [v EXCEPT !.pc = "send", !.c = c]
<1>1. v \in Call_ /\ v \in Fields /\ v.at <= Len(v.stmts) /\ v.at = 1 /\ v.pc = "acquire"
  BY CallTyped DEF Going, Call_
<1>2. w \in Fields /\ w.pc = "send" /\ w.n = v.n /\ w.stmts = v.stmts /\ w.files = v.files
      /\ w.at = v.at /\ w.c = c /\ c # NoConn
  BY <1>1, PgWireAssumption DEF Fields
<1>3. call' = [call EXCEPT ![k] = w]
  BY DEF Use
<1> HIDE DEF v, w
<1>4. w \in Call_
  BY <1>1, <1>2, GoesOn DEF RollingBack
<1> QED BY <1>3, <1>4

\* Types: a caller's operation returns.
LEMMA EndsTyped ==
    ASSUME call \in [Callers -> Call_], NEW k \in Callers,
           NEW r \in {"none", "ok", "missing", "error"},
           call' = [call EXCEPT ![k] = IdleCall(call[k].n, r, call[k].files)]
    PROVE  call' \in [Callers -> Call_]
<1>1. IdleCall(call[k].n, r, call[k].files) \in Call_
  BY IdleTyped, CallTyped
<1> QED BY <1>1

\* Types: a statement failed.
LEMMA FailTyped ==
    ASSUME CallsTyped, NEW k \in Callers, call[k].pc \in {"send", "wait"},
           NEW cn \in [Conns -> Conn_], Fail(k, cn)
    PROVE  CallsTyped'
<1> DEFINE v == call[k]
           w == [v EXCEPT !.pc = "send", !.at = RollingBack]
<1>1. /\ v \in Call_ /\ v \in Fields /\ v.pc \in {"send", "wait"} /\ v.c \in Conns /\ v.c # NoConn
      /\ Len(v.stmts) \in Nat /\ v.at \in Nat /\ call \in [Callers -> Call_]
  BY CallTyped DEF Going, Call_, CallsTyped
<1>2. CASE Current(k).kind \in {"delete", "upsert"}
  <2>1. call' = [call EXCEPT ![k] = w] /\ conn' = cn /\ free' = free
    BY <1>2 DEF Fail
  <2>2. Len(v.stmts) # 1
    <3>1. call[k].pc # "idle"
      BY <1>1
    <3>2. call[k].at >= 2 /\ call[k].at < Len(call[k].stmts)
      BY <1>1, <1>2, <3>1, PlaceOfKind
    <3>3. Len(call[k].stmts) \in Nat /\ call[k].at \in Nat
      BY <1>1
    <3>4. \A a, n \in Nat : a >= 2 /\ a < n => n # 1
      OBVIOUS
    <3>5. Len(call[k].stmts) # 1
      BY ONLY <3>2, <3>3, <3>4
    <3> QED BY <3>5
  <2>3. w \in Fields /\ w.pc = "send" /\ w.n = v.n /\ w.stmts = v.stmts /\ w.files = v.files
        /\ w.at = RollingBack /\ w.c = v.c
    BY <1>1 DEF Fields, RollingBack
  <2> HIDE DEF v, w
  <2>4. RollingBack <= Len(v.stmts) /\ RollingBack # 1
    BY <1>1 DEF RollingBack
  <2>5. w \in Call_
    BY <1>1, <2>2, <2>3, <2>4, GoesOn
  <2> QED BY <2>1, <2>5 DEF CallsTyped
<1>3. CASE ~(Current(k).kind \in {"delete", "upsert"})
  <2>1. /\ call' = [call EXCEPT ![k] = IdleCall(call[k].n, ErrorResult(k), call[k].files)]
        /\ PutBack(call[k].c, cn)
    BY <1>3 DEF Fail
  <2>2. ErrorResult(k) \in {"none", "ok", "missing", "error"}
    BY DEF ErrorResult
  <2>3. call' \in [Callers -> Call_]
    BY <1>1, <2>1, <2>2, EndsTyped
  <2> QED BY <1>1, <2>1, <2>3, PutBackTyped DEF CallsTyped
<1> QED BY <1>2, <1>3

\* Types: a statement succeeded.
LEMMA SucceedTyped ==
    ASSUME CallsTyped, NEW k \in Callers, call[k].pc \in {"send", "wait"},
           NEW found, Succeed(k, found)
    PROVE  CallsTyped'
<1> DEFINE v == call[k]
           w == [v EXCEPT !.pc = "send", !.at = call[k].at + 1]
<1>1. /\ v \in Call_ /\ v \in Fields /\ v.pc \in {"send", "wait"} /\ v.c \in Conns /\ v.c # NoConn
      /\ Len(v.stmts) \in Nat /\ v.at \in Nat /\ call \in [Callers -> Call_]
      /\ conn \in [Conns -> Conn_]
  BY CallTyped DEF Going, Call_, CallsTyped
<1>2. CASE call[k].at # RollingBack /\ call[k].at < Len(call[k].stmts)
  <2>1. call' = [call EXCEPT ![k] = w] /\ conn' = conn /\ free' = free
    BY <1>2 DEF Succeed
  <2>2. w \in Fields /\ w.pc = "send" /\ w.n = v.n /\ w.stmts = v.stmts /\ w.files = v.files
        /\ w.at = v.at + 1 /\ w.c = v.c
    <3> DEFINE next == call[k].at + 1
    <3>1. next \in Nat
      BY <1>1
    <3> HIDE DEF next
    <3>2. [v EXCEPT !.pc = "send", !.at = next] \in Fields
      BY <1>1, <3>1 DEF Fields
    <3>3. w = [v EXCEPT !.pc = "send", !.at = next]
      BY DEF next
    <3> QED BY <1>1, <3>2, <3>3 DEF Fields, next
  <2>3. v.at < Len(v.stmts)
    BY <1>2
  <2> HIDE DEF v, w
  <2>4. w.at <= Len(v.stmts) /\ w.at # RollingBack
    BY <1>1, <2>2, <2>3 DEF RollingBack
  <2>5. w \in Call_
    BY <1>1, <2>2, <2>4, GoesOn
  <2> QED BY <2>1, <2>5 DEF CallsTyped
<1>3. CASE ~(call[k].at # RollingBack /\ call[k].at < Len(call[k].stmts))
  <2> DEFINE r == IF call[k].at = RollingBack THEN "error" ELSE IF found THEN "ok" ELSE "missing"
  <2>1. /\ call' = [call EXCEPT ![k] = IdleCall(call[k].n, r, call[k].files)]
        /\ PutBack(call[k].c, conn)
    BY <1>3 DEF Succeed
  <2>2. r \in {"none", "ok", "missing", "error"}
    OBVIOUS
  <2> HIDE DEF r
  <2>3. call' \in [Callers -> Call_]
    BY <1>1, <2>1, <2>2, EndsTyped
  <2> QED BY <1>1, <2>1, <2>3, PutBackTyped DEF CallsTyped
<1> QED BY <1>2, <1>3

\* What a caller does keeps the types of the client's side.
LEMMA CallerTyped ==
    ASSUME CallsTyped, WireTyped, StoreTyped, NEW k \in Callers, Start(k) \/ CallerStep(k)
    PROVE  CallsTyped' /\ WireTyped' /\ StoreTyped'
<1>0. call \in [Callers -> Call_] /\ conn \in [Conns -> Conn_] /\ call[k] \in Call_
  BY DEF CallsTyped
<1>1. CASE Start(k)
  <2>1. UNCHANGED <<req, ans, sess, rows, last, committed>>
    BY <1>1 DEF Start, wireVars, serverVars
  <2> QED BY <1>1, <2>1, StartTyped DEF WireTyped, StoreTyped
<1>2. CASE Checkout(k)
  <2>1. PICK c \in free : /\ call[k].pc = "acquire" /\ free' = free \ {c} /\ Use(k, c)
                          /\ UNCHANGED <<conn, req, ans, sess, rows, last, committed>>
    BY <1>2 DEF Checkout, wireVars, serverVars
  <2>2. call' \in [Callers -> Call_]
    BY <1>0, <2>1, UseTyped DEF CallsTyped
  <2>3. IsFiniteSet(free \ {c}) /\ Cardinality(free \ {c}) <= Cardinality(free)
        /\ Cardinality(free) \in Nat /\ Cardinality(free \ {c}) \in Nat
    BY FS_Subset, FS_CardinalityType DEF CallsTyped
  <2>4. Cardinality(free \ {c}) <= MaxIdle
    BY <2>3, PgWireAssumption DEF CallsTyped
  <2> QED BY <2>1, <2>2, <2>3, <2>4 DEF CallsTyped, WireTyped, StoreTyped
<1>3. CASE Dial(k)
  <2>1. PICK c \in Conns : /\ call[k].pc = "acquire" /\ Use(k, c) /\ free' = free
                           /\ conn' = [conn EXCEPT ![c] = OpenConn]
                           /\ sess' = [sess EXCEPT ![c] = IdleSession]
                           /\ req' = [req EXCEPT ![c] = <<>>] /\ ans' = [ans EXCEPT ![c] = <<>>]
                           /\ UNCHANGED <<rows, last, committed>>
    BY <1>3 DEF Dial, MustDial
  <2>2. call' \in [Callers -> Call_]
    BY <1>0, <2>1, UseTyped
  <2>3. OpenConn \in Conn_
    BY DEF OpenConn, ClosedConn, Conn_
  <2>4. IdleSession \in Sess_
    BY IdleSessionTyped
  <2>5. <<>> \in Seq(Msg_) /\ <<>> \in Seq(Ans_)
    OBVIOUS
  <2> QED BY <2>1, <2>2, <2>3, <2>4, <2>5 DEF CallsTyped, WireTyped, StoreTyped
<1>4. CASE DialFails(k)
  <2>1. /\ call' = [call EXCEPT ![k] = IdleCall(call[k].n, "error", call[k].files)]
        /\ UNCHANGED <<free, conn, req, ans, sess, rows, last, committed>>
    BY <1>4 DEF DialFails, wireVars, serverVars
  <2>2. call' \in [Callers -> Call_]
    BY <1>0, <2>1, EndsTyped
  <2> QED BY <2>1, <2>2 DEF CallsTyped, WireTyped, StoreTyped
<1>5. CASE SendOnBad(k)
  <2> DEFINE c == call[k].c
             v == call[k]
             w == [v EXCEPT !.pc = "acquire", !.c = NoConn, !.tries = call[k].tries + 1]
  <2>1. /\ call[k].pc = "send" /\ conn' = [conn EXCEPT ![c].up = FALSE]
        /\ UNCHANGED <<free, req, ans, sess, rows, last, committed>>
        /\ \/ call[k].at = 1 /\ call' = [call EXCEPT ![k] = w]
           \/ call' = [call EXCEPT ![k] = IdleCall(call[k].n, "error", call[k].files)]
    BY <1>5 DEF SendOnBad, wireVars, serverVars
  <2>2. conn' \in [Conns -> Conn_]
    BY <1>0, <2>1 DEF Conn_
  <2>3. call' \in [Callers -> Call_]
    <3>1. CASE call[k].at = 1 /\ call' = [call EXCEPT ![k] = w]
      <4>1. v \in Call_ /\ v \in Fields /\ v.tries + 1 \in Nat /\ v.at <= Len(v.stmts) /\ v.pc = "send"
            /\ v.at = 1
        BY <1>0, <2>1, <3>1, CallTyped DEF Going, Call_
      <4>2. w \in Fields /\ w.pc = "acquire" /\ w.n = v.n /\ w.stmts = v.stmts /\ w.files = v.files
            /\ w.at = v.at /\ w.c = NoConn
        BY <4>1 DEF Fields
      <4> HIDE DEF v, w
      <4>3. w \in Call_
        BY <4>1, <4>2, GoesOn DEF RollingBack
      <4> QED BY <1>0, <3>1, <4>3
    <3>2. CASE call' = [call EXCEPT ![k] = IdleCall(call[k].n, "error", call[k].files)]
      BY <1>0, <3>2, EndsTyped
    <3> QED BY <2>1, <3>1, <3>2
  <2> QED BY <2>1, <2>2, <2>3 DEF CallsTyped, WireTyped, StoreTyped
<1>6. CASE Send(k)
  <2> DEFINE c == call[k].c
             v == call[k]
             w == [v EXCEPT !.pc = "wait"]
  <2>1. /\ call[k].pc = "send" /\ req' = [req EXCEPT ![c] = Append(req[c], Request(k))]
        /\ call' = [call EXCEPT ![k] = w]
        /\ UNCHANGED <<free, conn, ans, sess, rows, last, committed>>
    BY <1>6 DEF Send, serverVars
  <2>2. Request(k) \in Msg_ /\ c \in Conns
    BY <1>0, <2>1, CurrentTyped, CallTyped
  <2>3. Append(req[c], Request(k)) \in Seq(Msg_)
    BY <2>2, AppendProperties DEF WireTyped
  <2>4. WireTyped'
    BY <2>1, <2>2, <2>3 DEF WireTyped
  <2>5. v \in Call_ /\ v \in Fields /\ Going(v) /\ v.pc = "send" /\ v.c # NoConn
    BY <1>0, <2>1, CallTyped DEF Call_, Going
  <2>6. w \in Fields /\ w.pc = "wait" /\ w.n = v.n /\ w.stmts = v.stmts /\ w.files = v.files
        /\ w.at = v.at /\ w.c = v.c
    BY <2>5 DEF Fields
  <2> HIDE DEF v, w
  <2>7. w \in Call_
    BY <2>5, <2>6, GoesOn DEF Going
  <2> QED BY <1>0, <2>1, <2>4, <2>7 DEF CallsTyped, StoreTyped
<1>7. CASE Receive(k)
  <2> DEFINE c == call[k].c
  <2>1. /\ call[k].pc = "wait" /\ ans[c] # <<>> /\ ans' = [ans EXCEPT ![c] = Tail(ans[c])]
        /\ (\E found : Succeed(k, found)) \/ Fail(k, conn)
        /\ UNCHANGED <<req, sess, rows, last, committed>>
    BY <1>7 DEF Receive, serverVars
  <2>2. CallsTyped'
    BY <1>0, <2>1, SucceedTyped, FailTyped
  <2>3. c \in Conns
    BY <1>0, <2>1, CallTyped
  <2>4. Tail(ans[c]) \in Seq(Ans_)
    BY <2>1, <2>3, HeadTailProperties DEF WireTyped
  <2> QED BY <2>1, <2>2, <2>3, <2>4 DEF WireTyped, StoreTyped
<1>8. CASE IOError(k)
  <2> DEFINE c == call[k].c
  <2>1. /\ call[k].pc \in {"send", "wait"} /\ Fail(k, MarkBad(c))
        /\ UNCHANGED <<req, ans, sess, rows, last, committed>>
    BY <1>8 DEF IOError, serverVars
  <2>2. MarkBad(c) \in [Conns -> Conn_]
    BY <1>0 DEF MarkBad, Conn_
  <2>3. CallsTyped'
    BY <1>0, <2>1, <2>2, FailTyped
  <2> QED BY <2>1, <2>3 DEF WireTyped, StoreTyped
<1> QED BY <1>1, <1>2, <1>3, <1>4, <1>5, <1>6, <1>7, <1>8 DEF CallerStep

\* The server's part: rows, and the messages of a stream.
LEMMA RowTyped ==
    ASSUME StoreTyped, NEW c \in Conns, NEW p \in Paths
    PROVE  RowFor(c, p) \in Row_
<1>1. sess[c] \in Sess_ /\ rows[p] \in Row_
  BY DEF StoreTyped
<1>2. PICK P \in SUBSET Paths : sess[c].wrote \in [P -> Row_]
  BY <1>1 DEF Sess_, Write_
<1>3. CASE p \in DOMAIN sess[c].wrote
  <2>1. sess[c].wrote[p] \in Row_
    BY <1>2, <1>3
  <2> QED BY <1>3, <2>1 DEF RowFor
<1>4. CASE p \notin DOMAIN sess[c].wrote
  BY <1>1, <1>4 DEF RowFor
<1> QED BY <1>3, <1>4

\* A transaction's writes with one more.
LEMMA WithTyped ==
    ASSUME NEW wrote \in Write_, NEW p \in Paths, NEW row \in Row_
    PROVE  /\ With(wrote, p, row) \in Write_
           /\ DOMAIN With(wrote, p, row) = DOMAIN wrote \cup {p}
           /\ \A q \in DOMAIN wrote \cup {p} :
                 With(wrote, p, row)[q] = IF q = p THEN row ELSE wrote[q]
<1>1. PICK P \in SUBSET Paths : wrote \in [P -> Row_]
  BY DEF Write_
<1>2. DOMAIN wrote = P
  BY <1>1
<1>3. P \cup {p} \in SUBSET Paths
  BY <1>1
<1>4. With(wrote, p, row) = [q \in P \cup {p} |-> IF q = p THEN row ELSE wrote[q]]
  BY <1>2 DEF With
<1>5. With(wrote, p, row) \in [P \cup {p} -> Row_]
  BY <1>1, <1>2, <1>4
<1>6. With(wrote, p, row) \in Write_
  BY <1>3, <1>5 DEF Write_
<1> QED BY <1>2, <1>4, <1>5, <1>6

\* The first message on a connection.
LEMMA MessageTyped ==
    ASSUME WireTyped, NEW c \in Conns, req[c] # <<>>
    PROVE  /\ Head(req[c]) \in Msg_ /\ Tail(req[c]) \in Seq(Msg_)
           /\ Op(Head(req[c])) \in Op_
           /\ Head(req[c]).id \in StmtIds /\ Head(req[c]).files \in SUBSET Paths
           /\ Head(req[c]).kind = "upsert" => Head(req[c]).path \in Paths
<1>1. Head(req[c]) \in Msg_ /\ Tail(req[c]) \in Seq(Msg_)
  BY HeadTailProperties DEF WireTyped
<1>2. Head(req[c]).id \in StmtIds /\ Head(req[c]).files \in SUBSET Paths
      /\ (Head(req[c]).kind = "upsert" => Head(req[c]).path \in Paths)
  BY <1>1 DEF Msg_
<1>3. Op(Head(req[c])) \in Op_
  BY <1>2 DEF Op, StmtIds, Op_
<1> QED BY <1>1, <1>2, <1>3

\* Types: the server answers.
LEMMA AnswerTyped ==
    ASSUME WireTyped, NEW c \in Conns, req[c] # <<>>, NEW ok \in BOOLEAN, NEW found \in BOOLEAN,
           Answer(c, ok, found)
    PROVE  WireTyped'
<1>1. /\ req' = [req EXCEPT ![c] = Tail(req[c])]
      /\ ans' = [ans EXCEPT ![c] = IF conn[c].cut \/ ~conn[c].up THEN ans[c]
                     ELSE Append(ans[c], [id |-> Head(req[c]).id, ok |-> ok, found |-> found])]
  BY DEF Answer
<1>2. Tail(req[c]) \in Seq(Msg_) /\ Head(req[c]).id \in StmtIds
  BY MessageTyped
<1>3. [id |-> Head(req[c]).id, ok |-> ok, found |-> found] \in Ans_
  BY <1>2 DEF Ans_
<1>4. Append(ans[c], [id |-> Head(req[c]).id, ok |-> ok, found |-> found]) \in Seq(Ans_)
      /\ ans[c] \in Seq(Ans_)
  BY <1>3, AppendProperties DEF WireTyped
<1> QED BY <1>1, <1>2, <1>4 DEF WireTyped

\* Types: the server changes a session.
LEMMA SessionTyped ==
    ASSUME StoreTyped, NEW c \in Conns, NEW v \in Sess_, sess' = [sess EXCEPT ![c] = v],
           rows' = rows, last' = last, committed' = committed
    PROVE  StoreTyped'
BY DEF StoreTyped

\* Types: the server refuses a statement and aborts its transaction.
LEMMA AbortTyped ==
    ASSUME CallsTyped, WireTyped, StoreTyped, NEW c \in Conns, req[c] # <<>>, Abort(c)
    PROVE  CallsTyped' /\ WireTyped' /\ StoreTyped'
<1> DEFINE v == IF sess[c].st = "idle" \/ Head(req[c]).kind = "commit"
                THEN IdleSession ELSE [NoSession EXCEPT !.st = "failed"]
<1>1. /\ sess' = [sess EXCEPT ![c] = v] /\ Answer(c, FALSE, FALSE)
      /\ UNCHANGED <<call, free, conn, rows, last, committed>>
  BY DEF Abort, clientVars
<1>2. v \in Sess_
  BY IdleSessionTyped
<1> HIDE DEF v
<1>3. WireTyped'
  BY <1>1, AnswerTyped
<1>4. StoreTyped'
  BY <1>1, <1>2, SessionTyped
<1> QED BY <1>1, <1>3, <1>4 DEF CallsTyped

\* Types: every step of the server.
LEMMA ServerTyped ==
    ASSUME CallsTyped, WireTyped, StoreTyped, NEW c \in Conns,
           Serve(c) \/ ServerRefuses(c) \/ Break(c)
    PROVE  CallsTyped' /\ WireTyped' /\ StoreTyped'
<1>0. /\ sess \in [Conns -> Sess_] /\ sess[c] \in Sess_
      /\ rows \in [Paths -> Row_] /\ committed \in SUBSET Op_
  BY DEF StoreTyped
<1>1. CASE ServerBegin(c)
  <2> DEFINE v == [sess[c] EXCEPT !.st = "tx", !.saw = committed]
  <2>1. /\ req[c] # <<>> /\ sess' = [sess EXCEPT ![c] = v] /\ Answer(c, TRUE, TRUE)
        /\ UNCHANGED <<call, free, conn, rows, last, committed>>
    BY <1>0, <1>1 DEF ServerBegin, Executes, clientVars
  <2>2. v \in Sess_
    BY <1>0 DEF Sess_
  <2> HIDE DEF v
  <2>3. WireTyped'
    BY <2>1, AnswerTyped
  <2>4. StoreTyped'
    BY <2>1, <2>2, SessionTyped
  <2> QED BY <2>1, <2>3, <2>4 DEF CallsTyped
<1>2. CASE ServerRead(c)
  <2> DEFINE b == Head(req[c]).kind = "ping" \/ RowFor(c, Head(req[c]).path) # NoRow
  <2>1. /\ req[c] # <<>> /\ Answer(c, TRUE, b)
        /\ UNCHANGED <<call, free, conn, sess, rows, last, committed>>
    BY <1>2 DEF ServerRead, Executes, clientVars
  <2>2. b \in BOOLEAN
    OBVIOUS
  <2> HIDE DEF b
  <2>3. WireTyped'
    BY <2>1, <2>2, AnswerTyped
  <2> QED BY <2>1, <2>3 DEF CallsTyped, StoreTyped
<1>3. CASE ServerDelete(c)
  <2> DEFINE todo == {<<p, rows[p].ins>> : p \in {q \in Paths : rows[q] # NoRow}}
             v == [sess[c] EXCEPT !.started = TRUE, !.todo = todo]
  <2>1. /\ sess' = [sess EXCEPT ![c] = v]
        /\ UNCHANGED <<call, free, conn, req, ans, rows, last, committed>>
    BY <1>0, <1>3 DEF ServerDelete, clientVars, wireVars
  <2>2. todo \in SUBSET (Paths \X Op_)
    BY <1>0 DEF Row_
  <2> HIDE DEF todo
  <2>3. v \in Sess_
    BY <1>0, <2>2 DEF Sess_
  <2> HIDE DEF v
  <2>4. StoreTyped'
    BY <2>1, <2>3, SessionTyped
  <2> QED BY <2>1, <2>4 DEF CallsTyped, WireTyped
<1>4. CASE DeleteRow(c)
  <2>1. PICK t \in sess[c].todo :
          /\ sess' = [sess EXCEPT ![c].todo = @ \ {t},
                            ![c].wrote = IF rows[t[1]] # NoRow /\ rows[t[1]].ins = t[2]
                                         THEN With(@, t[1], NoRow) ELSE @]
          /\ UNCHANGED <<call, free, conn, req, ans, rows, last, committed>>
    BY <1>4 DEF DeleteRow, clientVars, wireVars
  <2> DEFINE todo == sess[c].todo \ {t}
             wrote == IF rows[t[1]] # NoRow /\ rows[t[1]].ins = t[2]
                      THEN With(sess[c].wrote, t[1], NoRow) ELSE sess[c].wrote
             v == [sess[c] EXCEPT !.todo = todo, !.wrote = wrote]
  <2>2. sess[c].wrote \in Write_ /\ sess[c].todo \in SUBSET (Paths \X Op_)
    BY <1>0 DEF Sess_
  <2>3. t[1] \in Paths /\ todo \in SUBSET (Paths \X Op_)
    BY <2>2
  <2>4. NoRow \in Row_
    BY DEF NoRow, Row_, Op_
  <2>5. wrote \in Write_
    BY <2>2, <2>3, <2>4, WithTyped
  <2>6. sess' = [sess EXCEPT ![c] = v]
    BY <1>0, <2>1
  <2> HIDE DEF todo, wrote
  <2>7. v \in Sess_
    BY <1>0, <2>3, <2>5 DEF Sess_
  <2> HIDE DEF v
  <2>8. StoreTyped'
    BY <2>1, <2>6, <2>7, SessionTyped
  <2> QED BY <2>1, <2>8 DEF CallsTyped, WireTyped
<1>5. CASE DeleteDone(c)
  <2> DEFINE v == [sess[c] EXCEPT !.started = FALSE]
  <2>1. /\ req[c] # <<>> /\ sess' = [sess EXCEPT ![c] = v] /\ Answer(c, TRUE, TRUE)
        /\ UNCHANGED <<call, free, conn, rows, last, committed>>
    BY <1>0, <1>5 DEF DeleteDone, Executes, clientVars
  <2>2. v \in Sess_
    BY <1>0 DEF Sess_
  <2> HIDE DEF v
  <2>3. WireTyped'
    BY <2>1, AnswerTyped
  <2>4. StoreTyped'
    BY <2>1, <2>2, SessionTyped
  <2> QED BY <2>1, <2>3, <2>4 DEF CallsTyped
<1>6. CASE ServerUpsert(c)
  <2> DEFINE m == Head(req[c])
             row == Written(RowFor(c, m.path), Op(m))
             wrote == With(sess[c].wrote, m.path, row)
             v == [sess[c] EXCEPT !.wrote = wrote]
  <2>1. /\ req[c] # <<>> /\ m.kind = "upsert"
        /\ sess' = [sess EXCEPT ![c].wrote = With(@, m.path, row)] /\ Answer(c, TRUE, TRUE)
        /\ UNCHANGED <<call, free, conn, rows, last, committed>>
    BY <1>6 DEF ServerUpsert, Executes, clientVars
  <2>2. m.path \in Paths /\ Op(m) \in Op_
    BY <2>1, MessageTyped
  <2>3. row \in Row_
    BY <2>2, RowTyped DEF Written, Row_
  <2>4. sess' = [sess EXCEPT ![c] = v]
    BY <1>0, <2>1
  <2> HIDE DEF row, m
  <2>5. wrote \in Write_
    BY <1>0, <2>2, <2>3, WithTyped DEF Sess_
  <2> HIDE DEF wrote
  <2>6. v \in Sess_
    BY <1>0, <2>5 DEF Sess_
  <2> HIDE DEF v
  <2>7. WireTyped'
    BY <2>1, AnswerTyped
  <2>8. StoreTyped'
    BY <2>1, <2>4, <2>6, SessionTyped
  <2> QED BY <2>1, <2>7, <2>8 DEF CallsTyped
<1>7. CASE ServerCommit(c)
  <2> DEFINE m == Head(req[c])
  <2>1. /\ req[c] # <<>> /\ Answer(c, TRUE, TRUE)
        /\ rows' = [p \in Paths |-> RowFor(c, p)]
        /\ last' = [id |-> Op(m), files |-> m.files, saw |-> sess[c].saw]
        /\ committed' = committed \cup {Op(m)}
        /\ sess' = [sess EXCEPT ![c] = IdleSession]
        /\ UNCHANGED <<call, free, conn>>
    BY <1>7 DEF ServerCommit, Executes, clientVars
  <2>2. Op(m) \in Op_ /\ m.files \in SUBSET Paths /\ sess[c].saw \in SUBSET Op_
    BY <1>0, <2>1, MessageTyped DEF Sess_
  <2>3. WireTyped'
    BY <2>1, AnswerTyped
  <2>4. rows' \in [Paths -> Row_]
    BY <2>1, RowTyped
  <2>5. IdleSession \in Sess_
    BY IdleSessionTyped
  <2> HIDE DEF m
  <2>6. StoreTyped'
    BY <1>0, <2>1, <2>2, <2>4, <2>5 DEF StoreTyped
  <2> QED BY <2>1, <2>3, <2>6 DEF CallsTyped
<1>8. CASE ServerRollback(c)
  <2>1. /\ req[c] # <<>> /\ sess' = [sess EXCEPT ![c] = IdleSession] /\ Answer(c, TRUE, TRUE)
        /\ UNCHANGED <<call, free, conn, rows, last, committed>>
    BY <1>8 DEF ServerRollback, Executes, clientVars
  <2>2. IdleSession \in Sess_
    BY IdleSessionTyped
  <2>3. WireTyped'
    BY <2>1, AnswerTyped
  <2>4. StoreTyped'
    BY <2>1, <2>2, SessionTyped
  <2> QED BY <2>1, <2>3, <2>4 DEF CallsTyped
<1>9. CASE DeadlockVictim(c)
  BY <1>9, AbortTyped DEF DeadlockVictim
<1>10. CASE ServerRefuses(c)
  BY <1>10, AbortTyped DEF ServerRefuses
<1>11. CASE ServerEnds(c)
  <2>1. /\ sess' = [sess EXCEPT ![c] = NoSession] /\ req' = [req EXCEPT ![c] = <<>>]
        /\ UNCHANGED <<call, free, conn, ans, rows, last, committed>>
    BY <1>11 DEF ServerEnds, clientVars
  <2>2. NoSession \in Sess_ /\ <<>> \in Seq(Msg_)
    BY IdleSessionTyped
  <2>3. StoreTyped'
    BY <2>1, <2>2, SessionTyped
  <2> QED BY <2>1, <2>2, <2>3 DEF CallsTyped, WireTyped
<1>12. CASE Break(c)
  <2>1. PICK kept \in {ans[c], <<>>} :
          /\ conn' = [conn EXCEPT ![c].cut = TRUE] /\ ans' = [ans EXCEPT ![c] = kept]
          /\ UNCHANGED <<call, free, req, sess, rows, last, committed>>
    BY <1>12 DEF Break, clientVars, serverVars
  <2>2. kept \in Seq(Ans_)
    <3>1. ans[c] \in Seq(Ans_)
      BY DEF WireTyped
    <3>2. <<>> \in Seq(Ans_)
      OBVIOUS
    <3> QED BY <3>1, <3>2
  <2> QED BY <2>1, <2>2 DEF CallsTyped, WireTyped, StoreTyped, Conn_
<1> QED BY <1>1, <1>2, <1>3, <1>4, <1>5, <1>6, <1>7, <1>8, <1>9, <1>10, <1>11, <1>12 DEF Serve

\* Types: the first state.
LEMMA InitTyped ==
    PgInit => CallsTyped /\ WireTyped /\ StoreTyped
<1> SUFFICES ASSUME PgInit PROVE CallsTyped /\ WireTyped /\ StoreTyped
  OBVIOUS
<1>1. 0 \in 0..MaxOps /\ MaxIdle \in Nat /\ IsFiniteSet({}) /\ Cardinality({}) = 0
  BY PgWireAssumption, FS_EmptySet
<1>2. IdleCall(0, "none", {}) \in Call_
  BY <1>1, IdleTyped
<1>3. ClosedConn \in Conn_
  BY DEF ClosedConn, Conn_
<1>4. Earlier \in Op_ /\ NoRow \in Row_ /\ [ins |-> Earlier, by |-> Earlier] \in Row_
  BY DEF NoRow, Row_, Op_
<1>5. CallsTyped
  BY <1>1, <1>2, <1>3 DEF PgInit, CallsTyped
<1>6. WireTyped
  <2>1. <<>> \in Seq(Msg_) /\ <<>> \in Seq(Ans_)
    OBVIOUS
  <2> QED BY <2>1 DEF PgInit, WireTyped
<1>7. last \in [id : Op_, files : SUBSET Paths, saw : SUBSET Op_]
  BY <1>4 DEF PgInit
<1>8. StoreTyped
  BY <1>4, <1>7, IdleSessionTyped DEF PgInit, StoreTyped
<1> QED BY <1>5, <1>6, <1>8

\* Types: every step.
LEMMA NextTyped ==
    CallsTyped /\ WireTyped /\ StoreTyped /\ [PgNext]_vars => (CallsTyped /\ WireTyped /\ StoreTyped)'
<1>1. ASSUME CallsTyped, WireTyped, StoreTyped, PgNext PROVE CallsTyped' /\ WireTyped' /\ StoreTyped'
  BY <1>1, CallerTyped, ServerTyped DEF PgNext
<1>2. ASSUME CallsTyped, WireTyped, StoreTyped, UNCHANGED vars
      PROVE  CallsTyped' /\ WireTyped' /\ StoreTyped'
  BY <1>2 DEF vars, CallsTyped, WireTyped, StoreTyped
<1> QED BY <1>1, <1>2

-------------------------------------------------------------------------------
(* What is in flight on a connection belongs to who holds it. *)

\* A connection is in the pool, lent to one caller, or closed.
Lent(k) ==
    call[k].c # NoConn =>
        /\ call[k].c \in Conns \ free /\ conn[call[k].c].up
        /\ \A j \in Callers \ {k} : call[j].c # call[k].c

\* At most one statement or answer is on its way, on any connection.
Wire(c) ==
    /\ req[c] = <<>> \/ req[c] = <<Head(req[c])>>
    /\ ans[c] = <<>> \/ ans[c] = <<Head(ans[c])>>
    /\ req[c] = <<>> \/ ans[c] = <<>>
    /\ sess[c].started \/ sess[c].todo # {} =>
          sess[c].st = "tx" /\ req[c] # <<>> /\ Head(req[c]).kind = "delete"

\* The state of the session before and after a caller's current statement.
Before(k) == IF call[k].at = RollingBack THEN "failed"
             ELSE IF call[k].at = 1 THEN "idle" ELSE "tx"
After(k, ok) == IF Current(k).kind = "begin" /\ ok THEN "tx"
                ELSE IF Current(k).kind \in {"delete", "upsert"}
                THEN IF ok THEN "tx" ELSE "failed"
                ELSE "idle"

\* The server has noticed that a connection broke.
Gone(c) == conn[c].cut /\ sess[c].st = "none"

Sends(k) == LET c == call[k].c IN
    call[k].pc = "send" /\ ~conn[c].bad =>
        req[c] = <<>> /\ ans[c] = <<>> /\ (sess[c].st = Before(k) \/ Gone(c))

\* The statement, or its answer, or neither when the connection broke.
Waits(k) == LET c == call[k].c IN
    call[k].pc = "wait" =>
        /\ ~conn[c].bad
        /\ \/ req[c] = <<>> /\ ans[c] = <<>> /\ conn[c].cut
           \/ req[c] = <<Request(k)>> /\ sess[c].st = Before(k)
           \/ ans[c] # <<>> /\ Head(ans[c]).id = StmtId(k)
              /\ (sess[c].st = After(k, Head(ans[c]).ok) \/ Gone(c))

Kept(c) ==
    /\ conn[c].up
    /\ ~conn[c].bad => req[c] = <<>> /\ ans[c] = <<>> /\ (sess[c].st = "idle" \/ Gone(c))

Typed == CallsTyped /\ WireTyped /\ StoreTyped

WireIInv ==
    /\ \A k \in Callers : Lent(k) /\ Sends(k) /\ Waits(k)
    /\ \A c \in Conns : Wire(c)
    /\ \A c \in free : Kept(c)

\* A caller moves on a connection, or on none: the others are not concerned.
Elsewhere(k, c) ==
    /\ \A j \in Callers \ {k} : call'[j] = call[j] /\ (call[j].c = c => c = NoConn)
    /\ \A d \in Conns \ {c} : conn'[d] = conn[d] /\ req'[d] = req[d] /\ ans'[d] = ans[d]
                              /\ sess'[d] = sess[d] /\ (d \in free' <=> d \in free)
    /\ free' \in SUBSET Conns
Holds(k, c) ==
    /\ call'[k].c \in {c, NoConn}
    /\ call'[k].c # NoConn => c \notin free' /\ conn'[c].up

\* A caller that moves on one connection keeps WireIInv, if it leaves that one as it must.
LEMMA CallerMoves ==
    ASSUME Typed, WireIInv, NEW k \in Callers, NEW c \in Conns \cup {NoConn},
           Elsewhere(k, c), Holds(k, c),
           Sends(k)', Waits(k)', c \in Conns => Wire(c)', c \in free' => Kept(c)'
    PROVE  WireIInv'
<1>0. /\ NoConn \notin Conns
      /\ \A j \in Callers \ {k} : call'[j] = call[j] /\ (call[j].c = c => c = NoConn)
      /\ \A d \in Conns \ {c} : conn'[d] = conn[d] /\ req'[d] = req[d] /\ ans'[d] = ans[d]
                                /\ sess'[d] = sess[d] /\ (d \in free' <=> d \in free)
      /\ free' \in SUBSET Conns
      /\ call'[k].c \in {c, NoConn}
      /\ call'[k].c # NoConn => c \notin free' /\ conn'[c].up
  BY PgWireAssumption DEF Elsewhere, Holds
<1>1. ASSUME NEW j \in Callers \ {k} PROVE Lent(j)' /\ Sends(j)' /\ Waits(j)'
  <2>1. /\ Lent(j) /\ Sends(j) /\ Waits(j) /\ call'[j] = call[j] /\ call[j].c \in Conns \cup {NoConn}
        /\ call[j].pc \in {"send", "wait"} => call[j].c \in Conns
    BY <1>0, <1>1, CallTyped DEF WireIInv, Typed, CallsTyped
  <2>2. CASE call[j].c = NoConn
    <3>1. call[j].pc # "send" /\ call[j].pc # "wait"
      BY <1>0, <2>1, <2>2
    <3> QED BY <2>1, <2>2, <3>1 DEF Lent, Sends, Waits, Gone
  <2>3. CASE call[j].c # NoConn
    <3> DEFINE d == call[j].c
    <3>1. d \in Conns \ {c}
      BY <1>0, <1>1, <2>1, <2>3
    <3>2. conn'[d] = conn[d] /\ req'[d] = req[d] /\ ans'[d] = ans[d] /\ sess'[d] = sess[d]
          /\ d \notin free'
      BY <1>0, <2>1, <2>3, <3>1 DEF Lent
    <3>3. Lent(j)'
      <4>1. \A i \in Callers \ {j} : call'[i].c # d
        BY <1>0, <2>1, <2>3, <3>1 DEF Lent
      <4> QED BY <2>1, <2>3, <3>1, <3>2, <4>1 DEF Lent
    <3>4. /\ Before(j)' = Before(j) /\ Request(j)' = Request(j) /\ StmtId(j)' = StmtId(j)
          /\ \A ok : After(j, ok)' = After(j, ok)
      BY <2>1 DEF Before, After, Request, StmtId, Current
    <3>5. Sends(j)'
      BY <2>1, <3>2, <3>4 DEF Sends, Gone
    <3>6. Waits(j)'
      BY <2>1, <3>2, <3>4 DEF Waits, Gone
    <3> QED BY <3>3, <3>5, <3>6
  <2> QED BY <2>2, <2>3
<1>2. Lent(k)'
  <2> SUFFICES ASSUME call'[k].c # NoConn PROVE Lent(k)'
    BY DEF Lent
  <2>1. call'[k].c = c /\ c \in Conns
    BY <1>0
  <2>2. \A j \in Callers \ {k} : call'[j].c # c
    BY <1>0, <2>1
  <2> QED BY <1>0, <2>1, <2>2 DEF Lent
<1>3. \A d \in Conns : Wire(d)'
  <2> SUFFICES ASSUME NEW d \in Conns, d # c PROVE Wire(d)'
    OBVIOUS
  <2> QED BY <1>0 DEF Wire, WireIInv
<1>4. \A d \in free' : Kept(d)'
  <2> SUFFICES ASSUME NEW d \in free', d # c PROVE Kept(d)'
    OBVIOUS
  <2>1. d \in Conns \ {c} /\ d \in free
    BY <1>0
  <2> QED BY <1>0, <2>1 DEF Kept, WireIInv, Gone
<1> QED BY <1>1, <1>2, <1>3, <1>4 DEF WireIInv

\* What the kind of a statement says of the session it finds.
LEMMA BeforeKind ==
    ASSUME call \in [Callers -> Call_], NEW k \in Callers, call[k].pc # "idle"
    PROVE  /\ Current(k).kind \in {"begin", "select", "ping"} => Before(k) = "idle"
           /\ Current(k).kind \in {"delete", "upsert", "commit"} => Before(k) = "tx"
           /\ Current(k).kind = "rollback" => Before(k) = "failed"
           /\ Current(k).kind \in Kinds
<1>1. call[k].at \in Nat /\ Current(k).kind \in Kinds
  BY CallTyped, CurrentTyped DEF Stmt_
<1> QED BY <1>1, PlaceOfKind DEF Before, RollingBack, Kinds

\* A session's work on a statement, before it is answered.
LEMMA ServerWorks ==
    ASSUME Typed, WireIInv, NEW c \in Conns,
           UNCHANGED <<call, free, conn, req, ans>>,
           \A d \in Conns \ {c} : sess'[d] = sess[d],
           sess'[c].st = sess[c].st, Wire(c)'
    PROVE  WireIInv'
<1>1. \A k \in Callers : Lent(k)'
  BY DEF Lent, WireIInv
<1>2. ASSUME NEW k \in Callers PROVE Sends(k)' /\ Waits(k)'
  <2>1. /\ Sends(k) /\ Waits(k) /\ (call[k].pc \in {"send", "wait"} => call[k].c \in Conns)
    BY CallTyped DEF WireIInv, Typed, CallsTyped
  <2>2. /\ Before(k)' = Before(k) /\ Request(k)' = Request(k) /\ StmtId(k)' = StmtId(k)
        /\ \A ok : After(k, ok)' = After(k, ok)
    BY DEF Before, After, Request, StmtId, Current
  <2>3. \A d \in Conns : sess'[d].st = sess[d].st
    OBVIOUS
  <2>4. Sends(k)'
    BY <2>1, <2>2, <2>3 DEF Sends, Gone
  <2>5. Waits(k)'
    BY <2>1, <2>2, <2>3 DEF Waits, Gone
  <2> QED BY <2>4, <2>5
<1>3. \A d \in Conns : Wire(d)'
  BY DEF Wire, WireIInv
<1>4. \A d \in free' : Kept(d)'
  BY DEF Kept, WireIInv, Typed, CallsTyped, Gone
<1> QED BY <1>1, <1>2, <1>3, <1>4 DEF WireIInv

\* A statement is answered: its session is then where its caller expects it.
LEMMA ServerAnswers ==
    ASSUME Typed, WireIInv, NEW c \in Conns, req[c] # <<>>,
           NEW ok \in BOOLEAN, NEW found \in BOOLEAN, Answer(c, ok, found),
           UNCHANGED <<call, free, conn>>,
           \A d \in Conns \ {c} : sess'[d] = sess[d],
           ~sess'[c].started, sess'[c].todo = {},
           \A k \in Callers : call[k].pc # "idle" /\ Head(req[c]) = Request(k)
                              /\ sess[c].st = Before(k) => sess'[c].st = After(k, ok)
    PROVE  WireIInv'
<1> DEFINE a == [id |-> Head(req[c]).id, ok |-> ok, found |-> found]
<1>1. /\ Wire(c) /\ req[c] = <<Head(req[c])>> /\ Tail(req[c]) = <<>> /\ ans[c] = <<>>
      /\ Append(<<>>, a) = <<a>> /\ Head(<<a>>) = a /\ <<a>> # <<>>
  BY OneMessage DEF Wire, WireIInv
<1>2. /\ \A d \in Conns \ {c} : req'[d] = req[d] /\ ans'[d] = ans[d]
      /\ req'[c] = <<>>
      /\ ans'[c] = IF conn[c].cut \/ ~conn[c].up THEN <<>> ELSE <<a>>
  BY <1>1 DEF Answer, Typed, WireTyped
<1>3. Wire(c)'
  BY <1>1, <1>2 DEF Wire
<1>4. \A d \in Conns : Wire(d)'
  BY <1>2, <1>3 DEF Wire, WireIInv
<1>5. \A k \in Callers : Lent(k)'
  BY DEF Lent, WireIInv
<1>6. ASSUME NEW k \in Callers PROVE Sends(k)' /\ Waits(k)'
  <2>1. /\ Lent(k) /\ Sends(k) /\ Waits(k)
        /\ (call[k].pc \in {"send", "wait"} => call[k].c \in Conns /\ call[k].c # NoConn)
    BY CallTyped DEF WireIInv, Typed, CallsTyped, Going
  <2>2. /\ Before(k)' = Before(k) /\ Request(k)' = Request(k) /\ StmtId(k)' = StmtId(k)
        /\ \A b : After(k, b)' = After(k, b)
    BY DEF Before, After, Request, StmtId, Current
  <2>3. CASE call[k].c # c
    <3>1. Sends(k)'
      BY <1>2, <2>1, <2>2, <2>3 DEF Sends, Gone
    <3>2. Waits(k)'
      BY <1>2, <2>1, <2>2, <2>3 DEF Waits, Gone
    <3> QED BY <3>1, <3>2
  <2>4. CASE call[k].c = c
    <3>1. Sends(k)'
      BY <2>1, <2>2, <2>4 DEF Sends, Gone
    <3>2. Waits(k)'
      <4> SUFFICES ASSUME call[k].pc = "wait" PROVE Waits(k)'
        BY DEF Waits, Gone
      <4>1. ~conn[c].bad /\ conn[c].up /\ req[c] = <<Request(k)>>
            /\ sess[c].st = Before(k)
        BY <1>1, <2>1, <2>4 DEF Waits, Lent, Gone
      <4>2. Head(req[c]) = Request(k) /\ a.id = StmtId(k) /\ a.ok = ok
        BY <4>1, OneMessage DEF Request
      <4> HIDE DEF a
      <4>3. CASE conn[c].cut
        BY <1>2, <2>2, <2>4, <4>1, <4>3 DEF Waits, Gone
      <4>4. CASE ~conn[c].cut
        <5>1. sess'[c].st = After(k, ok)
          BY <4>1, <4>2, <4>4
        <5>2. ans'[c] = <<a>> /\ Head(ans'[c]) = a /\ ans'[c] # <<>>
          BY <1>1, <1>2, <4>1, <4>4
        <5> QED BY <2>2, <2>4, <4>1, <4>2, <5>1, <5>2 DEF Waits, Gone
      <4> QED BY <4>3, <4>4
    <3> QED BY <3>1, <3>2
  <2> QED BY <2>3, <2>4
<1>7. \A d \in free' : Kept(d)'
  <2> SUFFICES ASSUME NEW d \in free PROVE Kept(d)'
    OBVIOUS
  <2>1. Kept(d) /\ d \in Conns
    BY DEF WireIInv, Typed, CallsTyped
  <2> QED BY <1>2, <2>1 DEF Kept, Gone
<1> QED BY <1>4, <1>5, <1>6, <1>7 DEF WireIInv

\* The statement of a caller is what its request says.
LEMMA RequestKind ==
    ASSUME NEW k \in Callers, NEW m, m = Request(k)
    PROVE  Current(k).kind = m.kind /\ m.id = StmtId(k) /\ m.path = Current(k).path
           /\ m.files = call[k].files
BY DEF Request

\* An error: the transaction is undone.
LEMMA AbortKeeps ==
    ASSUME Typed, WireIInv, NEW c \in Conns, req[c] # <<>>, Abort(c),
           sess[c].st \in {"idle", "tx"} /\ Head(req[c]).kind # "rollback"
    PROVE  WireIInv'
<1> DEFINE v == IF sess[c].st = "idle" \/ Head(req[c]).kind = "commit"
                THEN IdleSession ELSE [NoSession EXCEPT !.st = "failed"]
<1>1. /\ sess' = [sess EXCEPT ![c] = v] /\ Answer(c, FALSE, FALSE)
      /\ UNCHANGED <<call, free, conn>>
  BY DEF Abort, clientVars
<1>2. v.started = FALSE /\ v.todo = {}
      /\ v.st = IF sess[c].st = "idle" \/ Head(req[c]).kind = "commit" THEN "idle" ELSE "failed"
  BY DEF IdleSession, NoSession
<1> HIDE DEF v
<1>3. sess'[c] = v /\ \A d \in Conns \ {c} : sess'[d] = sess[d]
  BY <1>1 DEF Typed, StoreTyped
<1>4. ASSUME NEW k \in Callers, call[k].pc # "idle", Head(req[c]) = Request(k),
             sess[c].st = Before(k)
      PROVE  v.st = After(k, FALSE)
  <2>1. Current(k).kind = Head(req[c]).kind
    BY <1>4, RequestKind
  <2>2. /\ Current(k).kind \in {"begin", "select", "ping"} => Before(k) = "idle"
        /\ Current(k).kind \in {"delete", "upsert", "commit"} => Before(k) = "tx"
        /\ Current(k).kind \in Kinds
    BY <1>4, BeforeKind DEF Typed, CallsTyped
  <2> QED BY <1>2, <1>4, <2>1, <2>2 DEF After, Kinds
<1> QED BY <1>1, <1>2, <1>3, <1>4, ServerAnswers

\* Every step of the server keeps what is in flight with its caller.
LEMMA ServerKeeps ==
    ASSUME Typed, WireIInv, NEW c \in Conns, Serve(c) \/ ServerRefuses(c) \/ Break(c)
    PROVE  WireIInv'
<1>0. /\ sess \in [Conns -> Sess_] /\ sess[c] \in Sess_ /\ Wire(c)
      /\ call \in [Callers -> Call_] /\ conn \in [Conns -> Conn_]
      /\ req \in [Conns -> Seq(Msg_)] /\ ans \in [Conns -> Seq(Ans_)]
  BY DEF Typed, StoreTyped, WireIInv, CallsTyped, WireTyped
<1>1. CASE ServerBegin(c)
  <2>1. /\ req[c] # <<>> /\ Head(req[c]).kind = "begin" /\ Answer(c, TRUE, TRUE)
        /\ sess' = [sess EXCEPT ![c].st = "tx", ![c].saw = committed]
        /\ UNCHANGED <<call, free, conn>>
    BY <1>1 DEF ServerBegin, Executes, clientVars
  <2>2. /\ sess'[c].st = "tx" /\ sess'[c].started = sess[c].started /\ sess'[c].todo = sess[c].todo
        /\ \A d \in Conns \ {c} : sess'[d] = sess[d]
    BY <1>0, <2>1 DEF Sess_
  <2>3. ~sess[c].started /\ sess[c].todo = {}
    BY <1>0, <2>1 DEF Wire
  <2>4. \A k \in Callers : Head(req[c]) = Request(k) => After(k, TRUE) = "tx"
    BY <2>1, RequestKind DEF After
  <2> QED BY <2>1, <2>2, <2>3, <2>4, ServerAnswers
<1>2. CASE ServerRead(c)
  <2> DEFINE b == Head(req[c]).kind = "ping" \/ RowFor(c, Head(req[c]).path) # NoRow
  <2>1. /\ req[c] # <<>> /\ Head(req[c]).kind \in {"select", "ping"} /\ Answer(c, TRUE, b)
        /\ UNCHANGED <<call, free, conn, sess>>
    BY <1>2 DEF ServerRead, Executes, clientVars
  <2>2. b \in BOOLEAN
    OBVIOUS
  <2> HIDE DEF b
  <2>3. ~sess[c].started /\ sess[c].todo = {}
    BY <1>0, <2>1 DEF Wire
  <2>4. ASSUME NEW k \in Callers, call[k].pc # "idle", Head(req[c]) = Request(k),
               sess[c].st = Before(k)
        PROVE  sess[c].st = After(k, TRUE)
    <3>1. Current(k).kind \in {"select", "ping"}
      BY <2>1, <2>4, RequestKind
    <3>2. Before(k) = "idle"
      BY <1>0, <2>4, <3>1, BeforeKind
    <3> QED BY <2>4, <3>1, <3>2 DEF After
  <2> QED BY <2>1, <2>2, <2>3, <2>4, ServerAnswers
<1>3. CASE ServerDelete(c)
  <2>1. /\ req[c] # <<>> /\ Head(req[c]).kind = "delete" /\ sess[c].st = "tx"
        /\ UNCHANGED <<call, free, conn, req, ans>>
        /\ \E todo : sess' = [sess EXCEPT ![c].started = TRUE, ![c].todo = todo]
    BY <1>3 DEF ServerDelete, Executes, clientVars, wireVars
  <2>2. sess'[c].st = sess[c].st /\ \A d \in Conns \ {c} : sess'[d] = sess[d]
    BY <1>0, <2>1 DEF Sess_
  <2>3. Wire(c)'
    BY <1>0, <2>1, <2>2 DEF Wire
  <2> QED BY <2>1, <2>2, <2>3, ServerWorks
<1>4. CASE DeleteRow(c)
  <2>1. PICK t \in sess[c].todo :
          /\ sess[c].started
          /\ sess' = [sess EXCEPT ![c].todo = @ \ {t},
                            ![c].wrote = IF rows[t[1]] # NoRow /\ rows[t[1]].ins = t[2]
                                         THEN With(@, t[1], NoRow) ELSE @]
          /\ UNCHANGED <<call, free, conn, req, ans>>
    BY <1>4 DEF DeleteRow, clientVars, wireVars
  <2>2. sess'[c].st = sess[c].st /\ \A d \in Conns \ {c} : sess'[d] = sess[d]
    BY <1>0, <2>1 DEF Sess_
  <2>3. Wire(c)'
    BY <1>0, <2>1, <2>2 DEF Wire
  <2> QED BY <2>1, <2>2, <2>3, ServerWorks
<1>5. CASE DeleteDone(c)
  <2>1. /\ req[c] # <<>> /\ Head(req[c]).kind = "delete" /\ sess[c].st = "tx" /\ sess[c].todo = {}
        /\ sess' = [sess EXCEPT ![c].started = FALSE] /\ Answer(c, TRUE, TRUE)
        /\ UNCHANGED <<call, free, conn>>
    BY <1>5 DEF DeleteDone, Executes, clientVars
  <2>2. /\ sess'[c].st = "tx" /\ ~sess'[c].started /\ sess'[c].todo = {}
        /\ \A d \in Conns \ {c} : sess'[d] = sess[d]
    BY <1>0, <2>1 DEF Sess_
  <2>3. \A k \in Callers : Head(req[c]) = Request(k) => After(k, TRUE) = "tx"
    BY <2>1, RequestKind DEF After
  <2> QED BY <2>1, <2>2, <2>3, ServerAnswers
<1>6. CASE ServerUpsert(c)
  <2> DEFINE m == Head(req[c])
             w == With(sess[c].wrote, m.path, Written(RowFor(c, m.path), Op(m)))
  <2>1. /\ req[c] # <<>> /\ m.kind = "upsert" /\ sess[c].st = "tx"
        /\ sess' = [sess EXCEPT ![c].wrote = w] /\ Answer(c, TRUE, TRUE)
        /\ UNCHANGED <<call, free, conn>>
    BY <1>6 DEF ServerUpsert, Executes, clientVars
  <2>2. /\ sess'[c].st = "tx" /\ sess'[c].started = sess[c].started /\ sess'[c].todo = sess[c].todo
        /\ \A d \in Conns \ {c} : sess'[d] = sess[d]
    <3> HIDE DEF w
    <3> QED BY <1>0, <2>1 DEF Sess_
  <2>3. ~sess[c].started /\ sess[c].todo = {}
    BY <1>0, <2>1 DEF Wire
  <2>4. \A k \in Callers : Head(req[c]) = Request(k) => After(k, TRUE) = "tx"
    BY <2>1, RequestKind DEF After
  <2> QED BY <2>1, <2>2, <2>3, <2>4, ServerAnswers
<1>7. CASE ServerCommit(c) \/ ServerRollback(c)
  <2>1. /\ req[c] # <<>> /\ Head(req[c]).kind \in {"commit", "rollback"}
        /\ sess' = [sess EXCEPT ![c] = IdleSession] /\ Answer(c, TRUE, TRUE)
        /\ UNCHANGED <<call, free, conn>>
    BY <1>7 DEF ServerCommit, ServerRollback, Executes, clientVars
  <2>2. /\ sess'[c] = IdleSession /\ \A d \in Conns \ {c} : sess'[d] = sess[d]
    BY <1>0, <2>1
  <2>3. \A k \in Callers : Head(req[c]) = Request(k) => After(k, TRUE) = "idle"
    BY <2>1, RequestKind DEF After
  <2> QED BY <2>1, <2>2, <2>3, IdleSessionTyped, ServerAnswers
<1>8. CASE DeadlockVictim(c)
  <2>1. req[c] # <<>> /\ Abort(c) /\ \E d \in Conns : WaitsFor(c, d)
    BY <1>8 DEF DeadlockVictim, Deadlocked
  <2>2. Wanted(c) # {}
    BY <2>1 DEF WaitsFor
  <2>3. sess[c].st = "tx" /\ Head(req[c]).kind \in {"upsert", "delete"}
    <3>1. CASE Head(req[c]).kind = "upsert" /\ sess[c].st = "tx"
      BY <3>1
    <3>2. CASE ~(Head(req[c]).kind = "upsert" /\ sess[c].st = "tx")
      <4>1. Wanted(c) = {t[1] : t \in sess[c].todo}
        BY <2>1, <3>2 DEF Wanted
      <4>2. sess[c].todo # {}
        BY <2>2, <4>1
      <4> QED BY <1>0, <4>2 DEF Wire
    <3> QED BY <3>1, <3>2
  <2> QED BY <2>1, <2>3, AbortKeeps
<1>9. CASE ServerRefuses(c)
  BY <1>9, AbortKeeps DEF ServerRefuses
<1>10. CASE ServerEnds(c)
  <2>1. /\ conn[c].cut \/ ~conn[c].up
        /\ sess' = [sess EXCEPT ![c] = NoSession] /\ req' = [req EXCEPT ![c] = <<>>]
        /\ UNCHANGED <<call, free, conn, ans>>
    BY <1>10 DEF ServerEnds, clientVars
  <2>2. /\ sess'[c] = NoSession /\ req'[c] = <<>>
        /\ \A d \in Conns \ {c} : sess'[d] = sess[d] /\ req'[d] = req[d]
        /\ ~NoSession.started /\ NoSession.todo = {} /\ NoSession.st = "none"
    BY <1>0, <2>1 DEF NoSession
  <2>3. \A d \in Conns : Wire(d)'
    BY <2>1, <2>2 DEF Wire, WireIInv
  <2>4. ASSUME NEW k \in Callers PROVE Lent(k)' /\ Sends(k)' /\ Waits(k)'
    <3>1. /\ Lent(k) /\ Sends(k) /\ Waits(k)
          /\ (call[k].pc \in {"send", "wait"} => call[k].c \in Conns /\ call[k].c # NoConn)
      BY <1>0, CallTyped DEF WireIInv, Going
    <3>2. /\ Before(k)' = Before(k) /\ Request(k)' = Request(k) /\ StmtId(k)' = StmtId(k)
          /\ \A ok : After(k, ok)' = After(k, ok)
      BY <2>1 DEF Before, After, Request, StmtId, Current
    <3>3. Lent(k)'
      BY <2>1, <3>1 DEF Lent
    <3>4. Sends(k)'
      BY <2>1, <2>2, <3>1, <3>2 DEF Sends, Lent, Gone
    <3>5. Waits(k)'
      <4>1. CASE call[k].c = c /\ call[k].pc = "wait"
        BY <2>1, <2>2, <3>1, <3>2, <4>1, <1>0 DEF Waits, Lent, Wire, Gone
      <4>2. CASE ~(call[k].c = c /\ call[k].pc = "wait")
        BY <2>1, <2>2, <3>1, <3>2, <4>2 DEF Waits, Gone
      <4> QED BY <4>1, <4>2
    <3> QED BY <3>3, <3>4, <3>5
  <2>5. \A d \in free' : Kept(d)'
    <3> SUFFICES ASSUME NEW d \in free PROVE Kept(d)'
      BY <2>1
    <3>1. Kept(d) /\ d \in Conns
      BY DEF WireIInv, Typed, CallsTyped
    <3> QED BY <2>1, <2>2, <3>1 DEF Kept, Gone
  <2> QED BY <2>3, <2>4, <2>5 DEF WireIInv
<1>11. CASE Break(c)
  <2>1. PICK kept \in {ans[c], <<>>} :
          /\ conn' = [conn EXCEPT ![c].cut = TRUE] /\ ans' = [ans EXCEPT ![c] = kept]
          /\ UNCHANGED <<call, free, req, sess>>
    BY <1>11 DEF Break, clientVars, serverVars
  <2>2. /\ conn'[c].cut /\ \A d \in Conns : conn'[d].up = conn[d].up /\ conn'[d].bad = conn[d].bad
        /\ ans'[c] = ans[c] \/ ans'[c] = <<>>
        /\ \A d \in Conns \ {c} : conn'[d] = conn[d] /\ ans'[d] = ans[d]
    BY <1>0, <2>1 DEF Conn_
  <2>3. \A d \in Conns : Wire(d)'
    BY <2>1, <2>2 DEF Wire, WireIInv
  <2>4. ASSUME NEW k \in Callers PROVE Lent(k)' /\ Sends(k)' /\ Waits(k)'
    <3>1. /\ Lent(k) /\ Sends(k) /\ Waits(k)
          /\ (call[k].pc \in {"send", "wait"} => call[k].c \in Conns /\ call[k].c # NoConn)
      BY <1>0, CallTyped DEF WireIInv, Going
    <3>2. /\ Before(k)' = Before(k) /\ Request(k)' = Request(k) /\ StmtId(k)' = StmtId(k)
          /\ \A ok : After(k, ok)' = After(k, ok)
      BY <2>1 DEF Before, After, Request, StmtId, Current
    <3>3. Lent(k)'
      BY <2>1, <2>2, <3>1 DEF Lent
    <3>4. Sends(k)'
      BY <2>1, <2>2, <3>1, <3>2 DEF Sends, Gone
    <3>5. Waits(k)'
      <4>1. CASE call[k].c = c /\ call[k].pc = "wait"
        BY <2>1, <2>2, <3>1, <3>2, <4>1, <1>0 DEF Waits, Wire, Gone
      <4>2. CASE ~(call[k].c = c /\ call[k].pc = "wait")
        BY <2>1, <2>2, <3>1, <3>2, <4>2 DEF Waits, Gone
      <4> QED BY <4>1, <4>2
    <3> QED BY <3>3, <3>4, <3>5
  <2>5. \A d \in free' : Kept(d)'
    <3> SUFFICES ASSUME NEW d \in free PROVE Kept(d)'
      BY <2>1
    <3>1. Kept(d) /\ d \in Conns
      BY DEF WireIInv, Typed, CallsTyped
    <3> QED BY <2>1, <2>2, <3>1 DEF Kept, Gone
  <2> QED BY <2>3, <2>4, <2>5 DEF WireIInv
<1> QED BY <1>1, <1>2, <1>3, <1>4, <1>5, <1>6, <1>7, <1>8, <1>9, <1>10, <1>11 DEF Serve

\* A caller gives its connection back, or the pool drops it.
LEMMA GivesBack ==
    ASSUME Typed, WireIInv, NEW k \in Callers, NEW c \in Conns, call[k].c = c,
           NEW cn \in [Conns -> Conn_], PutBack(c, cn),
           call'[k].pc = "idle", call'[k].c = NoConn,
           \A j \in Callers \ {k} : call'[j] = call[j],
           cn[c].up, \A d \in Conns \ {c} :
               cn[d] = conn[d] /\ req'[d] = req[d] /\ ans'[d] = ans[d] /\ sess'[d] = sess[d],
           Wire(c)',
           ~cn[c].bad => req'[c] = <<>> /\ ans'[c] = <<>>
                         /\ (sess'[c].st = "idle" \/ (cn[c].cut /\ sess'[c].st = "none"))
    PROVE  WireIInv'
<1>1. Lent(k) /\ c \in Conns \ free /\ free \in SUBSET Conns /\ call \in [Callers -> Call_]
      /\ c # NoConn
  BY PgWireAssumption DEF WireIInv, Lent, Typed, CallsTyped
<1>2. /\ \/ free' = free \cup {c} /\ conn' = cn
         \/ free' = free /\ conn' = [cn EXCEPT ![c].up = FALSE]
      /\ \A d \in Conns \ {c} : conn'[d] = cn[d]
  BY DEF PutBack
<1>4. \A j \in Callers \ {k} : call[j].c # c
  BY <1>1 DEF Lent
<1>5. c \in free' => Kept(c)'
  BY <1>1, <1>2 DEF Kept, Gone
<1>6. Sends(k)' /\ Waits(k)'
  BY DEF Sends, Waits, Gone
<1>7. free' \in SUBSET Conns /\ \A d \in Conns \ {c} : d \in free' <=> d \in free
  BY <1>1, <1>2
<1>8. Elsewhere(k, c) /\ Holds(k, c)
  BY <1>2, <1>4, <1>7 DEF Elsewhere, Holds
<1> QED BY <1>5, <1>6, <1>8, CallerMoves

\* A failed statement leaves its connection to a ROLLBACK, to the pool, or closed.
LEMMA FailKeeps ==
    ASSUME Typed, WireIInv, NEW k \in Callers, call[k].pc \in {"send", "wait"},
           NEW c \in Conns, call[k].c = c, NEW cn \in [Conns -> Conn_], Fail(k, cn),
           cn[c].up, \A d \in Conns \ {c} :
               cn[d] = conn[d] /\ req'[d] = req[d] /\ ans'[d] = ans[d] /\ sess'[d] = sess[d],
           Wire(c)',
           ~cn[c].bad => req'[c] = <<>> /\ ans'[c] = <<>>
                         /\ (sess'[c].st = After(k, FALSE) \/ (cn[c].cut /\ sess'[c].st = "none"))
    PROVE  WireIInv'
<1>1. /\ Lent(k) /\ c # NoConn /\ free \in SUBSET Conns /\ call \in [Callers -> Call_]
      /\ call[k] \in Call_
  BY CallTyped DEF WireIInv, Typed, CallsTyped, Going
<1>2. CASE Current(k).kind \in {"delete", "upsert"}
  <2>1. call' = [call EXCEPT ![k] = [@ EXCEPT !.pc = "send", !.at = RollingBack]]
        /\ conn' = cn /\ free' = free
    BY <1>2 DEF Fail
  <2>2. /\ call'[k].pc = "send" /\ call'[k].at = RollingBack /\ call'[k].c = c
        /\ \A j \in Callers \ {k} : call'[j] = call[j]
    BY <1>1, <2>1 DEF Call_, Fields
  <2>3. After(k, FALSE) = "failed" /\ Before(k)' = "failed"
    BY <1>2, <2>2 DEF After, Before
  <2>4. Sends(k)' /\ Waits(k)'
    BY <2>1, <2>2, <2>3 DEF Sends, Waits, Gone
  <2>5. \A j \in Callers \ {k} : call[j].c # c
    BY <1>1 DEF Lent
  <2>6. c \notin free /\ free \in SUBSET Conns
    BY <1>1 DEF Lent
  <2>7. Elsewhere(k, c)
    BY <2>1, <2>2, <2>5, <2>6 DEF Elsewhere
  <2>8. Holds(k, c) /\ c \notin free'
    BY <2>1, <2>2, <2>6 DEF Holds
  <2> QED BY <2>4, <2>7, <2>8, CallerMoves
<1>3. CASE ~(Current(k).kind \in {"delete", "upsert"})
  <2>1. /\ call' = [call EXCEPT ![k] = IdleCall(call[k].n, ErrorResult(k), call[k].files)]
        /\ PutBack(c, cn)
    BY <1>3 DEF Fail
  <2>2. After(k, FALSE) = "idle"
    BY <1>3 DEF After
  <2>3. /\ call'[k].pc = "idle" /\ call'[k].c = NoConn
        /\ \A j \in Callers \ {k} : call'[j] = call[j]
    BY <1>1, <2>1 DEF IdleCall
  <2> QED BY <2>1, <2>2, <2>3, GivesBack
<1> QED BY <1>2, <1>3

\* A statement that succeeded is followed by the next, or its connection is given back clean.
LEMMA SucceedKeeps ==
    ASSUME Typed, WireIInv, NEW k \in Callers, call[k].pc \in {"send", "wait"},
           NEW c \in Conns, call[k].c = c, NEW found, Succeed(k, found),
           \A d \in Conns \ {c} :
               req'[d] = req[d] /\ ans'[d] = ans[d] /\ sess'[d] = sess[d],
           Wire(c)', req'[c] = <<>>, ans'[c] = <<>>,
           sess'[c].st = After(k, TRUE) \/ (conn[c].cut /\ sess'[c].st = "none")
    PROVE  WireIInv'
<1>1. /\ Lent(k) /\ c # NoConn /\ free \in SUBSET Conns /\ call \in [Callers -> Call_]
      /\ call[k] \in Call_ /\ conn \in [Conns -> Conn_] /\ call[k].pc # "idle"
  BY CallTyped DEF WireIInv, Typed, CallsTyped, Going
<1>2. call[k].at \in Nat /\ Len(call[k].stmts) \in Nat /\ call[k].at <= Len(call[k].stmts)
      /\ Current(k).kind \in Kinds
  BY <1>1, CallTyped, CurrentTyped DEF Going, Stmt_
<1>3. CASE call[k].at # RollingBack /\ call[k].at < Len(call[k].stmts)
  <2>1. call' = [call EXCEPT ![k] = [@ EXCEPT !.pc = "send", !.at = call[k].at + 1]]
        /\ conn' = conn /\ free' = free
    BY <1>3 DEF Succeed
  <2>2. /\ call'[k].pc = "send" /\ call'[k].at = call[k].at + 1 /\ call'[k].c = c
        /\ \A j \in Callers \ {k} : call'[j] = call[j]
    BY <1>1, <2>1 DEF Call_, Fields
  <2>3. Before(k)' = "tx"
    BY <1>2, <1>3, <2>2 DEF Before, RollingBack
  <2>4. After(k, TRUE) = "tx"
    <3>1. Current(k).kind \in {"begin", "delete", "upsert"}
      <4>1. /\ Current(k).kind # "rollback"
            /\ Current(k).kind \in {"select", "ping"} => Len(call[k].stmts) = 1 /\ call[k].at = 1
            /\ Current(k).kind = "commit" => call[k].at = Len(call[k].stmts)
        BY <1>1, <1>3, PlaceOfKind
      <4>2. \A a, n \in Nat : a < n => a # n /\ ~(n = 1 /\ a = 1)
        OBVIOUS
      <4>3. Current(k).kind \notin {"select", "ping", "commit", "rollback"}
        BY <1>2, <1>3, <4>1, <4>2
      <4> QED BY <1>2, <4>3 DEF Kinds
    <3> QED BY <3>1 DEF After
  <2>5. Sends(k)' /\ Waits(k)'
    BY <2>1, <2>2, <2>3, <2>4 DEF Sends, Waits, Gone
  <2>6. \A j \in Callers \ {k} : call[j].c # c
    BY <1>1 DEF Lent
  <2>7. c \notin free /\ conn'[c].up
    BY <1>1, <2>1 DEF Lent
  <2>8. Elsewhere(k, c)
    BY <1>1, <2>1, <2>2, <2>6 DEF Elsewhere
  <2>9. Holds(k, c) /\ c \notin free'
    BY <2>1, <2>2, <2>7 DEF Holds
  <2> QED BY <2>5, <2>8, <2>9, CallerMoves
<1>4. CASE ~(call[k].at # RollingBack /\ call[k].at < Len(call[k].stmts))
  <2> DEFINE r == IF call[k].at = RollingBack THEN "error" ELSE IF found THEN "ok" ELSE "missing"
  <2>1. /\ call' = [call EXCEPT ![k] = IdleCall(call[k].n, r, call[k].files)]
        /\ PutBack(c, conn)
    BY <1>4 DEF Succeed
  <2> HIDE DEF r
  <2>2. After(k, TRUE) = "idle"
    <3>1. Current(k).kind \notin {"begin", "delete", "upsert"}
      <4>1. CASE call[k].at = RollingBack
        BY <1>1, <4>1, PlaceOfKind
      <4>2. CASE call[k].at # RollingBack
        <5>1. ~(call[k].at < Len(call[k].stmts))
          BY <1>4, <4>2
        <5>2. /\ Current(k).kind \in {"delete", "upsert"} => call[k].at < Len(call[k].stmts)
              /\ Current(k).kind = "begin" => Len(call[k].stmts) >= 3 /\ call[k].at = 1
          BY <1>1, PlaceOfKind
        <5>3. \A a, n \in Nat : n >= 3 /\ a = 1 => a < n
          OBVIOUS
        <5> QED BY <1>2, <5>1, <5>2, <5>3
      <4> QED BY <4>1, <4>2
    <3> QED BY <3>1 DEF After
  <2>3. conn[c].up
    BY <1>1 DEF Lent
  <2>4. /\ call'[k].pc = "idle" /\ call'[k].c = NoConn
        /\ \A j \in Callers \ {k} : call'[j] = call[j]
    BY <1>1, <2>1 DEF IdleCall
  <2> QED BY <1>1, <2>1, <2>2, <2>3, <2>4, GivesBack
<1> QED BY <1>3, <1>4

\* Every step of a caller keeps WireIInv.
LEMMA CallerKeeps ==
    ASSUME Typed, WireIInv, Typed', NEW k \in Callers, Start(k) \/ CallerStep(k)
    PROVE  WireIInv'
<1>0. /\ call \in [Callers -> Call_] /\ call[k] \in Call_ /\ conn \in [Conns -> Conn_]
      /\ sess \in [Conns -> Sess_] /\ req \in [Conns -> Seq(Msg_)] /\ ans \in [Conns -> Seq(Ans_)]
      /\ free \in SUBSET Conns /\ NoConn \notin Conns
      /\ Lent(k) /\ Sends(k) /\ Waits(k) /\ Going(call[k])
      /\ free' \in SUBSET Conns
  BY CallTyped, PgWireAssumption DEF Typed, CallsTyped, StoreTyped, WireTyped, WireIInv
<1>1. CASE Start(k)
  <2>1. call'[k].pc = "acquire" /\ \A j \in Callers \ {k} : call'[j] = call[j]
    <3>1. PICK op \in Operations : call' = [call EXCEPT ![k] =
             [@ EXCEPT !.pc = "acquire", !.n = call[k].n + 1, !.stmts = op, !.at = 1, !.tries = 0,
                       !.result = "none", !.files = FilesOf(op)]]
      BY <1>1 DEF Start
    <3>2. call[k] \in Fields
      BY <1>0 DEF Call_
    <3> QED BY <1>0, <3>1, <3>2 DEF Fields
  <2>2. call'[k].c = NoConn
    <3>1. call'[k] \in Call_
      BY DEF Typed, CallsTyped
    <3> QED BY <2>1, <3>1, CallTyped DEF Going
  <2>3. UNCHANGED <<free, conn, req, ans, sess>>
    BY <1>1 DEF Start, wireVars, serverVars
  <2>4. Sends(k)' /\ Waits(k)'
    BY <2>1 DEF Sends, Waits, Gone
  <2>5. NoConn \in Conns \cup {NoConn} /\ NoConn \notin free'
    BY <1>0
  <2> QED BY <1>0, <2>1, <2>2, <2>3, <2>4, <2>5, CallerMoves DEF Elsewhere, Holds
<1>2. CASE Checkout(k)
  <2>1. PICK c \in free : /\ call[k].pc = "acquire" /\ free' = free \ {c} /\ Use(k, c)
                          /\ UNCHANGED <<conn, req, ans, sess>>
    BY <1>2 DEF Checkout, wireVars, serverVars
  <2>2. call'[k].pc = "send" /\ call'[k].c = c /\ call'[k].at = 1
        /\ \A j \in Callers \ {k} : call'[j] = call[j]
    BY <1>0, <2>1 DEF Use, Call_, Fields, Going
  <2>3. Kept(c) /\ Wire(c) /\ c \in Conns
    BY <1>0 DEF WireIInv
  <2>4. Before(k)' = "idle"
    BY <2>2 DEF Before, RollingBack
  <2>5. Sends(k)' /\ Waits(k)'
    BY <2>1, <2>2, <2>3, <2>4 DEF Sends, Waits, Kept, Gone
  <2>6. \A j \in Callers \ {k} : call[j].c # c
    BY <1>0, <2>3 DEF WireIInv, Lent
  <2>7. Wire(c)' /\ conn'[c].up /\ c \notin free'
    BY <2>1, <2>3 DEF Wire, Kept, Gone
  <2> QED BY <1>0, <2>1, <2>2, <2>3, <2>5, <2>6, <2>7, CallerMoves DEF Elsewhere, Holds
<1>3. CASE Dial(k)
  <2>1. PICK c \in Conns : /\ call[k].pc = "acquire" /\ Use(k, c) /\ free' = free /\ ~conn[c].up
                           /\ conn' = [conn EXCEPT ![c] = OpenConn]
                           /\ sess' = [sess EXCEPT ![c] = IdleSession]
                           /\ req' = [req EXCEPT ![c] = <<>>] /\ ans' = [ans EXCEPT ![c] = <<>>]
    BY <1>3 DEF Dial, MustDial
  <2>2. call'[k].pc = "send" /\ call'[k].c = c /\ call'[k].at = 1
        /\ \A j \in Callers \ {k} : call'[j] = call[j]
    BY <1>0, <2>1 DEF Use, Call_, Fields, Going
  <2>3. c \notin free /\ \A j \in Callers \ {k} : call[j].c = c => c = NoConn
    BY <1>0, <2>1 DEF WireIInv, Lent, Kept, Gone
  <2>4. /\ conn'[c] = OpenConn /\ sess'[c] = IdleSession /\ req'[c] = <<>> /\ ans'[c] = <<>>
        /\ OpenConn.up /\ ~OpenConn.bad
        /\ \A d \in Conns \ {c} : conn'[d] = conn[d] /\ req'[d] = req[d] /\ ans'[d] = ans[d]
                                  /\ sess'[d] = sess[d]
    BY <1>0, <2>1 DEF OpenConn, ClosedConn
  <2>5. Before(k)' = "idle"
    BY <2>2 DEF Before, RollingBack
  <2>6. Sends(k)' /\ Waits(k)'
    BY <2>2, <2>4, <2>5, IdleSessionTyped DEF Sends, Waits, Gone
  <2>7. Wire(c)'
    BY <2>4, IdleSessionTyped DEF Wire
  <2>8. Elsewhere(k, c)
    BY <1>0, <2>1, <2>2, <2>3, <2>4 DEF Elsewhere
  <2>9. Holds(k, c) /\ c \notin free'
    BY <2>1, <2>2, <2>3, <2>4 DEF Holds
  <2> QED BY <2>6, <2>7, <2>8, <2>9, CallerMoves
<1>4. CASE DialFails(k)
  <2>1. /\ call' = [call EXCEPT ![k] = IdleCall(call[k].n, "error", call[k].files)]
        /\ UNCHANGED <<free, conn, req, ans, sess>>
    BY <1>4 DEF DialFails, wireVars, serverVars
  <2>2. call'[k].pc = "idle" /\ call'[k].c = NoConn /\ \A j \in Callers \ {k} : call'[j] = call[j]
    BY <1>0, <2>1 DEF IdleCall
  <2>3. Sends(k)' /\ Waits(k)'
    BY <2>2 DEF Sends, Waits, Gone
  <2>4. NoConn \in Conns \cup {NoConn} /\ NoConn \notin Conns /\ NoConn \notin free'
    BY <1>0
  <2>5. Elsewhere(k, NoConn) /\ Holds(k, NoConn)
    BY <1>0, <2>1, <2>2 DEF Elsewhere, Holds
  <2>6. (NoConn \in Conns => Wire(NoConn)') /\ (NoConn \in free' => Kept(NoConn)')
    BY <2>4
  <2> QED BY <2>3, <2>4, <2>5, <2>6, CallerMoves
<1>5. CASE SendOnBad(k)
  <2>0. PICK c \in Conns : call[k].c = c
    BY <1>0, <1>5, CallTyped DEF SendOnBad
  <2>1. /\ call[k].pc = "send" /\ conn' = [conn EXCEPT ![c].up = FALSE]
        /\ UNCHANGED <<free, req, ans, sess>>
        /\ \/ call' = [call EXCEPT ![k] = [@ EXCEPT !.pc = "acquire", !.c = NoConn,
                                                    !.tries = call[k].tries + 1]]
           \/ call' = [call EXCEPT ![k] = IdleCall(call[k].n, "error", call[k].files)]
    BY <1>5, <2>0 DEF SendOnBad, wireVars, serverVars
  <2>2. /\ call'[k].pc \in {"idle", "acquire"} /\ call'[k].c = NoConn
        /\ \A j \in Callers \ {k} : call'[j] = call[j]
    <3>1. call[k] \in Fields
      BY <1>0 DEF Call_
    <3>2. CASE call' = [call EXCEPT ![k] = [@ EXCEPT !.pc = "acquire", !.c = NoConn,
                                                     !.tries = call[k].tries + 1]]
      BY <1>0, <3>1, <3>2 DEF Fields
    <3>3. CASE call' = [call EXCEPT ![k] = IdleCall(call[k].n, "error", call[k].files)]
      BY <1>0, <3>3 DEF IdleCall
    <3> QED BY <2>1, <3>2, <3>3
  <2>3. c # NoConn /\ c \notin free /\ \A j \in Callers \ {k} : call[j].c # c
    BY <1>0, <2>0, <2>1 DEF Going, Lent
  <2>4. Wire(c) /\ Wire(c)'
    BY <2>0, <2>1, <2>3 DEF Wire, WireIInv
  <2>5. Sends(k)' /\ Waits(k)'
    BY <2>2 DEF Sends, Waits, Gone
  <2>6. \A d \in Conns \ {c} : conn'[d] = conn[d]
    BY <1>0, <2>1
  <2>7. free' = free /\ req' = req /\ ans' = ans /\ sess' = sess
    BY <2>1
  <2>8. Elsewhere(k, c) /\ Holds(k, c) /\ c \notin free'
    BY <1>0, <2>2, <2>3, <2>6, <2>7 DEF Elsewhere, Holds
  <2> QED BY <2>4, <2>5, <2>8, CallerMoves
<1>6. CASE Send(k)
  <2>0. PICK c \in Conns : call[k].c = c
    BY <1>0, <1>6, CallTyped DEF Send
  <2> DEFINE m == Request(k)
  <2>1. /\ call[k].pc = "send" /\ ~conn[c].bad /\ ~conn[c].cut
        /\ req' = [req EXCEPT ![c] = Append(req[c], m)]
        /\ call' = [call EXCEPT ![k].pc = "wait"]
        /\ UNCHANGED <<free, conn, ans, sess>>
    BY <1>6, <2>0 DEF Send, serverVars
  <2>2. c \in Conns /\ c # NoConn /\ c \notin free /\ conn[c].up
        /\ \A j \in Callers \ {k} : call[j].c # c
    BY <1>0, <2>0, <2>1 DEF Going, Lent
  <2>3. req[c] = <<>> /\ ans[c] = <<>> /\ sess[c].st = Before(k) /\ Wire(c)
    BY <1>0, <2>0, <2>1, <2>2 DEF Sends, WireIInv, Gone
  <2>4. Append(<<>>, m) = <<m>> /\ Head(<<m>>) = m
    BY OneMessage
  <2>5. /\ call'[k].pc = "wait" /\ call'[k].c = c /\ call'[k].at = call[k].at
        /\ call'[k].n = call[k].n /\ call'[k].stmts = call[k].stmts /\ call'[k].files = call[k].files
        /\ \A j \in Callers \ {k} : call'[j] = call[j]
    <3>1. call[k] \in Fields
      BY <1>0 DEF Call_
    <3> QED BY <1>0, <2>0, <2>1, <3>1 DEF Fields
  <2>6. Request(k)' = m /\ Before(k)' = Before(k)
    BY <2>5 DEF Request, StmtId, Current, Before
  <2>7. req'[c] = <<m>> /\ \A d \in Conns \ {c} : req'[d] = req[d]
    BY <1>0, <2>1, <2>2, <2>3, <2>4
  <2>10. m = Request(k)
    OBVIOUS
  <2> HIDE DEF m
  <2>8. Sends(k)' /\ Waits(k)'
    BY <2>1, <2>3, <2>5, <2>6, <2>7, <2>10 DEF Sends, Waits, Gone
  <2>9. Wire(c)'
    BY <2>1, <2>3, <2>4, <2>7 DEF Wire
  <2>13. free' = free /\ conn' = conn /\ ans' = ans /\ sess' = sess /\ call'[k].c = c
    BY <2>1, <2>5
  <2>11. Elsewhere(k, c)
    BY <1>0, <2>2, <2>5, <2>7, <2>13 DEF Elsewhere
  <2>12. Holds(k, c) /\ c \notin free'
    BY <2>2, <2>13 DEF Holds
  <2> QED BY <2>8, <2>9, <2>11, <2>12, CallerMoves
<1>7. CASE Receive(k)
  <2>0. PICK c \in Conns : call[k].c = c
    BY <1>0, <1>7, CallTyped DEF Receive
  <2>1. /\ call[k].pc = "wait" /\ ans[c] # <<>> /\ ans' = [ans EXCEPT ![c] = Tail(ans[c])]
        /\ UNCHANGED <<req, sess>>
        /\ \/ Head(ans[c]).ok /\ Succeed(k, Head(ans[c]).found)
           \/ ~Head(ans[c]).ok /\ Fail(k, conn)
    BY <1>7, <2>0 DEF Receive, serverVars
  <2>2. c # NoConn /\ conn[c].up /\ Wire(c)
    BY <1>0, <2>0, <2>1 DEF Going, Lent, WireIInv
  <2>3. /\ ans[c] = <<Head(ans[c])>> /\ req[c] = <<>>
        /\ (sess[c].st = After(k, Head(ans[c]).ok) \/ (conn[c].cut /\ sess[c].st = "none"))
    BY <1>0, <2>0, <2>1, <2>2 DEF Waits, Wire, Gone
  <2>4. ans'[c] = <<>> /\ \A d \in Conns \ {c} : ans'[d] = ans[d]
    BY <1>0, <2>1, <2>2, <2>3, OneMessage
  <2>5. Wire(c)'
    BY <2>1, <2>2, <2>3, <2>4 DEF Wire
  <2>6. Head(ans[c]).ok \in BOOLEAN
    <3>1. ans[c] \in Seq(Ans_)
      BY <1>0
    <3>2. Head(ans[c]) \in Ans_
      BY <2>1, <3>1, HeadTailProperties
    <3> QED BY <3>2 DEF Ans_
  <2>7. CASE Head(ans[c]).ok /\ Succeed(k, Head(ans[c]).found)
    <3>1. After(k, Head(ans[c]).ok) = After(k, TRUE)
      BY <2>6, <2>7 DEF After
    <3> QED BY <2>0, <2>1, <2>2, <2>3, <2>4, <2>5, <2>7, <3>1, SucceedKeeps
  <2>8. CASE ~Head(ans[c]).ok /\ Fail(k, conn)
    <3>1. After(k, Head(ans[c]).ok) = After(k, FALSE)
      BY <2>6, <2>8 DEF After
    <3> QED BY <1>0, <2>0, <2>1, <2>2, <2>3, <2>4, <2>5, <2>8, <3>1, FailKeeps
  <2> QED BY <2>1, <2>7, <2>8
<1>8. CASE IOError(k)
  <2>0. PICK c \in Conns : call[k].c = c
    BY <1>0, <1>8, CallTyped DEF IOError
  <2> DEFINE cn == MarkBad(c)
  <2>1. /\ call[k].pc \in {"send", "wait"} /\ Fail(k, cn)
        /\ UNCHANGED <<req, ans, sess>>
    BY <1>8, <2>0 DEF IOError, serverVars
  <2>2. c \in Conns /\ conn[c].up /\ Wire(c)
    BY <1>0, <2>0, <2>1 DEF Going, Lent, WireIInv
  <2>3. cn \in [Conns -> Conn_] /\ cn[c].bad /\ cn[c].up /\ \A d \in Conns \ {c} : cn[d] = conn[d]
    BY <1>0, <2>2 DEF MarkBad, Conn_
  <2>4. Wire(c)'
    BY <2>1, <2>2 DEF Wire
  <2> HIDE DEF cn
  <2> QED BY <2>0, <2>1, <2>2, <2>3, <2>4, FailKeeps
<1> QED BY <1>1, <1>2, <1>3, <1>4, <1>5, <1>6, <1>7, <1>8 DEF CallerStep

\* In the first state nothing is in flight.
LEMMA InitWire == PgInit => WireIInv
BY DEF PgInit, WireIInv, Lent, Sends, Waits, Wire, IdleCall, NoSession, ClosedConn, Gone

\* Every step keeps WireIInv.
LEMMA NextWire == Typed /\ WireIInv /\ Typed' /\ [PgNext]_vars => WireIInv'
<1>1. ASSUME Typed, WireIInv, Typed', PgNext PROVE WireIInv'
  BY <1>1, CallerKeeps, ServerKeeps DEF PgNext
<1>2. ASSUME WireIInv, UNCHANGED vars PROVE WireIInv'
  BY <1>2 DEF vars, WireIInv, Lent, Sends, Waits, Wire, Kept, Before, After, Request, StmtId, Current, Gone
<1> QED BY <1>1, <1>2

\* The types and the wire, in every state.
THEOREM PgInvariant == PgSpec => [](Typed /\ WireIInv)
<1>1. PgInit => Typed /\ WireIInv
  BY InitTyped, InitWire DEF Typed
<1>2. Typed /\ WireIInv /\ [PgNext]_vars => (Typed /\ WireIInv)'
  <2>1. Typed /\ [PgNext]_vars => Typed'
    BY NextTyped DEF Typed
  <2> QED BY <2>1, NextWire
<1> QED BY <1>1, <1>2, PTL DEF PgSpec

\* AnswersMatch: a connection is lent to one caller, who reads the answer to its own statement,
\* whatever breaks or is given up.
THEOREM AnswersGoHome == PgSpec => []AnswersMatch
<1>1. Typed /\ WireIInv => AnswersMatch
  <2> SUFFICES ASSUME Typed, WireIInv, NEW k \in Callers
               PROVE  /\ call[k].pc \in {"send", "wait"} <=> call[k].c # NoConn
                      /\ call[k].c # NoConn => /\ call[k].c \notin free
                                               /\ \A j \in Callers \ {k} : call[j].c # call[k].c
                      /\ call[k].pc = "wait" /\ ans[call[k].c] # <<>> =>
                             Head(ans[call[k].c]).id = StmtId(k)
    BY DEF AnswersMatch
  <2>1. Lent(k) /\ Waits(k) /\ Going(call[k])
    BY CallTyped DEF WireIInv, Typed, CallsTyped
  <2>2. call[k].pc = "wait" => Wire(call[k].c)
    BY <2>1, CallTyped DEF WireIInv, Typed, CallsTyped
  <2>3. call[k].pc = "wait" /\ ans[call[k].c] # <<>> => Head(ans[call[k].c]).id = StmtId(k)
    BY <2>1, <2>2 DEF Waits, Wire, Gone
  <2> QED BY <2>1, <2>3 DEF Going, Lent
<1> QED BY <1>1, PgInvariant, PTL

\* PoolIsClean: an idle connection that will be used as it is has nothing open and nothing
\* under way, and the pool keeps no more of them than it may.
THEOREM BorrowersFindItClean == PgSpec => []PoolIsClean
<1>1. Typed /\ WireIInv => PoolIsClean
  BY DEF Typed, CallsTyped, WireIInv, Kept, PoolIsClean, Gone
<1> QED BY <1>1, PgInvariant, PTL

-------------------------------------------------------------------------------
(* A statement is sent once, and runs at most once. *)

\* Of the current operation, the statements up to the current place are sent.
Asked(k) ==
    \A i \in sent : i[1] = k =>
        /\ i[2] <= call[k].n
        /\ i[2] = call[k].n =>
              /\ call[k].pc # "acquire"
              /\ call[k].pc = "send" => i[3] # call[k].at
              /\ call[k].pc \in {"send", "wait"} /\ call[k].at # RollingBack =>
                    i[3] >= 1 /\ i[3] <= call[k].at

\* A statement under way has not been executed, and is under way only once.
InFlight(c) ==
    /\ req[c] # <<>> => Head(req[c]).id \in sent \ ran
    /\ \A d \in Conns \ {c} : req[c] # <<>> /\ req[d] # <<>> => Head(req[c]).id # Head(req[d]).id
    /\ ans[c] # <<>> /\ Head(ans[c]).ok => Head(ans[c]).id \in ran

OnceIInv ==
    /\ sent \in SUBSET StmtIds /\ ran \in SUBSET sent /\ told \in SUBSET ran /\ reran = {}
    /\ \A k \in Callers : Asked(k)
    /\ \A c \in Conns : InFlight(c)

\* What a statement's step does to the history: nothing, or what AtMostOnce allows.
HistoryStep ==
    \/ sent' = sent /\ ran' = ran /\ told' = told
    \/ \E i \in StmtIds \ sent : sent' = sent \cup {i} /\ ran' = ran /\ told' = told
    \/ \E i \in sent \ ran : ran' = ran \cup {i} /\ sent' = sent /\ told' = told
    \/ \E i \in ran : told' = told \cup {i} /\ sent' = sent /\ ran' = ran

\* A statement is named by its caller, operation and place.
LEMMA StmtIdTyped ==
    ASSUME NEW i \in StmtIds
    PROVE  i[1] \in Callers /\ i[2] \in Nat /\ i[3] \in Nat /\ i = <<i[1], i[2], i[3]>>
<1>1. MaxOps \in Nat /\ Cardinality(Paths) \in Nat
  BY PgWireAssumption, FS_CardinalityType
<1> QED BY <1>1 DEF StmtIds

\* Nothing new is on its way.
LEMMA NothingNew ==
    ASSUME OnceIInv,
           \A d \in Conns : (req'[d] = req[d] \/ req'[d] = <<>>) /\ (ans'[d] = ans[d] \/ ans'[d] = <<>>),
           UNCHANGED <<sent, ran, reran>>
    PROVE  \A c \in Conns : InFlight(c)'
<1> SUFFICES ASSUME NEW c \in Conns PROVE InFlight(c)'
  OBVIOUS
<1>1. InFlight(c)
  BY DEF OnceIInv
<1>2. req'[c] # <<>> => req'[c] = req[c]
  OBVIOUS
<1>3. \A d \in Conns : req'[d] # <<>> => req'[d] = req[d]
  OBVIOUS
<1>4. ans'[c] # <<>> => ans'[c] = ans[c]
  OBVIOUS
<1> QED BY <1>1, <1>2, <1>3, <1>4 DEF InFlight

\* Other callers' statements are not concerned.
LEMMA OthersAsked ==
    ASSUME OnceIInv, NEW k \in Callers, \A j \in Callers \ {k} : call'[j] = call[j],
           sent' = sent \/ sent' = sent \cup {StmtId(k)}, Asked(k)'
    PROVE  \A j \in Callers : Asked(j)'
<1> SUFFICES ASSUME NEW j \in Callers, j # k PROVE Asked(j)'
  OBVIOUS
<1>1. Asked(j) /\ call'[j] = call[j]
  BY DEF OnceIInv
<1>2. \A i \in sent' : i[1] = j => i \in sent
  BY DEF StmtId
<1> QED BY <1>1, <1>2 DEF Asked

\* A caller that is back, or is to get a connection for its first statement.
LEMMA LooksForOne ==
    ASSUME Typed, OnceIInv, NEW k \in Callers, sent' = sent, call'[k].n = call[k].n,
           \/ call'[k].pc = "idle"
           \/ call[k].pc = "acquire"
           \/ call[k].pc = "send" /\ call[k].at = 1
    PROVE  Asked(k)'
<1> SUFFICES ASSUME NEW i \in sent, i[1] = k
             PROVE  /\ i[2] <= call'[k].n
                    /\ i[2] = call'[k].n => call'[k].pc = "idle"
  BY DEF Asked
<1>1. Asked(k) /\ i \in StmtIds
  BY DEF OnceIInv
<1>2. i[3] \in Nat
  BY <1>1, StmtIdTyped
<1>3. CASE call[k].pc = "send" /\ call[k].at = 1
  <2>1. i[2] = call[k].n => i[3] # 1 /\ i[3] >= 1 /\ i[3] <= 1
    BY <1>1, <1>3 DEF Asked, RollingBack
  <2> QED BY <1>1, <1>2, <2>1 DEF Asked
<1>4. CASE call[k].pc = "acquire" \/ call'[k].pc = "idle"
  BY <1>1, <1>4 DEF Asked
<1> QED BY <1>3, <1>4

\* A caller that goes on to a later place, or to the deferred Rollback.
LEMMA Advances ==
    ASSUME Typed, OnceIInv, NEW k \in Callers, sent' = sent, call'[k].n = call[k].n,
           call[k].pc \in {"send", "wait"}, call[k].at # RollingBack, call'[k].pc = "send",
           call'[k].at = RollingBack \/ call'[k].at = call[k].at + 1
    PROVE  Asked(k)'
<1>1. Asked(k) /\ call[k].at \in Nat
  BY CallTyped DEF OnceIInv, Typed, CallsTyped
<1>2. ASSUME NEW i \in sent, i[1] = k, i[2] = call[k].n
      PROVE  i[3] >= 1 /\ i[3] <= call[k].at /\ i[3] \in Nat
  BY <1>1, <1>2, StmtIdTyped DEF Asked, OnceIInv
<1>3. ASSUME NEW i \in sent, i[1] = k, i[2] = call[k].n
      PROVE  i[3] # call'[k].at /\ (call'[k].at # RollingBack => i[3] >= 1 /\ i[3] <= call'[k].at)
  BY <1>1, <1>2, <1>3 DEF RollingBack
<1> QED BY <1>1, <1>3 DEF Asked

\* A caller sends a statement that was never sent, or is told of one that ran.
LEMMA CallerOnce ==
    ASSUME Typed, WireIInv, OnceIInv, NEW k \in Callers, Start(k) \/ CallerStep(k)
    PROVE  OnceIInv' /\ HistoryStep
<1>0. /\ call \in [Callers -> Call_] /\ call[k] \in Call_ /\ call[k] \in Fields
      /\ req \in [Conns -> Seq(Msg_)] /\ ans \in [Conns -> Seq(Ans_)]
      /\ Lent(k) /\ Sends(k) /\ Waits(k) /\ Going(call[k]) /\ Asked(k)
      /\ call[k].n \in Nat /\ call[k].at \in Nat
      /\ call[k].pc \in {"send", "wait"} => call[k].c \in Conns
  BY CallTyped, PgWireAssumption DEF Typed, CallsTyped, WireTyped, WireIInv, OnceIInv, Call_
<1>1. CASE Start(k)
  <2>1. PICK op \in Operations : call' = [call EXCEPT ![k] =
             [@ EXCEPT !.pc = "acquire", !.n = call[k].n + 1, !.stmts = op, !.at = 1, !.tries = 0,
                       !.result = "none", !.files = FilesOf(op)]]
    BY <1>1 DEF Start
  <2>2. call'[k].n = call[k].n + 1 /\ \A j \in Callers \ {k} : call'[j] = call[j]
    BY <1>0, <2>1 DEF Fields
  <2>3. UNCHANGED <<req, ans, sent, ran, reran, told>>
    BY <1>1 DEF Start, wireVars, serverVars
  <2>4. Asked(k)'
    <3> SUFFICES ASSUME NEW i \in sent, i[1] = k PROVE i[2] <= call'[k].n /\ i[2] # call'[k].n
      BY <2>3 DEF Asked
    <3>1. i[2] <= call[k].n /\ i[2] \in Nat
      BY <1>0, StmtIdTyped DEF Asked, OnceIInv
    <3> QED BY <1>0, <2>2, <3>1
  <2>5. \A c \in Conns : InFlight(c)'
    BY <2>3, NothingNew
  <2>6. \A j \in Callers : Asked(j)'
    BY <2>2, <2>3, <2>4, OthersAsked
  <2> QED BY <2>3, <2>5, <2>6 DEF OnceIInv, HistoryStep
<1>2. CASE Checkout(k) \/ Dial(k)
  <2>1. /\ call[k].pc = "acquire" /\ UNCHANGED <<sent, ran, reran, told>>
        /\ \E c : Use(k, c)
        /\ \A d \in Conns : (req'[d] = req[d] \/ req'[d] = <<>>) /\ (ans'[d] = ans[d] \/ ans'[d] = <<>>)
    BY <1>0, <1>2 DEF Checkout, Dial, MustDial, wireVars, serverVars
  <2>2. call'[k].n = call[k].n /\ \A j \in Callers \ {k} : call'[j] = call[j]
    BY <1>0, <2>1 DEF Use, Fields
  <2>3. Asked(k)'
    BY <2>1, <2>2, LooksForOne
  <2>4. \A c \in Conns : InFlight(c)'
    BY <2>1, NothingNew
  <2>5. \A j \in Callers : Asked(j)'
    BY <2>1, <2>2, <2>3, OthersAsked
  <2> QED BY <2>1, <2>4, <2>5 DEF OnceIInv, HistoryStep
<1>3. CASE DialFails(k) \/ SendOnBad(k)
  <2>1. /\ UNCHANGED <<req, ans, sent, ran, reran, told>>
        /\ \/ call' = [call EXCEPT ![k] = IdleCall(call[k].n, "error", call[k].files)]
           \/ /\ call[k].pc = "send" /\ call[k].at = 1
              /\ call' = [call EXCEPT ![k] = [@ EXCEPT !.pc = "acquire", !.c = NoConn,
                                                       !.tries = call[k].tries + 1]]
    BY <1>3 DEF DialFails, SendOnBad, wireVars, serverVars
  <2>2. /\ call'[k].n = call[k].n /\ \A j \in Callers \ {k} : call'[j] = call[j]
        /\ call'[k].pc = "idle" \/ (call[k].pc = "send" /\ call[k].at = 1)
    <3>1. CASE call' = [call EXCEPT ![k] = IdleCall(call[k].n, "error", call[k].files)]
      BY <1>0, <3>1 DEF IdleCall
    <3>2. CASE /\ call[k].pc = "send" /\ call[k].at = 1
               /\ call' = [call EXCEPT ![k] = [@ EXCEPT !.pc = "acquire", !.c = NoConn,
                                                        !.tries = call[k].tries + 1]]
      BY <1>0, <3>2 DEF Fields
    <3> QED BY <2>1, <3>1, <3>2
  <2>3. Asked(k)'
    BY <2>1, <2>2, LooksForOne
  <2>4. \A c \in Conns : InFlight(c)'
    BY <2>1, NothingNew
  <2>5. \A j \in Callers : Asked(j)'
    BY <2>1, <2>2, <2>3, OthersAsked
  <2> QED BY <2>1, <2>4, <2>5 DEF OnceIInv, HistoryStep
<1>4. CASE Send(k)
  <2>0. PICK c \in Conns : call[k].c = c
    BY <1>0, <1>4 DEF Send
  <2> DEFINE m == Request(k)
             id == StmtId(k)
  <2>1. /\ call[k].pc = "send" /\ ~conn[c].bad /\ req' = [req EXCEPT ![c] = Append(req[c], m)]
        /\ call' = [call EXCEPT ![k].pc = "wait"]
        /\ sent' = sent \cup {id} /\ UNCHANGED <<ans, ran, reran, told>>
    BY <1>4, <2>0 DEF Send, serverVars
  <2>2. req[c] = <<>> /\ ans[c] = <<>>
    BY <1>0, <2>0, <2>1 DEF Sends
  <2>3. req'[c] = <<m>> /\ Head(<<m>>) = m /\ m.id = id /\ \A d \in Conns \ {c} : req'[d] = req[d]
    <3>1. Append(<<>>, m) = <<m>> /\ Head(<<m>>) = m
      BY OneMessage
    <3>2. m.id = id
      BY DEF Request
    <3> QED BY <1>0, <2>1, <2>2, <3>1, <3>2
  <2>4. id \in StmtIds \ sent
    <3>1. id \in StmtIds
      BY <1>0, <2>1, CurrentTyped
    <3>2. id[1] = k /\ id[2] = call[k].n /\ id[3] = call[k].at
      BY DEF StmtId
    <3>3. id \notin sent
      <4> SUFFICES ASSUME id \in sent PROVE FALSE
        OBVIOUS
      <4> HIDE DEF id
      <4> QED BY <1>0, <2>1, <3>2 DEF Asked
    <3> QED BY <3>1, <3>3
  <2>5. /\ call'[k].pc = "wait" /\ call'[k].n = call[k].n /\ call'[k].at = call[k].at
        /\ \A j \in Callers \ {k} : call'[j] = call[j]
    BY <1>0, <2>1 DEF Fields
  <2>6. Asked(k)'
    <3> SUFFICES ASSUME NEW i \in sent', i[1] = k
                 PROVE  /\ i[2] <= call[k].n
                        /\ i[2] = call[k].n /\ call[k].at # RollingBack =>
                              i[3] >= 1 /\ i[3] <= call[k].at
      BY <2>5 DEF Asked
    <3>1. CASE i \in sent
      BY <1>0, <2>1, <3>1 DEF Asked
    <3>2. CASE i = id
      <4>1. i[2] = call[k].n /\ i[3] = call[k].at
        BY <3>2 DEF StmtId
      <4> QED BY <1>0, <4>1 DEF RollingBack
    <3> QED BY <2>1, <3>1, <3>2
  <2>7. \A j \in Callers : Asked(j)'
    BY <2>1, <2>5, <2>6, OthersAsked
  <2> HIDE DEF m, id
  <2>8. ASSUME NEW d \in Conns PROVE InFlight(d)'
    <3>1. InFlight(d) /\ (\A e \in Conns : req[e] # <<>> => Head(req[e]).id \in sent \ ran)
      BY DEF OnceIInv, InFlight
    <3>2. ran' = ran /\ ans' = ans /\ id \notin ran
      BY <2>1, <2>4 DEF OnceIInv
    <3>3. \A e \in Conns : e # c => req'[e] = req[e]
      BY <2>3
    <3>4. CASE d = c
      BY <2>1, <2>2, <2>3, <2>4, <3>1, <3>2, <3>3, <3>4 DEF InFlight
    <3>5. CASE d # c
      <4>1. req'[d] # <<>> => Head(req'[d]).id \in sent' \ ran'
        BY <2>1, <3>1, <3>2, <3>3, <3>5
      <4>2. \A e \in Conns \ {d} : req'[d] # <<>> /\ req'[e] # <<>> =>
                Head(req'[d]).id # Head(req'[e]).id
        BY <2>3, <2>4, <3>1, <3>3, <3>5 DEF InFlight
      <4> QED BY <3>1, <3>2, <4>1, <4>2 DEF InFlight
    <3> QED BY <3>4, <3>5
  <2> QED BY <2>1, <2>4, <2>7, <2>8 DEF OnceIInv, HistoryStep
<1>5. CASE Receive(k) \/ IOError(k)
  <2>0. PICK c \in Conns : call[k].c = c
    BY <1>0, <1>5 DEF Receive, IOError
  <2>1. /\ call[k].pc \in {"send", "wait"} /\ UNCHANGED <<sent, ran, reran>>
        /\ (\E cn : Fail(k, cn)) \/ (\E found : Succeed(k, found))
        /\ req' = req
        /\ ans' = ans \/ (ans[c] # <<>> /\ call[k].pc = "wait" /\ ans' = [ans EXCEPT ![c] = Tail(ans[c])])
        /\ told' = told \/ (call[k].pc = "wait" /\ ans[c] # <<>> /\ Head(ans[c]).ok
                            /\ told' = told \cup {StmtId(k)})
    BY <1>5, <2>0 DEF Receive, IOError, serverVars
  <2>2. Wire(c)
    BY DEF WireIInv
  <2>3. \A d \in Conns : req'[d] = req[d] /\ (ans'[d] = ans[d] \/ ans'[d] = <<>>)
    <3>1. CASE ans' = ans
      BY <2>1, <3>1
    <3>2. CASE ans[c] # <<>> /\ ans' = [ans EXCEPT ![c] = Tail(ans[c])]
      <4>1. Tail(ans[c]) = <<>>
        BY <2>2, <3>2, OneMessage DEF Wire
      <4> QED BY <1>0, <2>1, <3>2, <4>1
    <3> QED BY <2>1, <3>1, <3>2
  <2>4. told' = told \/ (StmtId(k) \in ran /\ told' = told \cup {StmtId(k)})
    <3> SUFFICES ASSUME call[k].pc = "wait", ans[c] # <<>>, Head(ans[c]).ok PROVE StmtId(k) \in ran
      BY <2>1
    <3>1. Head(ans[c]).id = StmtId(k)
      BY <1>0, <2>0, <2>2 DEF Waits, Wire
    <3> QED BY <3>1 DEF OnceIInv, InFlight
  <2>5. Asked(k)' /\ \A j \in Callers \ {k} : call'[j] = call[j]
    <3>1. CASE \E cn : Fail(k, cn)
      <4>1. CASE Current(k).kind \in {"delete", "upsert"}
        <5>1. call' = [call EXCEPT ![k] = [@ EXCEPT !.pc = "send", !.at = RollingBack]]
          BY <3>1, <4>1 DEF Fail
        <5>2. /\ call'[k].pc = "send" /\ call'[k].n = call[k].n /\ call'[k].at = RollingBack
              /\ \A j \in Callers \ {k} : call'[j] = call[j]
          BY <1>0, <5>1 DEF Fields
        <5>3. call[k].at # RollingBack
          BY <4>1 DEF Current, Statement
        <5> QED BY <2>1, <5>2, <5>3, Advances
      <4>2. CASE ~(Current(k).kind \in {"delete", "upsert"})
        <5>1. call' = [call EXCEPT ![k] = IdleCall(call[k].n, ErrorResult(k), call[k].files)]
          BY <3>1, <4>2 DEF Fail
        <5>2. /\ call'[k].pc = "idle" /\ call'[k].n = call[k].n
              /\ \A j \in Callers \ {k} : call'[j] = call[j]
          BY <1>0, <5>1 DEF IdleCall
        <5> QED BY <2>1, <5>2, LooksForOne
      <4> QED BY <4>1, <4>2
    <3>2. CASE \E found : Succeed(k, found)
      <4>1. CASE call[k].at # RollingBack /\ call[k].at < Len(call[k].stmts)
        <5>1. call' = [call EXCEPT ![k] = [@ EXCEPT !.pc = "send", !.at = call[k].at + 1]]
          BY <3>2, <4>1 DEF Succeed
        <5>2. /\ call'[k].pc = "send" /\ call'[k].n = call[k].n /\ call'[k].at = call[k].at + 1
              /\ \A j \in Callers \ {k} : call'[j] = call[j]
          BY <1>0, <5>1 DEF Fields
        <5> QED BY <2>1, <4>1, <5>2, Advances
      <4>2. CASE ~(call[k].at # RollingBack /\ call[k].at < Len(call[k].stmts))
        <5>1. \E r : call' = [call EXCEPT ![k] = IdleCall(call[k].n, r, call[k].files)]
          BY <3>2, <4>2 DEF Succeed
        <5>2. /\ call'[k].pc = "idle" /\ call'[k].n = call[k].n
              /\ \A j \in Callers \ {k} : call'[j] = call[j]
          BY <1>0, <5>1 DEF IdleCall
        <5> QED BY <2>1, <5>2, LooksForOne
      <4> QED BY <4>1, <4>2
    <3> QED BY <2>1, <3>1, <3>2
  <2>6. \A d \in Conns : InFlight(d)'
    BY <2>1, <2>3, NothingNew
  <2>7. \A j \in Callers : Asked(j)'
    BY <2>1, <2>5, OthersAsked
  <2>8. HistoryStep
    BY <2>1, <2>4 DEF HistoryStep
  <2> QED BY <2>1, <2>4, <2>6, <2>7 , <2>8 DEF OnceIInv
<1> QED BY <1>1, <1>2, <1>3, <1>4, <1>5 DEF CallerStep

\* The server: a statement at the head of a stream is executed, or not.
LEMMA AnswerOnce ==
    ASSUME Typed, WireIInv, OnceIInv, NEW c \in Conns, req[c] # <<>>,
           NEW ok \in BOOLEAN, NEW found \in BOOLEAN, Answer(c, ok, found),
           call' = call, sent' = sent, told' = told
    PROVE  OnceIInv' /\ HistoryStep
<1> DEFINE id == Head(req[c]).id
           a == [id |-> id, ok |-> ok, found |-> found]
<1>1. /\ Tail(req[c]) = <<>> /\ ans[c] = <<>> /\ Append(<<>>, a) = <<a>> /\ Head(<<a>>) = a
  BY OneMessage DEF Wire, WireIInv
<1>2. /\ id \in sent \ ran
      /\ \A d \in Conns \ {c} : req[d] # <<>> => Head(req[d]).id # id
  BY DEF OnceIInv, InFlight
<1>3. /\ \A d \in Conns \ {c} : req'[d] = req[d] /\ ans'[d] = ans[d]
      /\ req'[c] = <<>>
      /\ ans'[c] = <<>> \/ ans'[c] = <<a>>
      /\ ran' = IF ok THEN ran \cup {id} ELSE ran
      /\ reran' = IF ok /\ id \in ran THEN reran \cup {id} ELSE reran
  BY <1>1 DEF Answer, Typed, WireTyped
<1>4. reran' = {}
  BY <1>2, <1>3 DEF OnceIInv
<1>5. \A k \in Callers : Asked(k)'
  BY DEF OnceIInv, Asked
<1>6. a.id = id /\ a.ok = ok
  OBVIOUS
<1> HIDE DEF id, a
<1>7. ASSUME NEW d \in Conns PROVE InFlight(d)'
  <2>1. InFlight(d)
    BY DEF OnceIInv
  <2>2. CASE d = c
    BY <1>1, <1>3, <1>6, <2>2 DEF InFlight
  <2>3. CASE d # c
    <3>1. req'[d] # <<>> => Head(req'[d]).id \in sent' \ ran'
      BY <1>2, <1>3, <2>1, <2>3 DEF InFlight
    <3>2. \A e \in Conns \ {d} : req'[d] # <<>> /\ req'[e] # <<>> =>
              Head(req'[d]).id # Head(req'[e]).id
      BY <1>3, <2>1, <2>3 DEF InFlight
    <3>3. ans'[d] # <<>> /\ Head(ans'[d]).ok => Head(ans'[d]).id \in ran'
      BY <1>3, <2>1, <2>3 DEF InFlight
    <3> QED BY <3>1, <3>2, <3>3 DEF InFlight
  <2> QED BY <2>2, <2>3
<1>8. HistoryStep
  BY <1>2, <1>3 DEF HistoryStep
<1> QED BY <1>2, <1>3, <1>4, <1>5, <1>7, <1>8 DEF OnceIInv

\* The server executes a statement that had not run.
LEMMA ServerOnce ==
    ASSUME Typed, WireIInv, OnceIInv, NEW c \in Conns, Serve(c) \/ ServerRefuses(c) \/ Break(c)
    PROVE  OnceIInv' /\ HistoryStep
<1>1. CASE \/ ServerBegin(c) \/ ServerRead(c) \/ DeleteDone(c) \/ ServerUpsert(c) \/ ServerCommit(c)
           \/ ServerRollback(c) \/ DeadlockVictim(c) \/ ServerRefuses(c)
  <2>1. /\ req[c] # <<>> /\ call' = call /\ sent' = sent /\ told' = told
        /\ \E ok, found \in BOOLEAN : Answer(c, ok, found)
    BY <1>1 DEF ServerBegin, ServerRead, DeleteDone, ServerUpsert, ServerCommit, ServerRollback,
                DeadlockVictim, ServerRefuses, Abort, Executes, clientVars
  <2> QED BY <2>1, AnswerOnce
<1>2. CASE ServerDelete(c) \/ DeleteRow(c) \/ ServerEnds(c) \/ Break(c)
  <2>1. /\ UNCHANGED <<call, sent, ran, reran, told>>
        /\ \A d \in Conns : (req'[d] = req[d] \/ req'[d] = <<>>) /\ (ans'[d] = ans[d] \/ ans'[d] = <<>>)
    BY <1>2 DEF ServerDelete, DeleteRow, ServerEnds, Break, clientVars, wireVars, serverVars, Typed, WireTyped
  <2>2. \A d \in Conns : InFlight(d)'
    BY <2>1, NothingNew
  <2>3. \A k \in Callers : Asked(k)'
    BY <2>1 DEF OnceIInv, Asked
  <2> QED BY <2>1, <2>2, <2>3 DEF OnceIInv, HistoryStep
<1> QED BY <1>1, <1>2 DEF Serve

\* In the first state nothing was sent.
LEMMA InitOnce == PgInit => OnceIInv
BY DEF PgInit, OnceIInv, Asked, InFlight

\* Every step keeps OnceIInv and is one of the history.
LEMMA NextOnce == Typed /\ WireIInv /\ OnceIInv /\ [PgNext]_vars => OnceIInv' /\ HistoryStep
<1>1. ASSUME Typed, WireIInv, OnceIInv, PgNext PROVE OnceIInv' /\ HistoryStep
  BY <1>1, CallerOnce, ServerOnce DEF PgNext
<1>2. ASSUME OnceIInv, UNCHANGED vars PROVE OnceIInv' /\ HistoryStep
  BY <1>2 DEF vars, OnceIInv, Asked, InFlight, HistoryStep
<1> QED BY <1>1, <1>2

\* A statement under way was sent once and has not run; none runs twice, and only those that
\* ran are reported (simpleQuery, and the retries of database/sql).
THEOREM OnceInvariant == PgSpec => []OnceIInv
<1>1. PgInit => Typed /\ WireIInv /\ OnceIInv
  BY InitTyped, InitWire, InitOnce DEF Typed
<1>2. Typed /\ WireIInv /\ OnceIInv /\ [PgNext]_vars => (Typed /\ WireIInv /\ OnceIInv)'
  <2>1. Typed /\ [PgNext]_vars => Typed'
    BY NextTyped DEF Typed
  <2> QED BY <2>1, NextWire, NextOnce
<1> QED BY <1>1, <1>2, PTL DEF PgSpec

\* Every step of the driver's history is one of AtMostOnce, or none.
LEMMA StepIsOnce ==
    OnceIInv /\ OnceIInv' /\ HistoryStep => [Once!OnceNext]_(Once!onceVars)
<1> SUFFICES ASSUME OnceIInv, OnceIInv', HistoryStep PROVE [Once!OnceNext]_(Once!onceVars)
  OBVIOUS
<1> DEFINE runs == [i \in StmtIds |-> IF i \in reran THEN 2 ELSE IF i \in ran THEN 1 ELSE 0]
<1>1. /\ runs = [i \in StmtIds |-> IF i \in ran THEN 1 ELSE 0]
      /\ runs' = [i \in StmtIds |-> IF i \in ran' THEN 1 ELSE 0]
      /\ sent \in SUBSET StmtIds /\ ran \in SUBSET sent
  BY DEF OnceIInv
<1>2. CASE sent' = sent /\ ran' = ran /\ told' = told
  BY <1>1, <1>2 DEF Once!onceVars
<1>3. CASE \E i \in StmtIds \ sent : sent' = sent \cup {i} /\ ran' = ran /\ told' = told
  <2>1. PICK i \in StmtIds : i \notin sent /\ sent' = sent \cup {i} /\ ran' = ran /\ told' = told
    BY <1>3
  <2>2. Once!Ask(i)
    BY <1>1, <2>1 DEF Once!Ask
  <2> QED BY <2>2 DEF Once!OnceNext
<1>4. CASE \E i \in sent \ ran : ran' = ran \cup {i} /\ sent' = sent /\ told' = told
  <2>1. PICK i \in sent \ ran : ran' = ran \cup {i} /\ sent' = sent /\ told' = told
    BY <1>4
  <2>2. i \in StmtIds /\ runs[i] = 0 /\ runs' = [runs EXCEPT ![i] = 1]
    BY <1>1, <2>1
  <2>3. Once!Execute(i)
    BY <2>1, <2>2 DEF Once!Execute
  <2> QED BY <2>2, <2>3 DEF Once!OnceNext
<1>5. CASE \E i \in ran : told' = told \cup {i} /\ sent' = sent /\ ran' = ran
  <2>1. PICK i \in ran : told' = told \cup {i} /\ sent' = sent /\ ran' = ran
    BY <1>5
  <2>2. i \in StmtIds /\ runs[i] = 1 /\ runs' = runs
    BY <1>1, <2>1
  <2>3. Once!Tell(i)
    BY <2>1, <2>2 DEF Once!Tell
  <2> QED BY <2>2, <2>3 DEF Once!OnceNext
<1> QED BY <1>2, <1>3, <1>4, <1>5 DEF HistoryStep

\* StatementsRunOnce: the connections, the pool and its retries implement AtMostOnce.
THEOREM ImplementsAtMostOnce == PgSpec => StatementsRunOnce
<1>1. PgInit => Once!OnceInit
  BY DEF PgInit, Once!OnceInit
<1>2. Typed /\ WireIInv /\ OnceIInv /\ OnceIInv' /\ [PgNext]_vars => [Once!OnceNext]_(Once!onceVars)
  BY NextOnce, StepIsOnce
<1> QED BY <1>1, <1>2, PgInvariant, OnceInvariant, PTL DEF PgSpec, StatementsRunOnce, Once!OnceSpec

-------------------------------------------------------------------------------
(* What a caller's step comes to. *)

\* Answers and statements on connection c are given up or taken; no other changes.
Quiet(c) ==
    /\ \A d \in Conns : req'[d] = req[d] /\ (ans'[d] = ans[d] \/ ans'[d] = <<>>)
    /\ \A d \in Conns \ {c} : conn'[d] = conn[d] /\ ans'[d] = ans[d]
    /\ sess' = sess
Same(k) ==
    /\ call'[k].n = call[k].n /\ call'[k].stmts = call[k].stmts /\ call'[k].files = call[k].files
    /\ call'[k].result = call[k].result

Starts(k) ==
    /\ call'[k].pc = "acquire" /\ call'[k].n = call[k].n + 1 /\ call'[k].result = "none"
    /\ UNCHANGED <<conn, req, ans, sess>>

Borrows(k, c) ==
    /\ call[k].pc = "acquire" /\ call'[k].pc = "send" /\ call'[k].c = c /\ Same(k)
    /\ \A j \in Callers \ {k} : call[j].c # c
    /\ \A d \in Conns : req'[d] = req[d] \/ req'[d] = <<>>
    /\ \A d \in Conns \ {c} : conn'[d] = conn[d] /\ ans'[d] = ans[d] /\ sess'[d] = sess[d]
    /\ ans'[c] = ans[c] \/ ans'[c] = <<>>
    /\ sess'[c] = sess[c] \/ sess'[c] = IdleSession
    /\ conn'[c].bad \/ sess'[c].st # "tx"

\* The operation ends: well only if it was one statement, or its commit was answered.
Returns(k, c) ==
    /\ call'[k].pc = "idle" /\ call'[k].n = call[k].n /\ call'[k].files = call[k].files
    /\ call'[k].result = "ok" /\ call[k].files # {} =>
          call[k].pc = "wait" /\ Current(k).kind = "commit" /\ ans[c] # <<>> /\ Head(ans[c]).ok
    /\ Quiet(c)

TriesAgain(k, c) ==
    /\ call[k].pc = "send" /\ call[k].at = 1 /\ call'[k].pc = "acquire" /\ Same(k)
    /\ Quiet(c)

Asks(k, c) ==
    /\ call[k].pc = "send" /\ call'[k].pc = "wait" /\ call'[k].at = call[k].at /\ call'[k].c = c
    /\ Same(k)
    /\ ~conn[c].bad /\ req[c] = <<>> /\ ans[c] = <<>>
    /\ req'[c] = <<Request(k)>> /\ Head(req'[c]) = Request(k)
    /\ \A d \in Conns \ {c} : req'[d] = req[d]
    /\ UNCHANGED <<conn, ans, sess>>

Continues(k, c) ==
    /\ call[k].pc = "wait" /\ call'[k].pc = "send" /\ call'[k].at = call[k].at + 1 /\ call'[k].c = c
    /\ Same(k)
    /\ Current(k).kind \in {"begin", "delete", "upsert"} /\ req[c] = <<>>
    /\ ans[c] # <<>> /\ ans'[c] = <<>> /\ conn' = conn
    /\ Quiet(c)

RollsBack(k, c) ==
    /\ call[k].pc \in {"send", "wait"} /\ call'[k].pc = "send" /\ call'[k].at = RollingBack
    /\ call'[k].c = c /\ Same(k)
    /\ Current(k).kind \in {"delete", "upsert"}
    /\ conn'[c].bad \/ sess[c].st # "tx"
    /\ Quiet(c)

CallerDoes(k) ==
    /\ \A j \in Callers \ {k} : call'[j] = call[j]
    /\ UNCHANGED <<rows, last, committed>>
    /\ \/ Starts(k)
       \/ \E c \in Conns : Borrows(k, c)
       \/ \E c \in Conns \cup {NoConn} : call[k].c = c /\ Returns(k, c)
       \/ \E c \in Conns : /\ call[k].c = c /\ (\A j \in Callers \ {k} : call[j].c # c)
                           /\ TriesAgain(k, c) \/ Asks(k, c) \/ Continues(k, c) \/ RollsBack(k, c)

\* A failed statement ends its operation, tries it again or rolls it back.
LEMMA FailDoes ==
    ASSUME Typed, WireIInv, NEW k \in Callers, call[k].pc \in {"send", "wait"},
           NEW c \in Conns, call[k].c = c, NEW cn \in [Conns -> Conn_], Fail(k, cn),
           \A d \in Conns \ {c} : cn[d] = conn[d] /\ ans'[d] = ans[d],
           req' = req, ans'[c] = ans[c] \/ ans'[c] = <<>>, sess' = sess,
           cn[c].bad \/ (Current(k).kind \in {"delete", "upsert"} => sess[c].st # "tx"),
           UNCHANGED <<rows, last, committed>>
    PROVE  CallerDoes(k)
<1>1. /\ Lent(k) /\ c # NoConn /\ call \in [Callers -> Call_] /\ call[k] \in Call_ /\ call[k] \in Fields
  BY CallTyped DEF WireIInv, Typed, CallsTyped, Going, Call_
<1>2. \A j \in Callers \ {k} : call[j].c # c
  BY <1>1 DEF Lent
<1>3. CASE Current(k).kind \in {"delete", "upsert"}
  <2>1. call' = [call EXCEPT ![k] = [@ EXCEPT !.pc = "send", !.at = RollingBack]] /\ conn' = cn
    BY <1>3 DEF Fail
  <2>2. /\ call'[k].pc = "send" /\ call'[k].at = RollingBack /\ call'[k].c = c /\ Same(k)
        /\ \A j \in Callers \ {k} : call'[j] = call[j]
    BY <1>1, <2>1 DEF Fields, Same
  <2>3. Quiet(c)
    BY <2>1 DEF Quiet
  <2>4. RollsBack(k, c)
    BY <1>3, <2>1, <2>2, <2>3 DEF RollsBack
  <2> QED BY <1>2, <2>2, <2>4 DEF CallerDoes
<1>4. CASE ~(Current(k).kind \in {"delete", "upsert"})
  <2>1. /\ call' = [call EXCEPT ![k] = IdleCall(call[k].n, ErrorResult(k), call[k].files)]
        /\ PutBack(c, cn)
    BY <1>4 DEF Fail
  <2>2. ErrorResult(k) # "ok"
    BY DEF ErrorResult
  <2>3. /\ call'[k].pc = "idle" /\ call'[k].n = call[k].n /\ call'[k].files = call[k].files
        /\ call'[k].result # "ok"
        /\ \A j \in Callers \ {k} : call'[j] = call[j]
    BY <1>1, <2>1, <2>2 DEF IdleCall
  <2>4. \A d \in Conns \ {c} : conn'[d] = conn[d]
    BY <2>1 DEF PutBack
  <2>5. Quiet(c)
    BY <2>4 DEF Quiet
  <2>6. Returns(k, c)
    BY <2>3, <2>5 DEF Returns
  <2> QED BY <2>3, <2>6 DEF CallerDoes
<1> QED BY <1>3, <1>4

\* A statement that succeeded ends its operation or is followed by the next.
LEMMA SucceedDoes ==
    ASSUME Typed, WireIInv, NEW k \in Callers, call[k].pc = "wait",
           NEW c \in Conns, call[k].c = c, NEW found, Succeed(k, found),
           \A d \in Conns \ {c} : ans'[d] = ans[d],
           req' = req, req[c] = <<>>, ans[c] # <<>>, Head(ans[c]).ok, ans'[c] = <<>>, sess' = sess,
           UNCHANGED <<rows, last, committed>>
    PROVE  CallerDoes(k)
<1>1. /\ Lent(k) /\ c # NoConn /\ call \in [Callers -> Call_] /\ call[k] \in Call_
      /\ call[k] \in Fields /\ conn \in [Conns -> Conn_] /\ call[k].pc # "idle" /\ Going(call[k])
  BY CallTyped DEF WireIInv, Typed, CallsTyped, Going, Call_
<1>2. \A j \in Callers \ {k} : call[j].c # c
  BY <1>1 DEF Lent
<1>3. call[k].at \in Nat /\ Len(call[k].stmts) \in Nat /\ call[k].at <= Len(call[k].stmts)
      /\ Current(k).kind \in Kinds
  BY <1>1, CallTyped, CurrentTyped DEF Going, Stmt_
<1>4. CASE call[k].at # RollingBack /\ call[k].at < Len(call[k].stmts)
  <2>1. call' = [call EXCEPT ![k] = [@ EXCEPT !.pc = "send", !.at = call[k].at + 1]] /\ conn' = conn
    BY <1>4 DEF Succeed
  <2>2. /\ call'[k].pc = "send" /\ call'[k].at = call[k].at + 1 /\ call'[k].c = c /\ Same(k)
        /\ \A j \in Callers \ {k} : call'[j] = call[j]
    BY <1>1, <2>1 DEF Fields, Same
  <2>3. Quiet(c)
    BY <2>1 DEF Quiet
  <2>4. Current(k).kind \in {"begin", "delete", "upsert"}
    <3>1. /\ Current(k).kind # "rollback"
          /\ Current(k).kind \in {"select", "ping"} => Len(call[k].stmts) = 1 /\ call[k].at = 1
          /\ Current(k).kind = "commit" => call[k].at = Len(call[k].stmts)
      BY <1>1, <1>4, PlaceOfKind
    <3>2. \A a, n \in Nat : a < n => a # n /\ ~(n = 1 /\ a = 1)
      OBVIOUS
    <3>3. Current(k).kind \notin {"select", "ping", "commit", "rollback"}
      BY <1>3, <1>4, <3>1, <3>2
    <3> QED BY <1>3, <3>3 DEF Kinds
  <2>5. Continues(k, c)
    BY <2>1, <2>2, <2>3, <2>4 DEF Continues
  <2> QED BY <1>2, <2>2, <2>5 DEF CallerDoes
<1>5. CASE ~(call[k].at # RollingBack /\ call[k].at < Len(call[k].stmts))
  <2> DEFINE r == IF call[k].at = RollingBack THEN "error" ELSE IF found THEN "ok" ELSE "missing"
  <2>1. /\ call' = [call EXCEPT ![k] = IdleCall(call[k].n, r, call[k].files)]
        /\ PutBack(c, conn)
    BY <1>5 DEF Succeed
  <2>2. r = "ok" => call[k].at # RollingBack /\ ~(call[k].at < Len(call[k].stmts))
    BY <1>5
  <2> HIDE DEF r
  <2>3. /\ call'[k].pc = "idle" /\ call'[k].n = call[k].n /\ call'[k].files = call[k].files
        /\ call'[k].result = r
        /\ \A j \in Callers \ {k} : call'[j] = call[j]
    BY <1>1, <2>1 DEF IdleCall
  <2>4. \A d \in Conns \ {c} : conn'[d] = conn[d]
    BY <1>1, <2>1 DEF PutBack
  <2>5. Quiet(c)
    BY <2>4 DEF Quiet
  <2>6. ASSUME r = "ok", call[k].files # {} PROVE Current(k).kind = "commit"
    <3>1. /\ Current(k).kind # "rollback"
          /\ Current(k).kind \in {"delete", "upsert"} => call[k].at < Len(call[k].stmts)
          /\ Current(k).kind = "begin" => Len(call[k].stmts) >= 3 /\ call[k].at = 1
          /\ Current(k).kind \in {"select", "ping"} => Len(call[k].stmts) = 1 /\ call[k].at = 1
      BY <1>1, <2>2, <2>6, PlaceOfKind
    <3>2. \A a, n \in Nat : n >= 3 /\ a = 1 => a < n
      OBVIOUS
    <3>3. Current(k).kind \notin {"select", "ping"}
      <4> SUFFICES ASSUME Current(k).kind \in {"select", "ping"} PROVE FALSE
        OBVIOUS
      <4>1. Len(call[k].stmts) = 1 /\ call[k].at = 1 /\ Current(k) = call[k].stmts[1]
        BY <3>1 DEF Current, RollingBack
      <4>2. call[k].stmts \in Seq(Stmt_) /\ call[k].files = FilesOf(call[k].stmts)
        BY <1>1, CallTyped DEF Going
      <4>3. \A j \in DOMAIN call[k].stmts : j = 1
        BY <4>1, <4>2
      <4> QED BY <2>6, <4>1, <4>2, <4>3 DEF FilesOf
    <3> QED BY <1>3, <2>2, <2>6, <3>1, <3>2, <3>3 DEF Kinds
  <2>7. Returns(k, c)
    BY <2>3, <2>5, <2>6 DEF Returns
  <2> QED BY <2>3, <2>7 DEF CallerDoes
<1> QED BY <1>4, <1>5

\* Every step of a caller is one of those of CallerDoes.
LEMMA CallerOutcome ==
    ASSUME Typed, WireIInv, NEW k \in Callers, Start(k) \/ CallerStep(k)
    PROVE  CallerDoes(k)
<1>0. /\ call \in [Callers -> Call_] /\ call[k] \in Call_ /\ call[k] \in Fields
      /\ conn \in [Conns -> Conn_] /\ sess \in [Conns -> Sess_]
      /\ req \in [Conns -> Seq(Msg_)] /\ ans \in [Conns -> Seq(Ans_)]
      /\ free \in SUBSET Conns /\ NoConn \notin Conns
      /\ Lent(k) /\ Sends(k) /\ Waits(k) /\ Going(call[k])
      /\ call[k].pc \in {"send", "wait"} => call[k].c \in Conns
  BY CallTyped, PgWireAssumption DEF Typed, CallsTyped, StoreTyped, WireTyped, WireIInv, Call_
<1>1. CASE Start(k)
  <2>1. PICK op \in Operations : call' = [call EXCEPT ![k] =
           [@ EXCEPT !.pc = "acquire", !.n = call[k].n + 1, !.stmts = op, !.at = 1, !.tries = 0,
                     !.result = "none", !.files = FilesOf(op)]]
    BY <1>1 DEF Start
  <2>2. /\ call'[k].pc = "acquire" /\ call'[k].n = call[k].n + 1 /\ call'[k].result = "none"
        /\ \A j \in Callers \ {k} : call'[j] = call[j]
    BY <1>0, <2>1 DEF Fields
  <2>3. UNCHANGED <<conn, req, ans, sess, rows, last, committed>>
    BY <1>1 DEF Start, wireVars, serverVars
  <2> QED BY <2>2, <2>3 DEF CallerDoes, Starts
<1>2. CASE Checkout(k)
  <2>1. PICK c \in free : /\ call[k].pc = "acquire" /\ Use(k, c)
                          /\ UNCHANGED <<conn, req, ans, sess, rows, last, committed>>
    BY <1>2 DEF Checkout, wireVars, serverVars
  <2>2. call'[k].pc = "send" /\ call'[k].c = c /\ Same(k)
        /\ \A j \in Callers \ {k} : call'[j] = call[j]
    BY <1>0, <2>1 DEF Use, Fields, Same
  <2>3. Kept(c) /\ c \in Conns
    BY <1>0 DEF WireIInv
  <2>4. \A j \in Callers \ {k} : call[j].c # c
    BY <1>0, <2>3 DEF WireIInv, Lent
  <2>5. conn'[c].bad \/ sess'[c].st # "tx"
    BY <2>1, <2>3 DEF Kept, Gone
  <2>6. Borrows(k, c)
    BY <2>1, <2>2, <2>4, <2>5 DEF Borrows
  <2> QED BY <2>1, <2>2, <2>3, <2>6 DEF CallerDoes
<1>3. CASE Dial(k)
  <2>1. PICK c \in Conns : /\ call[k].pc = "acquire" /\ Use(k, c) /\ ~conn[c].up
                           /\ conn' = [conn EXCEPT ![c] = OpenConn]
                           /\ sess' = [sess EXCEPT ![c] = IdleSession]
                           /\ req' = [req EXCEPT ![c] = <<>>] /\ ans' = [ans EXCEPT ![c] = <<>>]
                           /\ UNCHANGED <<rows, last, committed>>
    BY <1>3 DEF Dial, MustDial
  <2>2. call'[k].pc = "send" /\ call'[k].c = c /\ Same(k)
        /\ \A j \in Callers \ {k} : call'[j] = call[j]
    BY <1>0, <2>1 DEF Use, Fields, Same
  <2>3. \A j \in Callers \ {k} : call[j].c # c
    BY <1>0, <2>1 DEF WireIInv, Lent
  <2>4. /\ sess'[c] = IdleSession /\ IdleSession.st = "idle" /\ req'[c] = <<>> /\ ans'[c] = <<>>
        /\ \A d \in Conns \ {c} : conn'[d] = conn[d] /\ req'[d] = req[d] /\ ans'[d] = ans[d]
                                  /\ sess'[d] = sess[d]
    BY <1>0, <2>1, IdleSessionTyped
  <2>5. Borrows(k, c)
    BY <2>1, <2>2, <2>3, <2>4 DEF Borrows
  <2> QED BY <2>1, <2>2, <2>5 DEF CallerDoes
<1>4. CASE DialFails(k)
  <2>1. /\ call[k].pc = "acquire"
        /\ call' = [call EXCEPT ![k] = IdleCall(call[k].n, "error", call[k].files)]
        /\ UNCHANGED <<conn, req, ans, sess, rows, last, committed>>
    BY <1>4 DEF DialFails, MustDial, wireVars, serverVars
  <2>2. /\ call'[k].pc = "idle" /\ call'[k].n = call[k].n /\ call'[k].files = call[k].files
        /\ call'[k].result # "ok" /\ \A j \in Callers \ {k} : call'[j] = call[j]
    BY <1>0, <2>1 DEF IdleCall
  <2>3. call[k].c = NoConn /\ Quiet(NoConn)
    BY <1>0, <2>1 DEF Going, Quiet
  <2>4. Returns(k, NoConn)
    BY <2>2, <2>3 DEF Returns
  <2> QED BY <2>1, <2>2, <2>3, <2>4 DEF CallerDoes
<1>5. CASE SendOnBad(k)
  <2>0. PICK c \in Conns : call[k].c = c
    BY <1>0, <1>5 DEF SendOnBad
  <2>1. /\ call[k].pc = "send" /\ conn' = [conn EXCEPT ![c].up = FALSE]
        /\ UNCHANGED <<req, ans, sess, rows, last, committed>>
    BY <1>5, <2>0 DEF SendOnBad, serverVars
  <2>2. Quiet(c) /\ \A j \in Callers \ {k} : call[j].c # c
    BY <1>0, <2>0, <2>1 DEF Quiet, Lent
  <2>3. CASE call[k].at = 1
    <3>1. call' = [call EXCEPT ![k] = [@ EXCEPT !.pc = "acquire", !.c = NoConn,
                                                !.tries = call[k].tries + 1]]
      BY <1>5, <2>0, <2>3 DEF SendOnBad
    <3>2. call'[k].pc = "acquire" /\ Same(k) /\ \A j \in Callers \ {k} : call'[j] = call[j]
      BY <1>0, <3>1 DEF Fields, Same
    <3>3. TriesAgain(k, c)
      BY <2>1, <2>2, <2>3, <3>2 DEF TriesAgain
    <3> QED BY <2>0, <2>1, <2>2, <3>2, <3>3 DEF CallerDoes
  <2>4. CASE call[k].at # 1
    <3>1. call' = [call EXCEPT ![k] = IdleCall(call[k].n, "error", call[k].files)]
      BY <1>5, <2>0, <2>4 DEF SendOnBad
    <3>2. /\ call'[k].pc = "idle" /\ call'[k].n = call[k].n /\ call'[k].files = call[k].files
          /\ call'[k].result # "ok" /\ \A j \in Callers \ {k} : call'[j] = call[j]
      BY <1>0, <3>1 DEF IdleCall
    <3>3. Returns(k, c)
      BY <2>2, <3>2 DEF Returns
    <3> QED BY <2>0, <2>1, <3>2, <3>3 DEF CallerDoes
  <2> QED BY <2>3, <2>4
<1>6. CASE Send(k)
  <2>0. PICK c \in Conns : call[k].c = c
    BY <1>0, <1>6 DEF Send
  <2> DEFINE m == Request(k)
  <2>1. /\ call[k].pc = "send" /\ ~conn[c].bad
        /\ req' = [req EXCEPT ![c] = Append(req[c], m)]
        /\ call' = [call EXCEPT ![k].pc = "wait"]
        /\ UNCHANGED <<conn, ans, sess, rows, last, committed>>
    BY <1>6, <2>0 DEF Send, serverVars
  <2>2. \A j \in Callers \ {k} : call[j].c # c
    BY <1>0, <2>0, <2>1 DEF Going, Lent
  <2>3. req[c] = <<>> /\ ans[c] = <<>>
    BY <1>0, <2>0, <2>1 DEF Sends
  <2>4. Append(<<>>, m) = <<m>> /\ Head(<<m>>) = m
    BY OneMessage
  <2>5. req'[c] = <<m>> /\ Head(req'[c]) = m /\ \A d \in Conns \ {c} : req'[d] = req[d]
    <3> HIDE DEF m
    <3> QED BY <1>0, <2>1, <2>3, <2>4
  <2>6. /\ call'[k].pc = "wait" /\ call'[k].c = c /\ call'[k].at = call[k].at /\ Same(k)
        /\ \A j \in Callers \ {k} : call'[j] = call[j]
    BY <1>0, <2>0, <2>1 DEF Fields, Same
  <2>7. Asks(k, c)
    BY <2>1, <2>3, <2>5, <2>6 DEF Asks
  <2> QED BY <2>0, <2>1, <2>2, <2>6, <2>7 DEF CallerDoes
<1>7. CASE Receive(k)
  <2>0. PICK c \in Conns : call[k].c = c
    BY <1>0, <1>7 DEF Receive
  <2>1. /\ call[k].pc = "wait" /\ ans[c] # <<>> /\ ans' = [ans EXCEPT ![c] = Tail(ans[c])]
        /\ UNCHANGED <<req, sess, rows, last, committed>>
        /\ \/ Head(ans[c]).ok /\ Succeed(k, Head(ans[c]).found)
           \/ ~Head(ans[c]).ok /\ Fail(k, conn)
    BY <1>7, <2>0 DEF Receive, serverVars
  <2>2. Wire(c)
    BY DEF WireIInv
  <2>3. /\ ans[c] = <<Head(ans[c])>> /\ req[c] = <<>>
        /\ (sess[c].st = After(k, Head(ans[c]).ok) \/ sess[c].st = "none")
    BY <1>0, <2>0, <2>1, <2>2 DEF Waits, Wire, Gone
  <2>4. ans'[c] = <<>> /\ \A d \in Conns \ {c} : ans'[d] = ans[d]
    BY <1>0, <2>1, <2>3, OneMessage
  <2>5. Head(ans[c]).ok \in BOOLEAN
    <3>1. Head(ans[c]) \in Ans_
      BY <1>0, <2>1, HeadTailProperties
    <3> QED BY <3>1 DEF Ans_
  <2>6. CASE Head(ans[c]).ok /\ Succeed(k, Head(ans[c]).found)
    BY <2>0, <2>1, <2>3, <2>4, <2>6, SucceedDoes
  <2>7. CASE ~Head(ans[c]).ok /\ Fail(k, conn)
    <3>1. Current(k).kind \in {"delete", "upsert"} => sess[c].st # "tx"
      BY <2>3, <2>5, <2>7 DEF After
    <3> QED BY <1>0, <2>0, <2>1, <2>4, <2>7, <3>1, FailDoes
  <2> QED BY <2>1, <2>6, <2>7
<1>8. CASE IOError(k)
  <2>0. PICK c \in Conns : call[k].c = c
    BY <1>0, <1>8 DEF IOError
  <2> DEFINE cn == MarkBad(c)
  <2>1. /\ call[k].pc \in {"send", "wait"} /\ Fail(k, cn)
        /\ UNCHANGED <<req, ans, sess, rows, last, committed>>
    BY <1>8, <2>0 DEF IOError, serverVars
  <2>2. cn \in [Conns -> Conn_] /\ cn[c].bad /\ \A d \in Conns \ {c} : cn[d] = conn[d]
    BY <1>0 DEF MarkBad, Conn_
  <2> HIDE DEF cn
  <2> QED BY <2>0, <2>1, <2>2, FailDoes
<1> QED BY <1>1, <1>2, <1>3, <1>4, <1>5, <1>6, <1>7, <1>8 DEF CallerStep

-------------------------------------------------------------------------------
(* Operations, under way and committed. *)

\* What is under way of a caller's current operation is on the caller's connection.
Mine(k) ==
    \A c \in Conns : req[c] # <<>> /\ Op(Head(req[c])) = OpId(k) =>
        /\ call[k].pc # "acquire"
        /\ call[k].pc \in {"send", "wait"} => c = call[k].c
        /\ call[k].pc = "send" => Head(req[c]).kind # "commit"

\* An operation is committed by its COMMIT.
Uncommitted(k) ==
    /\ \A n \in Nat : <<k, n>> \in committed => n <= call[k].n
    /\ call[k].pc \in {"acquire", "send"} => OpId(k) \notin committed
    /\ call[k].pc = "wait" /\ Current(k).kind # "commit" => OpId(k) \notin committed

\* Success is reported of what was committed.
Reported(k) ==
    /\ call[k].result = "ok" /\ call[k].files # {} => OpId(k) \in committed
    /\ call[k].pc = "wait" /\ Current(k).kind = "commit" /\ ans[call[k].c] # <<>>
       /\ Head(ans[call[k].c]).ok => OpId(k) \in committed

\* An operation under way has not been committed, and is under way on one connection.
Fresh(c) ==
    req[c] # <<>> =>
        /\ Op(Head(req[c])) \notin committed
        /\ \A d \in Conns \ {c} : req[d] # <<>> => Op(Head(req[d])) # Op(Head(req[c]))

OpsIInv ==
    /\ \A k \in Callers : Mine(k) /\ Uncommitted(k) /\ Reported(k)
    /\ \A c \in Conns : Fresh(c)

\* The operation a statement under way belongs to has been started.
LEMMA UnderWay ==
    ASSUME Typed, OnceIInv, NEW c \in Conns, req[c] # <<>>
    PROVE  \E j \in Callers, n \in Nat : Op(Head(req[c])) = <<j, n>> /\ n <= call[j].n
<1> DEFINE i == Head(req[c]).id
<1>1. i \in sent /\ i \in StmtIds
  BY DEF OnceIInv, InFlight
<1>2. i[1] \in Callers /\ i[2] \in Nat /\ Op(Head(req[c])) = <<i[1], i[2]>>
  BY <1>1, StmtIdTyped DEF Op
<1> HIDE DEF i
<1>3. i[2] <= call[i[1]].n
  BY <1>1, <1>2 DEF OnceIInv, Asked
<1> QED BY <1>2, <1>3

\* Nothing new is under way and nothing is committed.
LEMMA StillFresh ==
    ASSUME OpsIInv, \A d \in Conns : req'[d] = req[d] \/ req'[d] = <<>>, committed' = committed
    PROVE  \A c \in Conns : Fresh(c)'
<1> SUFFICES ASSUME NEW c \in Conns PROVE Fresh(c)'
  OBVIOUS
<1>1. Fresh(c)
  BY DEF OpsIInv
<1>2. \A d \in Conns : req'[d] # <<>> => req'[d] = req[d]
  OBVIOUS
<1> QED BY <1>1, <1>2 DEF Fresh, Op

\* Callers that do nothing: their operations stay where they are.
LEMMA OthersOps ==
    ASSUME Typed, OpsIInv, NEW k \in Callers, NEW j \in Callers, j # k, call'[j] = call[j],
           committed' = committed,
           \A d \in Conns : ans'[d] = ans[d] \/ ans'[d] = <<>>,
           \A d \in Conns : req'[d] = req[d] \/ req'[d] = <<>> \/ Op(Head(req'[d])) = OpId(k)
    PROVE  Mine(j)' /\ Uncommitted(j)' /\ Reported(j)'
<1>1. Mine(j) /\ Uncommitted(j) /\ Reported(j)
  BY DEF OpsIInv
<1>2. OpId(j)' = OpId(j) /\ Current(j)' = Current(j) /\ OpId(j) # OpId(k)
  BY DEF OpId, Current
<1>3. call[j].pc = "wait" => call[j].c \in Conns
  BY CallTyped DEF Typed, CallsTyped
<1>4. Mine(j)'
  <2> SUFFICES ASSUME NEW c \in Conns, req'[c] # <<>>, Op(Head(req[c]))' = OpId(j)
               PROVE  /\ call[j].pc # "acquire"
                      /\ call[j].pc \in {"send", "wait"} => c = call[j].c
                      /\ call[j].pc = "send" => Head(req'[c]).kind # "commit"
    BY <1>2 DEF Mine
  <2>1. Op(Head(req'[c])) = OpId(j)
    BY DEF Op
  <2>2. req'[c] = req[c]
    BY <1>2, <2>1
  <2> QED BY <1>1, <2>1, <2>2 DEF Mine
<1>5. Uncommitted(j)'
  BY <1>1, <1>2 DEF Uncommitted
<1>6. Reported(j)'
  BY <1>1, <1>2, <1>3 DEF Reported
<1> QED BY <1>4, <1>5, <1>6

\* Every step of a caller keeps OpsIInv.
LEMMA CallerOps ==
    ASSUME Typed, Typed', WireIInv, OnceIInv, OpsIInv, NEW k \in Callers, CallerDoes(k)
    PROVE  OpsIInv'
<1>0. /\ Mine(k) /\ Uncommitted(k) /\ Reported(k) /\ Asked(k) /\ Waits(k) /\ Sends(k)
      /\ \A j \in Callers \ {k} : call'[j] = call[j]
      /\ committed' = committed
      /\ call \in [Callers -> Call_] /\ call[k] \in Call_ /\ Going(call[k])
      /\ call[k].n \in Nat /\ call[k].at \in Nat
  BY CallTyped DEF OpsIInv, OnceIInv, WireIInv, Typed, CallsTyped, CallerDoes
<1>1. ASSUME Mine(k)', Uncommitted(k)', Reported(k)',
             \A d \in Conns : ans'[d] = ans[d] \/ ans'[d] = <<>>,
             \A d \in Conns : req'[d] = req[d] \/ req'[d] = <<>>
      PROVE  OpsIInv'
  <2>1. \A j \in Callers \ {k} : Mine(j)' /\ Uncommitted(j)' /\ Reported(j)'
    BY <1>0, <1>1, OthersOps
  <2>2. \A c \in Conns : Fresh(c)'
    BY <1>0, <1>1, StillFresh
  <2> QED BY <1>1, <2>1, <2>2 DEF OpsIInv
<1>2. ASSUME Starts(k) PROVE OpsIInv'
  <2>1. /\ req' = req /\ ans' = ans /\ call'[k].pc = "acquire" /\ call'[k].result = "none"
        /\ call'[k].n = call[k].n + 1 /\ OpId(k)' = <<k, call[k].n + 1>>
    BY <1>2 DEF Starts, OpId
  <2>2. Mine(k)'
    <3> SUFFICES ASSUME NEW c \in Conns, req[c] # <<>>, Op(Head(req[c])) = <<k, call[k].n + 1>>
                 PROVE FALSE
      BY <2>1 DEF Mine, Op
    <3>1. PICK j \in Callers, n \in Nat : Op(Head(req[c])) = <<j, n>> /\ n <= call[j].n
      BY UnderWay
    <3>2. j = k /\ n = call[k].n + 1
      BY <3>1
    <3> QED BY <1>0, <3>1, <3>2
  <2>3. Uncommitted(k)'
    <3>1. ASSUME NEW n \in Nat, <<k, n>> \in committed PROVE n <= call[k].n
      BY <1>0, <3>1 DEF Uncommitted
    <3>2. <<k, call[k].n + 1>> \notin committed
      BY <1>0, <3>1
    <3>3. \A n \in Nat : <<k, n>> \in committed => n <= call[k].n + 1
      BY <1>0, <3>1
    <3> QED BY <1>0, <2>1, <3>2, <3>3 DEF Uncommitted
  <2>4. Reported(k)'
    BY <2>1 DEF Reported
  <2> QED BY <1>1, <2>1, <2>2, <2>3, <2>4
<1>3. ASSUME NEW c \in Conns, Borrows(k, c) PROVE OpsIInv'
  <2>1. /\ call[k].pc = "acquire" /\ call'[k].pc = "send" /\ call'[k].result = call[k].result
        /\ call'[k].files = call[k].files /\ call'[k].n = call[k].n /\ OpId(k)' = OpId(k)
        /\ \A d \in Conns : req'[d] = req[d] \/ req'[d] = <<>>
        /\ \A d \in Conns : ans'[d] = ans[d] \/ ans'[d] = <<>>
    BY <1>3 DEF Borrows, Same, OpId
  <2>2. Mine(k)'
    <3> SUFFICES ASSUME NEW d \in Conns, req'[d] # <<>>, Op(Head(req'[d])) = OpId(k)
                 PROVE FALSE
      BY <2>1 DEF Mine, Op
    <3>1. req'[d] = req[d]
      BY <2>1
    <3> QED BY <1>0, <2>1, <3>1 DEF Mine
  <2>3. Uncommitted(k)' /\ Reported(k)'
    BY <1>0, <2>1 DEF Uncommitted, Reported
  <2> QED BY <1>1, <2>1, <2>2, <2>3
<1>4. ASSUME NEW c \in Conns \cup {NoConn}, call[k].c = c, Returns(k, c) PROVE OpsIInv'
  <2>1. /\ call'[k].pc = "idle" /\ call'[k].n = call[k].n /\ call'[k].files = call[k].files
        /\ OpId(k)' = OpId(k)
        /\ \A d \in Conns : req'[d] = req[d] /\ (ans'[d] = ans[d] \/ ans'[d] = <<>>)
        /\ call'[k].result = "ok" /\ call[k].files # {} =>
              call[k].pc = "wait" /\ Current(k).kind = "commit" /\ ans[c] # <<>> /\ Head(ans[c]).ok
    BY <1>4 DEF Returns, Quiet, OpId
  <2>2. Mine(k)' /\ Uncommitted(k)'
    BY <1>0, <2>1 DEF Mine, Uncommitted
  <2>3. Reported(k)'
    BY <1>0, <1>4, <2>1 DEF Reported
  <2> QED BY <1>1, <2>1, <2>2, <2>3
<1>5. ASSUME NEW c \in Conns, call[k].c = c, TriesAgain(k, c) PROVE OpsIInv'
  <2>1. /\ call[k].pc = "send" /\ call[k].at = 1 /\ call'[k].pc = "acquire" /\ OpId(k)' = OpId(k)
        /\ call'[k].n = call[k].n /\ call'[k].files = call[k].files
        /\ call'[k].result = call[k].result
        /\ \A d \in Conns : req'[d] = req[d] /\ (ans'[d] = ans[d] \/ ans'[d] = <<>>)
    BY <1>5 DEF TriesAgain, Same, Quiet, OpId
  <2>2. Mine(k)'
    <3> SUFFICES ASSUME NEW d \in Conns, req[d] # <<>>, Op(Head(req[d])) = OpId(k)
                 PROVE FALSE
      BY <2>1 DEF Mine, Op
    <3> DEFINE i == Head(req[d]).id
    <3>1. i \in sent /\ i \in StmtIds
      BY DEF OnceIInv, InFlight
    <3>2. i[3] \in Nat /\ i[1] = k /\ i[2] = call[k].n
      BY <3>1, StmtIdTyped DEF Op, OpId
    <3> HIDE DEF i
    <3>3. i[3] # 1 /\ i[3] >= 1 /\ i[3] <= 1
      BY <1>0, <2>1, <3>1, <3>2 DEF Asked, RollingBack
    <3> QED BY <3>2, <3>3
  <2>3. Uncommitted(k)' /\ Reported(k)'
    BY <1>0, <2>1 DEF Uncommitted, Reported
  <2> QED BY <1>1, <2>1, <2>2, <2>3
<1>6. ASSUME NEW c \in Conns, call[k].c = c, Asks(k, c) PROVE OpsIInv'
  <2> DEFINE m == Request(k)
  <2>1. /\ call[k].pc = "send" /\ call'[k].pc = "wait" /\ call'[k].c = c
        /\ call'[k].n = call[k].n /\ call'[k].files = call[k].files
        /\ call'[k].result = call[k].result /\ OpId(k)' = OpId(k)
        /\ req[c] = <<>> /\ ans[c] = <<>> /\ ans' = ans
        /\ req'[c] = <<m>> /\ Head(req'[c]) = m
        /\ \A d \in Conns \ {c} : req'[d] = req[d]
    BY <1>6 DEF Asks, Same, OpId
  <2>2. Op(m) = OpId(k)
    BY DEF Request, StmtId, Op, OpId
  <2> HIDE DEF m
  <2>3. ASSUME NEW d \in Conns, d # c, req[d] # <<>> PROVE Op(Head(req[d])) # OpId(k)
    BY <1>0, <1>6, <2>1, <2>3 DEF Mine
  <2>4. Mine(k)'
    <3> SUFFICES ASSUME NEW d \in Conns, req'[d] # <<>>, Op(Head(req'[d])) = OpId(k)
                 PROVE  d = c
      BY <2>1 DEF Mine, Op
    <3> QED BY <2>1, <2>3
  <2>5. Uncommitted(k)' /\ Reported(k)'
    BY <1>0, <1>6, <2>1 DEF Uncommitted, Reported
  <2>6. \A j \in Callers \ {k} : Mine(j)' /\ Uncommitted(j)' /\ Reported(j)'
    BY <1>0, <2>1, <2>2, OthersOps
  <2>7. ASSUME NEW d \in Conns PROVE Fresh(d)'
    <3>1. Fresh(d) /\ Fresh(c)
      BY DEF OpsIInv
    <3>2. OpId(k) \notin committed
      BY <1>0, <2>1 DEF Uncommitted
    <3>3. CASE d = c
      BY <1>0, <2>1, <2>2, <2>3, <3>2, <3>3 DEF Fresh, Op
    <3>4. CASE d # c
      <4>1. req'[d] # <<>> => Op(Head(req'[d])) \notin committed
        BY <2>1, <3>1, <3>4 DEF Fresh
      <4>2. \A e \in Conns \ {d} : req'[d] # <<>> /\ req'[e] # <<>> =>
                Op(Head(req'[e])) # Op(Head(req'[d]))
        BY <2>1, <2>2, <2>3, <3>1, <3>4 DEF Fresh
      <4> QED BY <1>0, <4>1, <4>2 DEF Fresh, Op
    <3> QED BY <3>3, <3>4
  <2> QED BY <2>4, <2>5, <2>6, <2>7 DEF OpsIInv
<1>7. ASSUME NEW c \in Conns, call[k].c = c, Continues(k, c) \/ RollsBack(k, c) PROVE OpsIInv'
  <2>1. /\ call[k].pc \in {"send", "wait"} /\ call'[k].pc = "send" /\ call'[k].c = c
        /\ call'[k].n = call[k].n /\ call'[k].files = call[k].files
        /\ call'[k].result = call[k].result /\ OpId(k)' = OpId(k)
        /\ Current(k).kind \in {"begin", "delete", "upsert"}
        /\ \A d \in Conns : req'[d] = req[d] /\ (ans'[d] = ans[d] \/ ans'[d] = <<>>)
    BY <1>7 DEF Continues, RollsBack, Same, Quiet, OpId
  <2>2. Mine(k)'
    <3> SUFFICES ASSUME NEW d \in Conns, req[d] # <<>>, Op(Head(req[d])) = OpId(k)
                 PROVE  d = c /\ Head(req[d]).kind # "commit"
      BY <2>1 DEF Mine, Op
    <3>1. d = c
      BY <1>0, <1>7, <2>1 DEF Mine
    <3>2. CASE call[k].pc = "send"
      BY <1>0, <3>1, <3>2 DEF Mine
    <3>3. CASE call[k].pc = "wait"
      <4>1. req[c] = <<Request(k)>>
        <5>1. Wire(c)
          BY DEF WireIInv
        <5> QED BY <1>0, <1>7, <3>1, <3>3, <5>1 DEF Waits, Wire
      <4>2. Head(req[c]) = Request(k)
        BY <4>1, OneMessage
      <4> QED BY <2>1, <3>1, <4>2, RequestKind
    <3> QED BY <2>1, <3>1, <3>2, <3>3
  <2>3. Uncommitted(k)' /\ Reported(k)'
    BY <1>0, <2>1 DEF Uncommitted, Reported
  <2> QED BY <1>1, <2>1, <2>2, <2>3
<1> QED BY <1>2, <1>3, <1>4, <1>5, <1>6, <1>7 DEF CallerDoes

\* The server's answer to a COMMIT.
LEMMA AnswerOps ==
    ASSUME Typed, WireIInv, OpsIInv, NEW c \in Conns, req[c] # <<>>,
           NEW ok \in BOOLEAN, NEW found \in BOOLEAN, Answer(c, ok, found), call' = call,
           committed \in SUBSET committed',
           ok /\ Head(req[c]).kind = "commit" /\ sess[c].st = "tx" => Op(Head(req[c])) \in committed'
    PROVE  \A k \in Callers : Reported(k)'
<1> SUFFICES ASSUME NEW k \in Callers PROVE Reported(k)'
  OBVIOUS
<1> DEFINE a == [id |-> Head(req[c]).id, ok |-> ok, found |-> found]
<1>1. /\ Reported(k) /\ Waits(k) /\ Wire(c) /\ OpId(k)' = OpId(k) /\ Current(k)' = Current(k)
      /\ call \in [Callers -> Call_]
      /\ (call[k].pc = "wait" => call[k].c \in Conns)
  BY CallTyped DEF OpsIInv, WireIInv, Typed, CallsTyped, OpId, Current
<1>2. /\ ans[c] = <<>> /\ \A d \in Conns \ {c} : ans'[d] = ans[d]
      /\ ans'[c] = <<>> \/ (ans'[c] = <<a>> /\ Head(ans'[c]) = a)
  BY <1>1, OneMessage DEF Wire, Answer, Typed, WireTyped
<1>3. a.ok = ok
  OBVIOUS
<1> HIDE DEF a
<1>4. ASSUME call[k].pc = "wait", Current(k).kind = "commit", call[k].c = c,
             ans'[c] # <<>>, Head(ans'[c]).ok
      PROVE  OpId(k) \in committed'
  <2>1. ok
    BY <1>2, <1>3, <1>4
  <2>2. req[c] = <<Request(k)>> /\ sess[c].st = Before(k)
    BY <1>1, <1>2, <1>4 DEF Waits
  <2>3. Head(req[c]) = Request(k) /\ Before(k) = "tx"
    BY <1>1, <1>4, <2>2, OneMessage, BeforeKind
  <2>4. Head(req[c]).kind = "commit" /\ Op(Head(req[c])) = OpId(k)
    BY <1>4, <2>3 DEF Request, StmtId, Op, OpId
  <2> QED BY <2>1, <2>2, <2>3, <2>4
<1>5. ASSUME call[k].pc = "wait", Current(k).kind = "commit", call[k].c # c,
             ans'[call[k].c] # <<>>, Head(ans'[call[k].c]).ok
      PROVE  OpId(k) \in committed'
  BY <1>1, <1>2, <1>5 DEF Reported
<1>6. call[k].result = "ok" /\ call[k].files # {} => OpId(k) \in committed'
  BY <1>1 DEF Reported
<1> QED BY <1>1, <1>4, <1>5, <1>6 DEF Reported

\* Every step of the server keeps OpsIInv: a COMMIT commits the operation that waits for it,
\* or one its caller has given up.
LEMMA ServerOps ==
    ASSUME Typed, WireIInv, OnceIInv, OpsIInv,
           NEW c \in Conns, Serve(c) \/ ServerRefuses(c) \/ Break(c)
    PROVE  OpsIInv'
<1>0. /\ req \in [Conns -> Seq(Msg_)] /\ ans \in [Conns -> Seq(Ans_)] /\ Wire(c) /\ Fresh(c)
      /\ (req[c] # <<>> => Tail(req[c]) = <<>>)
  BY OneMessage DEF Typed, WireTyped, WireIInv, OpsIInv, Wire
<1>1. ASSUME call' = call, committed' = committed,
             \A d \in Conns : req'[d] = req[d] \/ req'[d] = <<>>,
             \A k \in Callers : Reported(k)'
      PROVE  OpsIInv'
  <2>1. ASSUME NEW k \in Callers PROVE Mine(k)' /\ Uncommitted(k)'
    <3>1. Mine(k) /\ Uncommitted(k)
      BY DEF OpsIInv
    <3>2. \A d \in Conns : req'[d] # <<>> => req'[d] = req[d]
      BY <1>1
    <3> QED BY <1>1, <3>1, <3>2 DEF Mine, Uncommitted, OpId, Op, Current
  <2> QED BY <1>1, <2>1, StillFresh DEF OpsIInv
<1>2. CASE \/ ServerBegin(c) \/ ServerRead(c) \/ DeleteDone(c) \/ ServerUpsert(c)
           \/ ServerRollback(c) \/ DeadlockVictim(c) \/ ServerRefuses(c)
  <2>1. /\ req[c] # <<>> /\ call' = call /\ committed' = committed
        /\ \E ok, found \in BOOLEAN : Answer(c, ok, found)
              /\ (ok /\ Head(req[c]).kind = "commit" => sess[c].st # "tx")
    BY <1>2 DEF ServerBegin, ServerRead, DeleteDone, ServerUpsert, ServerRollback,
                DeadlockVictim, ServerRefuses, Abort, Executes, clientVars
  <2>2. \A d \in Conns : req'[d] = req[d] \/ req'[d] = <<>>
    BY <1>0, <2>1 DEF Answer
  <2>3. \A k \in Callers : Reported(k)'
    BY <2>1, AnswerOps
  <2> QED BY <1>1, <2>1, <2>2, <2>3
<1>3. CASE ServerDelete(c) \/ DeleteRow(c) \/ ServerEnds(c) \/ Break(c)
  <2>1. /\ call' = call /\ committed' = committed
        /\ \A d \in Conns : (req'[d] = req[d] \/ req'[d] = <<>>) /\ (ans'[d] = ans[d] \/ ans'[d] = <<>>)
    BY <1>0, <1>3 DEF ServerDelete, DeleteRow, ServerEnds, Break, clientVars, wireVars, serverVars
  <2>2. ASSUME NEW k \in Callers PROVE Reported(k)'
    <3>1. /\ Reported(k) /\ (call[k].pc = "wait" => call[k].c \in Conns)
          /\ OpId(k)' = OpId(k) /\ Current(k)' = Current(k)
      BY <2>1, CallTyped DEF OpsIInv, Typed, CallsTyped, OpId, Current
    <3> QED BY <2>1, <3>1 DEF Reported
  <2> QED BY <1>1, <2>1, <2>2
<1>4. CASE ServerCommit(c)
  <2> DEFINE m == Head(req[c])
  <2>1. /\ req[c] # <<>> /\ m.kind = "commit" /\ call' = call /\ committed' = committed \cup {Op(m)}
        /\ Answer(c, TRUE, TRUE)
    BY <1>4 DEF ServerCommit, Executes, clientVars
  <2>2. req'[c] = <<>> /\ \A d \in Conns \ {c} : req'[d] = req[d]
    BY <1>0, <2>1 DEF Answer
  <2>3. \A k \in Callers : Reported(k)'
    BY <2>1, AnswerOps
  <2>4. \A d \in Conns \ {c} : req[d] # <<>> => Op(Head(req[d])) # Op(m)
    BY <1>0, <2>1 DEF Fresh
  <2>5. PICK j \in Callers, n \in Nat : Op(m) = <<j, n>> /\ n <= call[j].n
    BY <2>1, UnderWay
  <2> HIDE DEF m
  <2>6. ASSUME NEW k \in Callers PROVE Mine(k)'
    <3>1. Mine(k)
      BY DEF OpsIInv
    <3> QED BY <2>1, <2>2, <3>1 DEF Mine, OpId, Op
  <2>7. ASSUME NEW k \in Callers PROVE Uncommitted(k)'
    <3>1. Mine(k) /\ Uncommitted(k) /\ Waits(k) /\ OpId(k)' = OpId(k) /\ Current(k)' = Current(k)
      BY <2>1 DEF OpsIInv, WireIInv, OpId, Current
    <3>2. \A i \in Nat : <<k, i>> \in committed' => i <= call[k].n
      BY <2>1, <2>5, <3>1 DEF Uncommitted
    <3>3. CASE Op(m) # OpId(k)
      BY <2>1, <3>1, <3>2, <3>3 DEF Uncommitted
    <3>4. CASE Op(m) = OpId(k)
      <4>1. call[k].pc # "acquire" /\ call[k].pc # "send" /\ (call[k].pc = "wait" => c = call[k].c)
        BY <2>1, <3>1, <3>4 DEF Mine, m
      <4>2. ASSUME call[k].pc = "wait" PROVE Current(k).kind = "commit"
        <5>1. req[c] = <<Request(k)>>
          BY <1>0, <2>1, <3>1, <4>1, <4>2 DEF Waits, Wire
        <5>2. m = Request(k)
          BY <5>1, OneMessage DEF m
        <5> QED BY <2>1, <5>2, RequestKind
      <4> QED BY <2>1, <3>1, <3>2, <4>1, <4>2 DEF Uncommitted
    <3> QED BY <3>3, <3>4
  <2>8. ASSUME NEW d \in Conns PROVE Fresh(d)'
    <3>1. Fresh(d)
      BY DEF OpsIInv
    <3>2. CASE d = c
      BY <2>2, <3>2 DEF Fresh
    <3>3. CASE d # c
      <4>1. req'[d] # <<>> => Op(Head(req'[d])) \notin committed'
        BY <2>1, <2>2, <2>4, <3>1, <3>3 DEF Fresh
      <4>2. \A e \in Conns \ {d} : req'[d] # <<>> /\ req'[e] # <<>> =>
                Op(Head(req'[e])) # Op(Head(req'[d]))
        BY <2>2, <3>1, <3>3 DEF Fresh
      <4> QED BY <4>1, <4>2 DEF Fresh, Op
    <3> QED BY <3>2, <3>3
  <2> QED BY <2>3, <2>6, <2>7, <2>8 DEF OpsIInv
<1> QED BY <1>2, <1>3, <1>4 DEF Serve

\* In the first state nothing is committed.
LEMMA InitOps == PgInit => OpsIInv
<1> SUFFICES ASSUME PgInit PROVE OpsIInv
  OBVIOUS
<1>1. ASSUME NEW k \in Callers PROVE Mine(k) /\ Uncommitted(k) /\ Reported(k)
  <2>1. /\ call[k].pc = "idle" /\ call[k].result = "none" /\ committed = {Earlier}
        /\ \A c \in Conns : req[c] = <<>>
    BY DEF PgInit, IdleCall
  <2>2. \A n \in Nat : <<k, n>> # Earlier
    BY PgWireAssumption DEF Earlier
  <2> QED BY <2>1, <2>2 DEF Mine, Uncommitted, Reported
<1>2. \A c \in Conns : Fresh(c)
  BY DEF PgInit, Fresh
<1> QED BY <1>1, <1>2 DEF OpsIInv

\* Every step keeps OpsIInv.
LEMMA NextOps ==
    Typed /\ Typed' /\ WireIInv /\ OnceIInv /\ OpsIInv /\ [PgNext]_vars => OpsIInv'
<1>1. ASSUME Typed, Typed', WireIInv, OnceIInv, OpsIInv, PgNext PROVE OpsIInv'
  BY <1>1, CallerOutcome, CallerOps, ServerOps DEF PgNext
<1>2. ASSUME OpsIInv, UNCHANGED vars PROVE OpsIInv'
  BY <1>2 DEF vars, OpsIInv, Mine, Uncommitted, Reported, Fresh, OpId, Op, Current
<1> QED BY <1>1, <1>2

-------------------------------------------------------------------------------
(* A commit puts the whole of a replacement there, and nothing else stays. *)

\* The writes of a session are those of op; it has written p.
Own(c, op) == \A p \in DOMAIN sess[c].wrote : sess[c].wrote[p] = NoRow \/ sess[c].wrote[p].by = op
Has(c, p, op) == p \in DOMAIN sess[c].wrote /\ sess[c].wrote[p].by = op

\* What was there when the transaction began is overwritten, deleted or still to be visited.
Swept(c) == \A p \in Paths : rows[p] # NoRow /\ rows[p].by \in sess[c].saw =>
                p \in DOMAIN sess[c].wrote \/ <<p, rows[p].ins>> \in sess[c].todo

Session(c) ==
    /\ sess[c].saw \in SUBSET committed
    /\ sess[c].st # "tx" => DOMAIN sess[c].wrote = {}
    /\ sess[c].started => Swept(c)

\* How many statements of a caller's transaction have been executed.
Done(k) == IF ans[call[k].c] # <<>> THEN call[k].at ELSE call[k].at - 1

\* What a caller's transaction has done so far.
Doing(k) == LET c == call[k].c IN
    call[k].pc \in {"send", "wait"} /\ ~conn[c].bad /\ sess[c].st = "tx" =>
        /\ Own(c, OpId(k))
        /\ \A i \in 1..Done(k) : call[k].stmts[i].kind = "upsert" =>
              Has(c, call[k].stmts[i].path, OpId(k))
        /\ Done(k) >= 2 => Swept(c)

\* A COMMIT under way finds the whole replacement written, its caller there or not.
Ready(c, m) == Own(c, Op(m)) /\ (\A p \in m.files : Has(c, p, Op(m))) /\ Swept(c)
Commits(c) ==
    req[c] # <<>> /\ Head(req[c]).kind = "commit" /\ sess[c].st = "tx" => Ready(c, Head(req[c]))

RowsWhole ==
    /\ \A p \in last.files : rows[p].by = last.id
    /\ \A p \in Paths : rows[p] # NoRow => rows[p].by \in committed
    /\ \A p \in Paths \ last.files : rows[p] # NoRow => rows[p].by \notin last.saw

StoreIInv ==
    /\ \A k \in Callers : Doing(k)
    /\ \A c \in Conns : Session(c) /\ Commits(c)
    /\ RowsWhole

\* Where the upserts of a replacement are.
LEMMA PlaceOfUpserts ==
    ASSUME call \in [Callers -> Call_], NEW k \in Callers, call[k].pc # "idle"
    PROVE  /\ Current(k).kind = "begin" => call[k].at = 1
           /\ Current(k).kind = "delete" => call[k].at = 2
           /\ Current(k).kind \in {"begin", "delete"} =>
                 \A i \in 1..call[k].at : call[k].stmts[i].kind # "upsert"
           /\ Current(k).kind = "upsert" => call[k].at >= 3 /\ Current(k) = call[k].stmts[call[k].at]
           /\ Current(k).kind = "commit" =>
                 /\ call[k].at >= 3
                 /\ \A p \in call[k].files : \E i \in 1..(call[k].at - 1) :
                       call[k].stmts[i].kind = "upsert" /\ call[k].stmts[i].path = p
<1>1. /\ Shape(call[k].stmts) /\ call[k].at \in 0..Len(call[k].stmts)
      /\ Len(call[k].stmts) \in Nat /\ call[k].stmts \in Seq(Stmt_)
      /\ call[k].files = FilesOf(call[k].stmts)
  BY CallTyped, CurrentTyped DEF Going
<1>2. CASE call[k].at = RollingBack
  BY <1>2 DEF Current, Statement, RollingBack
<1>3. CASE call[k].at # RollingBack
  <2>1. Current(k) = call[k].stmts[call[k].at] /\ call[k].at \in 1..Len(call[k].stmts)
    BY <1>1, <1>3 DEF Current, RollingBack
  <2>2. CASE Len(call[k].stmts) = 1 /\ call[k].stmts[1].kind \in {"select", "ping"}
    BY <2>1, <2>2 DEF RollingBack
  <2>3. CASE /\ Len(call[k].stmts) >= 3 /\ call[k].stmts[1].kind = "begin"
             /\ call[k].stmts[2].kind = "delete"
             /\ \A i \in 3..(Len(call[k].stmts) - 1) : call[k].stmts[i].kind = "upsert"
             /\ call[k].stmts[Len(call[k].stmts)].kind = "commit"
    <3>1. \/ call[k].at = 1 \/ call[k].at = 2 \/ call[k].at \in 3..(Len(call[k].stmts) - 1)
          \/ call[k].at = Len(call[k].stmts)
      BY <1>1, <2>1
    <3>2. /\ Current(k).kind = "begin" => call[k].at = 1
          /\ Current(k).kind = "delete" => call[k].at = 2
          /\ Current(k).kind = "upsert" => call[k].at >= 3
          /\ Current(k).kind = "commit" => call[k].at >= 3 /\ call[k].at = Len(call[k].stmts)
      BY <1>1, <2>1, <2>3, <3>1
    <3>3. Current(k).kind \in {"begin", "delete"} =>
              \A i \in 1..call[k].at : call[k].stmts[i].kind # "upsert"
      <4>1. \A i \in 1..2 : i = 1 \/ i = 2
        OBVIOUS
      <4> QED BY <2>3, <3>2, <4>1
    <3>4. ASSUME Current(k).kind = "commit", NEW p \in call[k].files
          PROVE  \E i \in 1..(call[k].at - 1) :
                     call[k].stmts[i].kind = "upsert" /\ call[k].stmts[i].path = p
      <4>1. PICK i \in DOMAIN call[k].stmts :
                call[k].stmts[i].kind = "upsert" /\ call[k].stmts[i].path = p
        BY <1>1, <3>4 DEF FilesOf
      <4>2. i # Len(call[k].stmts)
        BY <2>3, <4>1
      <4>3. i \in 1..(Len(call[k].stmts) - 1)
        BY <1>1, <4>2
      <4> QED BY <3>2, <3>4, <4>1, <4>3
    <3> QED BY <2>1, <3>2, <3>3, <3>4
  <2> QED BY <1>1, <2>2, <2>3 DEF Shape
<1> QED BY <1>2, <1>3

\* A statement under way on the sound connection of a caller is what the caller waits for.
LEMMA Served ==
    ASSUME Typed, WireIInv, NEW k \in Callers, NEW c \in Conns, call[k].c = c,
           call[k].pc \in {"send", "wait"}, ~conn[c].bad, req[c] # <<>>
    PROVE  /\ call[k].pc = "wait" /\ Done(k) = call[k].at - 1
           /\ Head(req[c]) = Request(k) /\ Current(k).kind = Head(req[c]).kind
           /\ sess[c].st = Before(k) /\ Op(Head(req[c])) = OpId(k)
<1>1. Sends(k) /\ Waits(k) /\ Wire(c)
  BY DEF WireIInv
<1>2. call[k].pc = "wait" /\ ans[c] = <<>> /\ req[c] = <<Request(k)>> /\ sess[c].st = Before(k)
  BY <1>1 DEF Sends, Waits, Wire
<1>3. Head(req[c]) = Request(k)
  BY <1>2, OneMessage
<1>4. Current(k).kind = Head(req[c]).kind
  BY <1>3, RequestKind
<1>5. Op(Head(req[c])) = OpId(k)
  BY <1>3 DEF Request, StmtId, Op, OpId
<1> QED BY <1>2, <1>3, <1>4, <1>5 DEF Done

\* A caller whose connection is left alone, or with an answer less.
LEMMA StillDoing ==
    ASSUME Typed, NEW k \in Callers, Doing(k), NEW c \in Conns, call[k].c = c,
           call'[k] = call[k], conn'[c].bad = conn[c].bad, sess'[c] = sess[c], rows' = rows,
           ans'[c] = ans[c] \/ ans'[c] = <<>>
    PROVE  Doing(k)'
<1>1. call[k].at \in Nat /\ OpId(k)' = OpId(k)
  BY CallTyped DEF Typed, CallsTyped, OpId
<1>2. /\ Done(k) \in {call[k].at, call[k].at - 1} /\ Done(k)' \in {Done(k), call[k].at - 1}
  BY DEF Done
<1>3. Done(k)' \in Int /\ Done(k) \in Int /\ Done(k)' <= Done(k)
  BY <1>1, <1>2
<1>4. SUFFICES ASSUME call[k].pc \in {"send", "wait"}, ~conn[c].bad, sess[c].st = "tx"
      PROVE  /\ Own(c, OpId(k))'
             /\ \A i \in 1..(Done(k)') : call[k].stmts[i].kind = "upsert" =>
                    Has(c, call[k].stmts[i].path, OpId(k))
             /\ Done(k)' >= 2 => Swept(c)
  BY <1>1 DEF Doing, Own, Has, Swept
<1>5. /\ Own(c, OpId(k)) /\ (Done(k) >= 2 => Swept(c))
      /\ \A i \in 1..Done(k) : call[k].stmts[i].kind = "upsert" =>
             Has(c, call[k].stmts[i].path, OpId(k))
  BY <1>4 DEF Doing
<1>6. Own(c, OpId(k))'
  BY <1>1, <1>5 DEF Own
<1>7. \A i \in 1..(Done(k)') : i \in 1..Done(k)
  BY <1>3
<1> HIDE DEF Done
<1> QED BY <1>3, <1>5, <1>6, <1>7

\* Every step of a caller keeps StoreIInv: the next statement finds the work of those before.
LEMMA CallerStore ==
    ASSUME Typed, Typed', WireIInv, StoreIInv, NEW k \in Callers, CallerDoes(k)
    PROVE  StoreIInv'
<1>0. /\ \A j \in Callers \ {k} : call'[j] = call[j]
      /\ rows' = rows /\ last' = last /\ committed' = committed
      /\ call \in [Callers -> Call_] /\ Lent(k) /\ NoConn \notin Conns
      /\ \A j \in Callers : call[j].pc \in {"send", "wait"} => call[j].c \in Conns
      /\ \A j \in Callers : call[j].pc # "send" /\ call[j].pc # "wait" => Doing(j)
  BY CallTyped, PgWireAssumption DEF WireIInv, Typed, CallsTyped, CallerDoes, Doing
<1>1. RowsWhole'
  BY <1>0 DEF StoreIInv, RowsWhole
<1>2. ASSUME NEW c \in Conns, sess'[c] = sess[c] PROVE Session(c)'
  <2>1. Session(c)
    BY DEF StoreIInv
  <2> QED BY <1>0, <1>2, <2>1 DEF Session, Swept
<1>3. ASSUME NEW c \in Conns, sess'[c] = sess[c], req'[c] = req[c] \/ req'[c] = <<>>
      PROVE  Commits(c)'
  <2>1. Commits(c)
    BY DEF StoreIInv
  <2> QED BY <1>0, <1>3, <2>1 DEF Commits, Ready, Own, Has, Swept, Op
<1>4. ASSUME NEW c \in Conns \cup {NoConn}, Doing(k)',
             \A j \in Callers \ {k} : call[j].pc \in {"send", "wait"} => call[j].c # c,
             \A d \in Conns \ {c} : conn'[d] = conn[d] /\ ans'[d] = ans[d] /\ sess'[d] = sess[d]
      PROVE  \A j \in Callers : Doing(j)'
  <2> SUFFICES ASSUME NEW j \in Callers, j # k PROVE Doing(j)'
    BY <1>4
  <2>1. Doing(j) /\ call'[j] = call[j]
    BY <1>0 DEF StoreIInv
  <2>2. CASE call[j].pc \in {"send", "wait"}
    <3>1. PICK d \in Conns : call[j].c = d
      BY <1>0, <2>2
    <3>2. d # c
      BY <1>4, <2>2, <3>1
    <3> QED BY <1>0, <1>4, <2>1, <3>1, <3>2, StillDoing
  <2>3. CASE ~(call[j].pc \in {"send", "wait"})
    BY <2>1, <2>3 DEF Doing
  <2> QED BY <2>2, <2>3
<1>5. ASSUME NEW c \in Conns \cup {NoConn}, Doing(k)', Quiet(c),
             \A j \in Callers \ {k} : call[j].pc \in {"send", "wait"} => call[j].c # c
      PROVE  StoreIInv'
  <2>1. \A j \in Callers : Doing(j)'
    BY <1>4, <1>5 DEF Quiet
  <2> QED BY <1>1, <1>2, <1>3, <1>5, <2>1 DEF Quiet, StoreIInv
<1>6. ASSUME Starts(k) PROVE StoreIInv'
  <2>1. Quiet(NoConn) /\ Doing(k)'
    BY <1>6 DEF Starts, Quiet, Doing
  <2> QED BY <1>0, <1>5, <2>1
<1>7. ASSUME NEW c \in Conns, Borrows(k, c) PROVE StoreIInv'
  <2>1. Doing(k)'
    BY <1>7 DEF Borrows, Doing
  <2>2. \A j \in Callers : Doing(j)'
    BY <1>4, <1>7, <2>1 DEF Borrows
  <2>3. Session(c)' /\ Commits(c)'
    <3>1. CASE sess'[c] = sess[c]
      BY <1>2, <1>3, <1>7, <3>1 DEF Borrows
    <3>2. CASE sess'[c] = IdleSession
      <4>1. IdleSession.st = "idle" /\ ~IdleSession.started /\ DOMAIN IdleSession.wrote = {}
            /\ IdleSession.saw = {}
        BY DEF IdleSession, NoSession, Nothing
      <4> QED BY <3>2, <4>1 DEF Session, Commits
    <3> QED BY <1>7, <3>1, <3>2 DEF Borrows
  <2>4. \A d \in Conns \ {c} : Session(d)' /\ Commits(d)'
    BY <1>2, <1>3, <1>7 DEF Borrows
  <2> QED BY <1>1, <2>2, <2>3, <2>4 DEF StoreIInv
<1>8. ASSUME NEW c \in Conns \cup {NoConn}, call[k].c = c, Returns(k, c) PROVE StoreIInv'
  <2>1. \A j \in Callers \ {k} : call[j].pc \in {"send", "wait"} => call[j].c # c
    BY <1>0, <1>8 DEF Lent
  <2>2. Doing(k)' /\ Quiet(c)
    BY <1>8 DEF Returns, Doing
  <2> QED BY <1>5, <2>1, <2>2
<1>9. ASSUME NEW c \in Conns, call[k].c = c, \A j \in Callers \ {k} : call[j].c # c,
             TriesAgain(k, c) \/ Continues(k, c) \/ RollsBack(k, c)
      PROVE  StoreIInv'
  <2>1. Quiet(c)
    BY <1>9 DEF TriesAgain, Continues, RollsBack
  <2>2. Doing(k)'
    <3>1. CASE TriesAgain(k, c)
      BY <3>1 DEF TriesAgain, Doing
    <3>2. CASE RollsBack(k, c)
      BY <3>2 DEF RollsBack, Quiet, Doing
    <3>3. CASE Continues(k, c)
      <4>1. /\ call[k].pc = "wait" /\ call'[k].at = call[k].at + 1 /\ call'[k].c = c
            /\ OpId(k)' = OpId(k) /\ call'[k].stmts = call[k].stmts
            /\ ans[c] # <<>> /\ ans'[c] = <<>> /\ conn' = conn /\ sess' = sess
        BY <3>3 DEF Continues, Same, Quiet, OpId
      <4>2. call[k].at \in Nat
        BY <1>0, CallTyped
      <4>3. Done(k)' = call[k].at /\ Done(k) = call[k].at
        BY <1>9, <4>1, <4>2 DEF Done
      <4>4. Doing(k)
        BY DEF StoreIInv
      <4> HIDE DEF Done
      <4> QED BY <1>0, <1>9, <4>1, <4>3, <4>4 DEF Doing, Own, Has, Swept
    <3> QED BY <1>9, <3>1, <3>2, <3>3
  <2> QED BY <1>5, <1>9, <2>1, <2>2
<1>10. ASSUME NEW c \in Conns, call[k].c = c, \A j \in Callers \ {k} : call[j].c # c, Asks(k, c)
       PROVE  StoreIInv'
  <2>0. PICK m : m = Request(k)
    OBVIOUS
  <2>1. /\ call[k].pc = "send" /\ call'[k].at = call[k].at /\ call'[k].c = c
        /\ OpId(k)' = OpId(k) /\ call'[k].stmts = call[k].stmts
        /\ ~conn[c].bad /\ ans[c] = <<>>
        /\ req'[c] = <<m>> /\ Head(req'[c]) = m
        /\ \A d \in Conns \ {c} : req'[d] = req[d]
        /\ conn' = conn /\ ans' = ans /\ sess' = sess
    BY <1>10, <2>0 DEF Asks, Same, OpId
  <2>2. Doing(k) /\ Done(k)' = Done(k) /\ Done(k) = call[k].at - 1
    BY <1>10, <2>1 DEF StoreIInv, Done
  <2>3. Doing(k)'
    <3> HIDE DEF Done
    <3> QED BY <1>0, <1>10, <2>1, <2>2 DEF Doing, Own, Has, Swept
  <2>4. \A j \in Callers : Doing(j)'
    BY <1>4, <1>10, <2>1, <2>3
  <2>5. Commits(c)'
    <3>0. SUFFICES ASSUME m.kind = "commit" , sess[c].st = "tx" PROVE Ready(c, m)
      BY <1>0, <2>1 DEF Commits, Ready, Own, Has, Swept, Op
    <3>1. Current(k).kind = "commit" /\ Op(m) = OpId(k) /\ m.files = call[k].files
      BY <2>0, <3>0 DEF Request, StmtId, Op, OpId
    <3>2. /\ call[k].at >= 3 /\ call[k].at \in Nat
          /\ \A p \in call[k].files : \E i \in 1..(call[k].at - 1) :
                call[k].stmts[i].kind = "upsert" /\ call[k].stmts[i].path = p
      BY <1>0, <2>1, <3>1, CallTyped, PlaceOfUpserts
    <3>3. /\ Own(c, OpId(k)) /\ Swept(c)
          /\ \A i \in 1..(call[k].at - 1) : call[k].stmts[i].kind = "upsert" =>
                Has(c, call[k].stmts[i].path, OpId(k))
      <4>1. call[k].at - 1 >= 2
        BY <3>2
      <4> QED BY <1>10, <2>1, <2>2, <3>0, <4>1 DEF Doing
    <3>4. \A p \in m.files : Has(c, p, OpId(k))
      <4> SUFFICES ASSUME NEW p \in m.files PROVE Has(c, p, OpId(k))
        OBVIOUS
      <4>1. PICK i \in 1..(call[k].at - 1) :
                call[k].stmts[i].kind = "upsert" /\ call[k].stmts[i].path = p
        BY <3>1, <3>2
      <4> QED BY <3>3, <4>1
    <3> QED BY <3>1, <3>3, <3>4 DEF Ready
  <2>6. \A d \in Conns : Session(d)'
    BY <1>2, <2>1
  <2>7. \A d \in Conns \ {c} : Commits(d)'
    BY <1>3, <2>1
  <2> QED BY <1>1, <2>4, <2>5, <2>6, <2>7 DEF StoreIInv
<1> QED BY <1>6, <1>7, <1>8, <1>9, <1>10 DEF CallerDoes

\* The server works on one connection and commits nothing.
LEMMA ServerWorksOn ==
    ASSUME Typed, StoreIInv, NEW c \in Conns, UNCHANGED <<call, rows, last, committed>>,
           \A d \in Conns : conn'[d].bad = conn[d].bad,
           \A d \in Conns \ {c} : sess'[d] = sess[d] /\ req'[d] = req[d] /\ ans'[d] = ans[d],
           Session(c)', Commits(c)',
           \A k \in Callers : call[k].c = c /\ call[k].pc \in {"send", "wait"} => Doing(k)'
    PROVE  StoreIInv'
<1>1. RowsWhole'
  BY DEF StoreIInv, RowsWhole
<1>2. ASSUME NEW d \in Conns, d # c PROVE Session(d)' /\ Commits(d)'
  <2>1. Session(d) /\ Commits(d)
    BY DEF StoreIInv
  <2> QED BY <1>2, <2>1 DEF Session, Commits, Ready, Own, Has, Swept, Op
<1>3. ASSUME NEW k \in Callers PROVE Doing(k)'
  <2>1. Doing(k)
    BY DEF StoreIInv
  <2>2. CASE ~(call[k].pc \in {"send", "wait"})
    BY <2>2 DEF Doing
  <2>3. CASE call[k].pc \in {"send", "wait"} /\ call[k].c # c
    <3>1. PICK d \in Conns : call[k].c = d
      BY <2>3, CallTyped DEF Typed, CallsTyped
    <3> QED BY <2>1, <2>3, <3>1, StillDoing
  <2>4. CASE call[k].pc \in {"send", "wait"} /\ call[k].c = c
    BY <2>4
  <2> QED BY <2>2, <2>3, <2>4
<1> QED BY <1>1, <1>2, <1>3 DEF StoreIInv

\* A session whose transaction is over has nothing to keep.
LEMMA Over ==
    ASSUME Typed, NEW c \in Conns, call' = call, sess'[c].st # "tx", sess'[c].wrote = Nothing,
           sess'[c].saw = {}, ~sess'[c].started
    PROVE  /\ Session(c)' /\ Commits(c)'
           /\ \A k \in Callers : call[k].c = c => Doing(k)'
<1>1. DOMAIN Nothing = {}
  BY DEF Nothing
<1> QED BY <1>1 DEF Session, Commits, Doing

\* A session whose transaction is over has written and seen nothing.
LEMMA OverStates ==
    \A v \in {NoSession, IdleSession, [NoSession EXCEPT !.st = "failed"]} :
        v.st # "tx" /\ v.wrote = Nothing /\ v.saw = {} /\ ~v.started
BY DEF NoSession, IdleSession

\* A statement is executed in a transaction: what its caller's transaction has done by then.
LEMMA DoesNext ==
    ASSUME Typed, WireIInv, StoreIInv, NEW c \in Conns, req[c] # <<>>, call' = call,
           conn'[c].bad = conn[c].bad,
           NEW k \in Callers, call[k].c = c, call[k].pc \in {"send", "wait"},
           ~conn[c].bad /\ sess'[c].st = "tx" /\ Current(k).kind = Head(req[c]).kind
           /\ Head(req[c]) = Request(k) /\ Op(Head(req[c])) = OpId(k) /\ sess[c].st = Before(k)
           /\ Done(k) = call[k].at - 1 =>
              /\ Own(c, OpId(k))'
              /\ \A i \in 1..call[k].at : call[k].stmts[i].kind = "upsert" =>
                    Has(c, call[k].stmts[i].path, OpId(k))'
              /\ call[k].at >= 2 => Swept(c)'
    PROVE  Doing(k)'
<1>1. call[k].at \in Nat /\ OpId(k)' = OpId(k)
  BY CallTyped DEF Typed, CallsTyped, OpId
<1>2. CASE conn[c].bad \/ sess'[c].st # "tx"
  BY <1>2 DEF Doing
<1>3. CASE ~conn[c].bad /\ sess'[c].st = "tx"
  <2>1. /\ Own(c, OpId(k))'
        /\ \A i \in 1..call[k].at : call[k].stmts[i].kind = "upsert" =>
              Has(c, call[k].stmts[i].path, OpId(k))'
        /\ call[k].at >= 2 => Swept(c)'
    BY <1>3, Served
  <2>2. Done(k)' \in {call[k].at, call[k].at - 1}
    BY DEF Done
  <2>3. /\ \A i \in 1..(Done(k)') : i \in 1..call[k].at
        /\ Done(k)' >= 2 => call[k].at >= 2
    BY <1>1, <2>2
  <2> HIDE DEF Done
  <2> QED BY <1>1, <2>1, <2>3 DEF Doing, Own, Has
<1> QED BY <1>2, <1>3

\* Every step of the server but COMMIT keeps StoreIInv.
LEMMA ServerStore ==
    ASSUME Typed, WireIInv, StoreIInv,
           NEW c \in Conns, (Serve(c) /\ ~ServerCommit(c)) \/ ServerRefuses(c) \/ Break(c)
    PROVE  StoreIInv'
<1>0. /\ req \in [Conns -> Seq(Msg_)] /\ ans \in [Conns -> Seq(Ans_)] /\ Wire(c)
      /\ sess \in [Conns -> Sess_] /\ sess[c] \in Sess_ /\ conn \in [Conns -> Conn_]
      /\ call \in [Callers -> Call_] /\ rows \in [Paths -> Row_]
      /\ sess[c].wrote \in Write_ /\ DOMAIN sess[c].wrote \in SUBSET Paths
      /\ (req[c] # <<>> => Tail(req[c]) = <<>>)
      /\ Session(c) /\ Commits(c) /\ \A k \in Callers : Doing(k)
  <2>1. sess[c] \in Sess_ /\ Wire(c)
    BY DEF Typed, StoreTyped, WireIInv
  <2>2. sess[c].wrote \in Write_
    BY <2>1 DEF Sess_
  <2>3. DOMAIN sess[c].wrote \in SUBSET Paths
    BY <2>2 DEF Write_
  <2> QED BY <2>1, <2>2, <2>3, OneMessage DEF Typed, WireTyped, CallsTyped, StoreTyped, Wire, StoreIInv
<1>1. ASSUME UNCHANGED <<call, conn, rows, last, committed>>, req[c] # <<>>,
             \E ok, found \in BOOLEAN : Answer(c, ok, found),
             \A d \in Conns \ {c} : sess'[d] = sess[d],
             Session(c)', \A k \in Callers : call[k].c = c /\ call[k].pc \in {"send", "wait"} => Doing(k)'
      PROVE  StoreIInv'
  <2>1. req'[c] = <<>> /\ \A d \in Conns \ {c} : req'[d] = req[d] /\ ans'[d] = ans[d]
    BY <1>0, <1>1 DEF Answer
  <2>2. Commits(c)'
    BY <2>1 DEF Commits
  <2> QED BY <1>1, <2>1, <2>2, ServerWorksOn
<1>2. ASSUME UNCHANGED <<call, conn, rows, last, committed>>, req[c] # <<>>,
             \E ok, found \in BOOLEAN : Answer(c, ok, found),
             NEW v \in {NoSession, IdleSession, [NoSession EXCEPT !.st = "failed"]},
             sess' = [sess EXCEPT ![c] = v]
      PROVE  StoreIInv'
  <2>1. sess'[c] = v /\ \A d \in Conns \ {c} : sess'[d] = sess[d]
    BY <1>0, <1>2
  <2>2. Session(c)' /\ \A k \in Callers : call[k].c = c => Doing(k)'
    BY <1>2, <2>1, OverStates, Over
  <2> QED BY <1>1, <1>2, <2>1, <2>2
<1>3. CASE ServerBegin(c)
  <2>1. /\ req[c] # <<>> /\ Head(req[c]).kind = "begin" /\ Answer(c, TRUE, TRUE)
        /\ sess' = [sess EXCEPT ![c].st = "tx", ![c].saw = committed]
        /\ UNCHANGED <<call, conn, rows, last, committed>>
    BY <1>3 DEF ServerBegin, Executes, clientVars
  <2>2. /\ sess'[c].st = "tx" /\ sess'[c].started = sess[c].started /\ sess'[c].saw = committed
        /\ sess'[c].wrote = sess[c].wrote
        /\ \A d \in Conns \ {c} : sess'[d] = sess[d]
    BY <1>0, <2>1 DEF Sess_
  <2>3. ~sess[c].started
    BY <1>0, <2>1 DEF Wire
  <2>4. Session(c)'
    BY <2>1, <2>2, <2>3 DEF Session
  <2>5. ASSUME NEW k \in Callers, call[k].c = c, call[k].pc \in {"send", "wait"} PROVE Doing(k)'
    <3>1. ASSUME Current(k).kind = "begin", sess[c].st = Before(k)
          PROVE  /\ Own(c, OpId(k))' /\ call[k].at = 1
                 /\ \A i \in 1..call[k].at : call[k].stmts[i].kind # "upsert"
      <4>1. DOMAIN sess[c].wrote = {}
        BY <1>0, <2>5, <3>1, BeforeKind DEF Session
      <4>2. call[k].at = 1 /\ \A i \in 1..call[k].at : call[k].stmts[i].kind # "upsert"
        BY <1>0, <2>5, <3>1, PlaceOfUpserts
      <4> QED BY <2>2, <4>1, <4>2 DEF Own
    <3> QED BY <2>1, <2>5, <3>1, DoesNext
  <2> QED BY <1>1, <2>1, <2>2, <2>4, <2>5
<1>4. CASE ServerRead(c)
  <2>1. /\ req[c] # <<>> /\ Head(req[c]).kind \in {"select", "ping"}
        /\ \E ok, found \in BOOLEAN : Answer(c, ok, found)
        /\ UNCHANGED <<call, conn, sess, rows, last, committed>>
    BY <1>4 DEF ServerRead, Executes, clientVars
  <2>2. Session(c)'
    BY <1>0, <2>1 DEF Session, Swept
  <2>3. ASSUME NEW k \in Callers, call[k].c = c, call[k].pc \in {"send", "wait"} PROVE Doing(k)'
    <3>1. Current(k).kind \in {"select", "ping"} => Before(k) = "idle"
      BY <1>0, <2>3, BeforeKind
    <3> QED BY <2>1, <2>3, <3>1, DoesNext
  <2> QED BY <1>1, <2>1, <2>2, <2>3
<1>5. CASE ServerDelete(c)
  <2> DEFINE todo == {<<p, rows[p].ins>> : p \in {q \in Paths : rows[q] # NoRow}}
  <2>1. /\ req[c] # <<>> /\ Head(req[c]).kind = "delete" /\ sess[c].st = "tx"
        /\ sess' = [sess EXCEPT ![c].started = TRUE, ![c].todo = todo]
        /\ UNCHANGED <<call, conn, req, ans, rows, last, committed>>
    BY <1>5 DEF ServerDelete, Executes, clientVars, wireVars
  <2>2. /\ sess'[c].st = "tx" /\ sess'[c].saw = sess[c].saw /\ sess'[c].wrote = sess[c].wrote
        /\ sess'[c].todo = todo
        /\ \A d \in Conns \ {c} : sess'[d] = sess[d]
    <3> HIDE DEF todo
    <3> QED BY <1>0, <2>1 DEF Sess_
  <2>3. Swept(c)'
    BY <2>1, <2>2 DEF Swept
  <2>4. Session(c)' /\ Commits(c)'
    BY <1>0, <2>1, <2>2, <2>3 DEF Session, Commits
  <2>5. ASSUME NEW k \in Callers, call[k].c = c PROVE Doing(k)'
    <3>1. Doing(k) /\ Done(k)' = Done(k) /\ OpId(k)' = OpId(k) /\ call' = call /\ conn' = conn
      BY <1>0, <2>1 DEF Done, OpId
    <3>2. /\ Own(c, OpId(k)) => Own(c, OpId(k))'
          /\ \A p : Has(c, p, OpId(k)) => Has(c, p, OpId(k))'
      BY <2>2, <3>1 DEF Own, Has
    <3> HIDE DEF Done
    <3> QED BY <2>1, <2>2, <2>3, <2>5, <3>1, <3>2 DEF Doing
  <2> QED BY <2>1, <2>2, <2>4, <2>5, ServerWorksOn
<1>6. CASE DeleteRow(c)
  <2>1. PICK t \in sess[c].todo :
          /\ sess[c].started
          /\ sess' = [sess EXCEPT ![c].todo = @ \ {t},
                            ![c].wrote = IF rows[t[1]] # NoRow /\ rows[t[1]].ins = t[2]
                                         THEN With(@, t[1], NoRow) ELSE @]
          /\ UNCHANGED <<call, conn, req, ans, rows, last, committed>>
    BY <1>6 DEF DeleteRow, clientVars, wireVars
  <2> DEFINE gone == rows[t[1]] # NoRow /\ rows[t[1]].ins = t[2]
             w == IF gone THEN With(sess[c].wrote, t[1], NoRow) ELSE sess[c].wrote
  <2>2. /\ sess'[c].st = sess[c].st /\ sess'[c].saw = sess[c].saw
        /\ sess'[c].started = sess[c].started
        /\ sess'[c].todo = sess[c].todo \ {t} /\ sess'[c].wrote = w
        /\ \A d \in Conns \ {c} : sess'[d] = sess[d]
    <3>1. sess' = [sess EXCEPT ![c].todo = sess[c].todo \ {t}, ![c].wrote = w]
      BY <2>1
    <3> HIDE DEF w
    <3> QED BY <1>0, <3>1 DEF Sess_
  <2>3. /\ sess[c].st = "tx" /\ req[c] # <<>> /\ Head(req[c]).kind = "delete"
    BY <1>0, <2>1 DEF Wire
  <2>4. t[1] \in Paths /\ t = <<t[1], t[2]>>
    BY <1>0 DEF Sess_
  <2>5. /\ \A p \in DOMAIN w : (p \in DOMAIN sess[c].wrote /\ w[p] = sess[c].wrote[p]) \/ w[p] = NoRow
        /\ \A p \in DOMAIN sess[c].wrote : p \in DOMAIN w
        /\ gone => t[1] \in DOMAIN w
    BY DEF With
  <2> HIDE DEF w
  <2>6. Swept(c)'
    <3> SUFFICES ASSUME NEW p \in Paths, rows[p] # NoRow, rows[p].by \in sess[c].saw
                 PROVE  p \in DOMAIN w \/ <<p, rows[p].ins>> \in sess[c].todo \ {t}
      BY <2>1, <2>2 DEF Swept
    <3>1. p \in DOMAIN sess[c].wrote \/ <<p, rows[p].ins>> \in sess[c].todo
      BY <1>0, <2>1 DEF Session, Swept
    <3>2. CASE <<p, rows[p].ins>> = t
      BY <2>4, <2>5, <3>2
    <3> QED BY <2>5, <3>1, <3>2
  <2>7. Session(c)' /\ Commits(c)'
    BY <1>0, <2>1, <2>2, <2>3, <2>6 DEF Session, Commits
  <2>8. ASSUME NEW k \in Callers, call[k].c = c, call[k].pc \in {"send", "wait"} PROVE Doing(k)'
    <3>1. CASE conn[c].bad
      BY <2>1, <2>8, <3>1 DEF Doing
    <3>2. CASE ~conn[c].bad
      <4>1. Current(k).kind = "delete" /\ Done(k) = call[k].at - 1
        BY <2>3, <2>8, <3>2, Served
      <4>2. call[k].at = 2 /\ \A i \in 1..call[k].at : call[k].stmts[i].kind # "upsert"
        BY <1>0, <2>8, <4>1, PlaceOfUpserts
      <4>3. Done(k)' = 1 /\ OpId(k)' = OpId(k)
        <5>1. Done(k)' = Done(k)
          BY <2>1 DEF Done
        <5> QED BY <2>1, <4>1, <4>2, <5>1 DEF OpId
      <4>4. \A i \in 1..1 : call[k].stmts[i].kind # "upsert"
        BY <4>2
      <4>5. Own(c, OpId(k))
        BY <1>0, <2>3, <2>8, <3>2 DEF Doing
      <4>6. Own(c, OpId(k))'
        BY <2>2, <2>5, <4>3, <4>5 DEF Own
      <4> HIDE DEF Done
      <4> QED BY <2>1, <2>8, <4>3, <4>4, <4>6 DEF Doing
    <3> QED BY <3>1, <3>2
  <2> QED BY <2>1, <2>2, <2>7, <2>8, ServerWorksOn
<1>7. CASE DeleteDone(c)
  <2>1. /\ req[c] # <<>> /\ Head(req[c]).kind = "delete" /\ sess[c].st = "tx" /\ sess[c].started
        /\ sess' = [sess EXCEPT ![c].started = FALSE] /\ Answer(c, TRUE, TRUE)
        /\ UNCHANGED <<call, conn, rows, last, committed>>
    BY <1>7 DEF DeleteDone, Executes, clientVars
  <2>2. /\ sess'[c].st = "tx" /\ sess'[c].saw = sess[c].saw /\ sess'[c].todo = sess[c].todo
        /\ sess'[c].wrote = sess[c].wrote
        /\ \A d \in Conns \ {c} : sess'[d] = sess[d]
    BY <1>0, <2>1 DEF Sess_
  <2>3. Swept(c)' /\ Session(c)'
    BY <1>0, <2>1, <2>2 DEF Session, Swept
  <2>4. ASSUME NEW k \in Callers, call[k].c = c, call[k].pc \in {"send", "wait"} PROVE Doing(k)'
    <3>1. ASSUME Current(k).kind = "delete", ~conn[c].bad
          PROVE  /\ Own(c, OpId(k))'
                 /\ \A i \in 1..call[k].at : call[k].stmts[i].kind # "upsert"
      <4>1. Own(c, OpId(k))
        BY <1>0, <2>1, <2>4, <3>1 DEF Doing
      <4>2. \A i \in 1..call[k].at : call[k].stmts[i].kind # "upsert"
        BY <1>0, <2>4, <3>1, PlaceOfUpserts
      <4> QED BY <2>1, <2>2, <4>1, <4>2 DEF Own, OpId
    <3> QED BY <2>1, <2>3, <2>4, <3>1, DoesNext
  <2> QED BY <1>1, <2>1, <2>2, <2>3, <2>4
<1>8. CASE ServerUpsert(c)
  <2>0. PICK m : m = Head(req[c])
    OBVIOUS
  <2> DEFINE row == Written(RowFor(c, m.path), Op(m))
             w == With(sess[c].wrote, m.path, row)
  <2>1. /\ req[c] # <<>> /\ m.kind = "upsert" /\ sess[c].st = "tx"
        /\ sess' = [sess EXCEPT ![c].wrote = w] /\ Answer(c, TRUE, TRUE)
        /\ UNCHANGED <<call, conn, rows, last, committed>>
    BY <1>8, <2>0 DEF ServerUpsert, Executes, clientVars
  <2>2. row.by = Op(m)
    <3>1. m.path \in Paths /\ Op(m) \in Op_
      BY <2>0, <2>1, MessageTyped DEF Typed
    <3>2. RowFor(c, m.path) \in Row_
      BY <3>1, RowTyped DEF Typed
    <3> QED BY <3>1, <3>2 DEF Written, Row_
  <2> HIDE DEF row
  <2>3. /\ DOMAIN w = DOMAIN sess[c].wrote \cup {m.path}
        /\ \A p \in DOMAIN w : w[p] = IF p = m.path THEN row ELSE sess[c].wrote[p]
    BY DEF With
  <2> HIDE DEF w
  <2>4. /\ sess'[c].st = "tx" /\ sess'[c].started = sess[c].started /\ sess'[c].wrote = w
        /\ sess'[c].saw = sess[c].saw /\ sess'[c].todo = sess[c].todo
        /\ \A d \in Conns \ {c} : sess'[d] = sess[d]
    BY <1>0, <2>1 DEF Sess_
  <2>5. Swept(c) => Swept(c)'
    BY <2>1, <2>3, <2>4 DEF Swept
  <2>6. Session(c)'
    BY <1>0, <2>1, <2>4, <2>5 DEF Session
  <2>7. ASSUME NEW k \in Callers, call[k].c = c, call[k].pc \in {"send", "wait"} PROVE Doing(k)'
    <3>1. ASSUME Current(k).kind = "upsert", ~conn[c].bad, Head(req[c]) = Request(k),
                 Op(Head(req[c])) = OpId(k), Done(k) = call[k].at - 1
          PROVE  /\ Own(c, OpId(k))'
                 /\ \A i \in 1..call[k].at : call[k].stmts[i].kind = "upsert" =>
                        Has(c, call[k].stmts[i].path, OpId(k))'
                 /\ Swept(c)'
      <4>1. call[k].at >= 3 /\ call[k].at \in Nat /\ call[k].stmts[call[k].at].path = m.path
        BY <1>0, <2>0, <2>7, <3>1, PlaceOfUpserts, CallTyped, RequestKind
      <4>2. call[k].at - 1 >= 2
        BY <4>1
      <4>3. /\ Own(c, OpId(k)) /\ Swept(c)
            /\ \A i \in 1..(call[k].at - 1) : call[k].stmts[i].kind = "upsert" =>
                   Has(c, call[k].stmts[i].path, OpId(k))
        BY <1>0, <2>1, <2>7, <3>1, <4>2 DEF Doing
      <4>4. OpId(k)' = OpId(k) /\ row.by = OpId(k)
        BY <2>0, <2>1, <2>2, <3>1 DEF OpId
      <4>5. Own(c, OpId(k))'
        BY <2>3, <2>4, <4>3, <4>4 DEF Own
      <4>6. \A p : Has(c, p, OpId(k)) \/ p = m.path => Has(c, p, OpId(k))'
        BY <2>3, <2>4, <4>4 DEF Has
      <4>7. \A i \in 1..call[k].at : i \in 1..(call[k].at - 1) \/ i = call[k].at
        BY <4>1
      <4>8. \A i \in 1..call[k].at : call[k].stmts[i].kind = "upsert" =>
                Has(c, call[k].stmts[i].path, OpId(k)) \/ call[k].stmts[i].path = m.path
        BY <4>1, <4>3, <4>7
      <4>9. call' = call
        BY <2>1
      <4> QED BY <2>5, <4>3, <4>5, <4>6, <4>8, <4>9
    <3> QED BY <2>0, <2>1, <2>7, <3>1, DoesNext
  <2> QED BY <1>1, <2>1, <2>4, <2>6, <2>7
<1>9. CASE ServerRollback(c)
  BY <1>2, <1>9 DEF ServerRollback, Executes, clientVars
<1>10. CASE DeadlockVictim(c) \/ ServerRefuses(c)
  <2>1. req[c] # <<>> /\ Abort(c)
    BY <1>10 DEF DeadlockVictim, ServerRefuses
  <2> QED BY <1>2, <2>1 DEF Abort, clientVars
<1>11. CASE ServerEnds(c)
  <2>1. /\ sess' = [sess EXCEPT ![c] = NoSession] /\ req' = [req EXCEPT ![c] = <<>>]
        /\ UNCHANGED <<call, conn, ans, rows, last, committed>>
    BY <1>11 DEF ServerEnds, clientVars
  <2>2. sess'[c] = NoSession /\ \A d \in Conns \ {c} : sess'[d] = sess[d] /\ req'[d] = req[d]
    BY <1>0, <2>1
  <2>3. Session(c)' /\ Commits(c)' /\ \A k \in Callers : call[k].c = c => Doing(k)'
    BY <2>1, <2>2, OverStates, Over
  <2> QED BY <2>1, <2>2, <2>3, ServerWorksOn
<1>12. CASE Break(c)
  <2>1. PICK kept \in {ans[c], <<>>} :
          /\ conn' = [conn EXCEPT ![c].cut = TRUE] /\ ans' = [ans EXCEPT ![c] = kept]
          /\ UNCHANGED <<call, req, sess, rows, last, committed>>
    BY <1>12 DEF Break, clientVars, serverVars
  <2>2. /\ \A d \in Conns : conn'[d].bad = conn[d].bad
        /\ ans'[c] = ans[c] \/ ans'[c] = <<>>
        /\ \A d \in Conns \ {c} : ans'[d] = ans[d]
    BY <1>0, <2>1 DEF Conn_
  <2>3. Session(c)' /\ Commits(c)'
    BY <1>0, <2>1 DEF Session, Commits, Ready, Own, Has, Swept, Op
  <2>4. \A k \in Callers : call[k].c = c => Doing(k)'
    BY <1>0, <2>1, <2>2, StillDoing
  <2> QED BY <2>1, <2>2, <2>3, <2>4, ServerWorksOn
<1> QED BY <1>3, <1>4, <1>5, <1>6, <1>7, <1>8, <1>9, <1>10, <1>11, <1>12 DEF Serve

\* The commit of a replacement: its rows are there, older ones it has seen are gone, and other
\* transactions have not seen it.
LEMMA CommitStore ==
    ASSUME Typed, WireIInv, OpsIInv, StoreIInv, NEW c \in Conns, ServerCommit(c)
    PROVE  StoreIInv'
<1>0. PICK m : m = Head(req[c])
  OBVIOUS
<1>1. /\ req[c] # <<>> /\ m.kind = "commit" /\ sess[c].st = "tx"
      /\ rows' = [p \in Paths |-> RowFor(c, p)]
      /\ last' = [id |-> Op(m), files |-> m.files, saw |-> sess[c].saw]
      /\ committed' = committed \cup {Op(m)}
      /\ sess' = [sess EXCEPT ![c] = IdleSession] /\ Answer(c, TRUE, TRUE)
      /\ UNCHANGED <<call, conn>>
  BY <1>0 DEF ServerCommit, Executes, clientVars
<1>2. /\ Ready(c, m) /\ Op(m) \notin committed /\ Session(c) /\ Wire(c) /\ RowsWhole
      /\ m.files \in SUBSET Paths
      /\ sess \in [Conns -> Sess_] /\ req \in [Conns -> Seq(Msg_)] /\ ans \in [Conns -> Seq(Ans_)]
  BY <1>0, <1>1, MessageTyped
     DEF StoreIInv, Commits, OpsIInv, Fresh, WireIInv, Typed, StoreTyped, WireTyped
<1>3. /\ \A d \in Conns \ {c} : sess'[d] = sess[d] /\ req'[d] = req[d] /\ ans'[d] = ans[d]
      /\ sess'[c] = IdleSession /\ req'[c] = <<>>
  BY <1>0, <1>1, <1>2, OneMessage DEF Answer, Wire
<1>4. ASSUME NEW p \in Paths
      PROVE  /\ p \in DOMAIN sess[c].wrote => rows'[p] = NoRow \/ rows'[p].by = Op(m)
             /\ p \notin DOMAIN sess[c].wrote => rows'[p] = rows[p]
  BY <1>1, <1>2 DEF RowFor, Ready, Own
<1>5. \A p \in m.files : rows'[p].by = Op(m)
  BY <1>1, <1>2 DEF RowFor, Ready, Has
<1>6. sess[c].todo = {}
  BY <1>0, <1>1, <1>2 DEF Wire
<1>7. RowsWhole'
  <2>1. ASSUME NEW p \in Paths, rows'[p] # NoRow PROVE rows'[p].by \in committed'
    BY <1>1, <1>2, <1>4, <2>1 DEF RowsWhole
  <2>2. ASSUME NEW p \in Paths, rows'[p] # NoRow PROVE rows'[p].by \notin sess[c].saw
    <3>1. CASE p \in DOMAIN sess[c].wrote
      BY <1>2, <1>4, <2>2, <3>1 DEF Session
    <3>2. CASE p \notin DOMAIN sess[c].wrote
      BY <1>2, <1>4, <1>6, <2>2, <3>2 DEF Ready, Swept
    <3> QED BY <3>1, <3>2
  <2>3. last'.id = Op(m) /\ last'.files = m.files /\ last'.saw = sess[c].saw
    BY <1>1
  <2> QED BY <1>5, <2>1, <2>2, <2>3 DEF RowsWhole
<1>8. ASSUME NEW d \in Conns, d # c, Swept(d), sess[d].saw \in SUBSET committed PROVE Swept(d)'
  <2> SUFFICES ASSUME NEW p \in Paths, rows'[p] # NoRow, rows'[p].by \in sess[d].saw
               PROVE  p \in DOMAIN sess[d].wrote \/ <<p, rows'[p].ins>> \in sess[d].todo
    BY <1>3, <1>8 DEF Swept
  <2>1. rows'[p] = rows[p]
    BY <1>2, <1>4, <1>8
  <2> QED BY <1>8, <2>1 DEF Swept
<1>9. ASSUME NEW d \in Conns PROVE Session(d)' /\ Commits(d)'
  <2>1. CASE d = c
    BY <1>1, <1>3, <2>1, OverStates, Over
  <2>2. CASE d # c
    <3>1. Session(d) /\ Commits(d)
      BY DEF StoreIInv
    <3>2. Session(d)'
      BY <1>1, <1>3, <1>8, <2>2, <3>1 DEF Session
    <3>3. ASSUME req[d] # <<>>, Head(req[d]).kind = "commit", sess[d].st = "tx"
          PROVE  Ready(d, Head(req[d]))'
      <4>1. Ready(d, Head(req[d])) /\ Swept(d)'
        BY <1>8, <2>2, <3>1, <3>3 DEF Commits, Ready, Session
      <4> QED BY <1>3, <2>2, <4>1 DEF Ready, Own, Has, Op
    <3> QED BY <1>3, <2>2, <3>2, <3>3 DEF Commits
  <2> QED BY <2>1, <2>2
<1>10. ASSUME NEW k \in Callers PROVE Doing(k)'
  <2>1. Doing(k)
    BY DEF StoreIInv
  <2>2. CASE ~(call[k].pc \in {"send", "wait"})
    BY <1>1, <2>2 DEF Doing
  <2>3. CASE call[k].c = c
    BY <1>1, <1>3, <2>3, OverStates, Over
  <2>4. CASE call[k].pc \in {"send", "wait"} /\ call[k].c # c
    <3>1. PICK d \in Conns : call[k].c = d
      BY <2>4, CallTyped DEF Typed, CallsTyped
    <3>2. d # c /\ sess[d].saw \in SUBSET committed
      BY <2>4, <3>1 DEF StoreIInv, Session
    <3>3. /\ Done(k)' = Done(k) /\ OpId(k)' = OpId(k)
          /\ Own(d, OpId(k)) => Own(d, OpId(k))'
          /\ \A p : Has(d, p, OpId(k)) => Has(d, p, OpId(k))'
          /\ Swept(d) => Swept(d)'
      BY <1>1, <1>3, <1>8, <3>1, <3>2 DEF Done, OpId, Own, Has
    <3>4. call' = call /\ conn' = conn /\ sess'[d] = sess[d]
      BY <1>1, <1>3, <3>2
    <3> HIDE DEF Done
    <3> QED BY <2>1, <3>1, <3>3, <3>4 DEF Doing
  <2> QED BY <2>2, <2>3, <2>4
<1> QED BY <1>7, <1>9, <1>10 DEF StoreIInv

\* In the first state there are no rows and no transactions.
LEMMA InitStore == PgInit => StoreIInv
<1> SUFFICES ASSUME PgInit PROVE StoreIInv
  OBVIOUS
<1>1. \A k \in Callers : Doing(k)
  BY DEF PgInit, IdleCall, Doing
<1>2. ASSUME NEW c \in Conns PROVE Session(c) /\ Commits(c)
  <2>1. sess[c] = NoSession /\ DOMAIN NoSession.wrote = {} /\ NoSession.saw = {} /\ ~NoSession.started
        /\ req[c] = <<>>
    BY DEF PgInit, NoSession, Nothing
  <2> QED BY <2>1 DEF Session, Commits
<1>3. RowsWhole
  BY DEF PgInit, RowsWhole
<1> QED BY <1>1, <1>2, <1>3 DEF StoreIInv

\* Every step keeps StoreIInv.
LEMMA NextStore ==
    Typed /\ Typed' /\ WireIInv /\ OpsIInv /\ StoreIInv /\ [PgNext]_vars => StoreIInv'
<1>1. ASSUME Typed, Typed', WireIInv, OpsIInv, StoreIInv, PgNext PROVE StoreIInv'
  BY <1>1, CallerOutcome, CallerStore, ServerStore, CommitStore DEF PgNext
<1>2. ASSUME StoreIInv, UNCHANGED vars PROVE StoreIInv'
  BY <1>2 DEF vars, StoreIInv, Doing, Done, Session, Commits, Ready, Own, Has, Swept, RowsWhole, OpId, Op
<1> QED BY <1>1, <1>2

\* Operations and their transactions, in every state.
THEOREM StoreInvariant == PgSpec => [](OpsIInv /\ StoreIInv)
<1>1. PgInit => Typed /\ WireIInv /\ OnceIInv /\ OpsIInv /\ StoreIInv
  BY InitTyped, InitWire, InitOnce, InitOps, InitStore DEF Typed
<1>2. Typed /\ WireIInv /\ OnceIInv /\ OpsIInv /\ StoreIInv /\ [PgNext]_vars =>
          (Typed /\ WireIInv /\ OnceIInv /\ OpsIInv /\ StoreIInv)'
  <2>1. Typed /\ [PgNext]_vars => Typed'
    BY NextTyped DEF Typed
  <2> QED BY <2>1, NextWire, NextOnce, NextOps, NextStore
<1> QED BY <1>1, <1>2, PTL DEF PgSpec

\* ReplacedWhole: overlapping replacements, refusals, deadlocks and broken connections leave no
\* part of a replacement and nothing of what it replaced.
THEOREM FilesAreReplacedWhole == PgSpec => []ReplacedWhole
<1>1. OpsIInv /\ StoreIInv => ReplacedWhole
  BY DEF OpsIInv, StoreIInv, Reported, RowsWhole, ReplacedWhole
<1> QED BY <1>1, StoreInvariant, PTL
==============================================================================
