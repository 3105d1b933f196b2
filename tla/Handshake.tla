------------------------------ MODULE Handshake ------------------------------
(***************************************************************************)
(* The start of a connection (internal/pgdriver: startup, handleAuth,      *)
(* handleSCRAM), over the messages the server sends.  A message is         *)
(* [type, code, ok]: its type, for an authentication request its code, and *)
(* whether what it carries is what the client requires of it:              *)
(*    code 5    a whole salt;                                              *)
(*    code 10   SCRAM-SHA-256 among the mechanisms;                        *)
(*    code 11   nonce, salt and iterations are all there, and the nonce    *)
(*              begins with the client's;                                  *)
(*    code 12   the signature made with the password both sides know.      *)
(* A connection that ends, or a deadline, is a sequence that ends.         *)
(***************************************************************************)
EXTENDS Integers, Sequences, SequencesExt

\* Of a connection: where it is, what the client sent, the messages it read.
Dialed == [at |-> "starting", sent |-> <<"startup">>, read |-> 0]

Failed(c) == [c EXCEPT !.at = "failed"]
Sends(c, what, at) == [c EXCEPT !.sent = Append(@, what), !.at = at]

handleAuth(c, m) ==
    CASE m.code = 0 -> c
      [] m.code = 3 -> Sends(c, "password", "starting")
      [] m.code = 5 /\ m.ok -> Sends(c, "md5", "starting")
      [] m.code = 10 /\ m.ok -> Sends(c, "nonce", "continue")
      [] OTHER -> Failed(c)

parseSCRAMServerFirst(m) == m.type = "R" /\ m.code = 11 /\ m.ok

\* Within SCRAM only the message it is waiting for will do, not even a notice.
AwaitContinue(c, m) == IF parseSCRAMServerFirst(m) THEN Sends(c, "proof", "final") ELSE Failed(c)

AcceptAnyFinal(c, m) == IF m.type = "R" /\ m.code = 12 THEN [c EXCEPT !.at = "starting"] ELSE Failed(c)

AwaitFinal(c, m) == IF m.type = "R" /\ m.code = 12 /\ m.ok THEN [c EXCEPT !.at = "starting"] ELSE Failed(c)

Receive(c, m) ==
    CASE c.at = "continue" -> AwaitContinue(c, m)
      [] c.at = "final" -> AwaitFinal(c, m)
      [] OTHER ->
            CASE m.type = "R" -> handleAuth(c, m)
              [] m.type \in {"S", "K", "N"} -> c
              [] m.type = "Z" -> [c EXCEPT !.at = "ready"]
              [] OTHER -> Failed(c)

\* The loop returns at the first message that decides.
Next(c, m) == IF c.at \in {"ready", "failed"} THEN c ELSE Receive([c EXCEPT !.read = @ + 1], m)
startup(messages) == FoldLeft(Next, Dialed, messages)
=============================================================================
