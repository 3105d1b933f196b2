------------------------------- MODULE FullScan -------------------------------
(***************************************************************************)
(* What a scan of the local transcripts promises, with no cache in sight:  *)
(* every session it reports carries the digest of what its transcript      *)
(* holds at the moment it is reported.  cli/main.go calls the scan cache   *)
(* "strictly an optimization"; ScanCache is shown to implement this        *)
(* module, which is what that claim means.                                 *)
(***************************************************************************)
CONSTANTS
    Runs,           \* agent-ingest processes, each scanning the same home
    Keys,           \* session identities: (source, id) pairs
    Paths,          \* transcript files
    PathsOf,        \* [Keys -> SUBSET Paths]: the files that may hold a session
    Contents,       \* what a non-empty transcript may hold
    Digest,         \* [Contents -> digests]: SHA-256 of the sanitized content
    Empty, Absent,  \* a file of size zero, a file that does not exist
    NotFound        \* a session a scan has not reported

VARIABLES
    body,           \* [Paths -> Contents \cup {Empty, Absent}]
    found           \* [Runs -> [Keys -> digests \cup {NotFound}]]

vars == <<body, found>>

Init ==
    /\ body \in [Paths -> {Empty, Absent} \cup Contents]
    /\ found = [r \in Runs |-> [k \in Keys |-> NotFound]]

\* A coding agent creates, rewrites, empties or removes a transcript.
Change(p) ==
    /\ \E b \in {Empty, Absent} \cup Contents : body' = [body EXCEPT ![p] = b]
    /\ UNCHANGED found

\* A run begins, or gives up: nothing is reported.
Restart(r) ==
    /\ found' = [found EXCEPT ![r] = [k \in Keys |-> NotFound]]
    /\ UNCHANGED body

\* A run reports a session, once, from a file that holds it now.
Report(r, k, p) ==
    /\ found[r][k] = NotFound
    /\ p \in PathsOf[k]
    /\ body[p] \in Contents
    /\ found' = [found EXCEPT ![r][k] = Digest[body[p]]]
    /\ UNCHANGED body

Next ==
    \/ \E p \in Paths : Change(p)
    \/ \E r \in Runs : Restart(r)
    \/ \E r \in Runs, k \in Keys, p \in Paths : Report(r, k, p)

Spec == Init /\ [][Next]_vars
===============================================================================
