------------------------------ MODULE ScanCache -------------------------------
(***************************************************************************)
(* The transcript scan of agent-ingest and its hash cache:                 *)
(* cli/internal/scan/scan.go and cli/internal/scan/cache.go.               *)
(*                                                                         *)
(* Several runs may scan one home directory at once (a cron job beside a   *)
(* run by hand) while coding agents go on writing the transcripts.  A run  *)
(* loads the cache file, walks the transcripts, takes a cached digest when *)
(* the file's path, size and mtime are those of the entry, reads and       *)
(* hashes the file otherwise, and at the end overwrites the cache file     *)
(* with everything it holds in memory.                                     *)
(*                                                                         *)
(* stat[p] stands for the (size, mtime) pair os.Stat returns.  Every write *)
(* gives the file a pair it never had: transcripts are append-only, so the *)
(* size grows, and a rewrite moves the mtime.  For the same reason a read  *)
(* is one step: reading an append-only file to its end returns what it     *)
(* held when the end was met.  Nothing relates the pairs of two different  *)
(* files, which is why an entry also names its path.                       *)
(***************************************************************************)
EXTENDS Naturals, Sequences

CONSTANTS
    Runs,           \* agent-ingest processes
    Keys,           \* session identities: (source, id) pairs
    Paths,          \* transcript files
    Walk,           \* the entries a scan visits, in order; see WalkAssumption
    Contents,       \* what a non-empty transcript may hold
    Digest,         \* [Contents -> digests]: SHA-256 of the sanitized content
    Empty, Absent,  \* a file of size zero, a file that does not exist
    NotFound,       \* a session a scan has not reported
    None,           \* no cache entry
    MaxWrites       \* bound on the changes of one file

(***************************************************************************)
(* A walk entry is a session with the files its transcript may be in.  A   *)
(* Codex or Claude Code file is an entry by itself, and two of them may    *)
(* share a session id; an Antigravity session is one entry with the two    *)
(* files transcript_full.jsonl and transcript.jsonl, preferred in order.   *)
(***************************************************************************)
ASSUME WalkAssumption == Walk \in Seq([key : Keys, cands : Seq(Paths)])
ASSUME ContentsAssumption ==
    /\ Empty \notin Contents
    /\ Absent \notin Contents
    /\ Empty # Absent
ASSUME DigestAssumption == \A c \in Contents : Digest[c] # NotFound
ASSUME BoundAssumption == MaxWrites \in Nat

VARIABLES
    body,       \* [Paths -> Contents \cup {Empty, Absent}]: the files
    stat,       \* [Paths -> Nat]: the (size, mtime) of the latest write
    disk,       \* [Keys -> Entry \cup {None}]: the cache file
    pc,         \* [Runs -> step the run is at]
    at,         \* [Runs -> Nat]: the walk entry the run is visiting
    mem,        \* [Runs -> [Keys -> Entry \cup {None}]]: the run's cache
    noCache,    \* [Runs -> BOOLEAN]: started with --no-cache (a nil cache)
    info,       \* [Runs -> [path, stat]]: the stat taken before a read
    buf,        \* [Runs -> Contents \cup {Empty}]: what the read returned
    found       \* [Runs -> [Keys -> digests \cup {NotFound}]]: the result

vars == <<body, stat, disk, pc, at, mem, noCache, info, buf, found>>
fileVars == <<body, stat>>
cacheVars == <<disk, mem, noCache>>

Digests == {Digest[c] : c \in Contents}
Entry == [path : Paths, stat : Nat, digest : Digests]
EmptyCache == [k \in Keys |-> None]
NothingFound == [k \in Keys |-> NotFound]
PathsOf == [k \in Keys |->
    {p \in Paths : \E i \in DOMAIN Walk :
        Walk[i].key = k /\ \E j \in DOMAIN Walk[i].cands : Walk[i].cands[j] = p}]

Init ==
    /\ body \in [Paths -> {Absent} \cup Contents]
    /\ stat = [p \in Paths |-> 0]
    /\ disk = EmptyCache
    /\ pc = [r \in Runs |-> "idle"]
    /\ at = [r \in Runs |-> 1]
    /\ mem = [r \in Runs |-> EmptyCache]
    /\ noCache = [r \in Runs |-> FALSE]
    /\ info = [r \in Runs |-> None]
    /\ buf = [r \in Runs |-> Empty]
    /\ found = [r \in Runs |-> NothingFound]

-------------------------------------------------------------------------------
(* The coding agents, which own the transcripts. *)

\* A transcript is created, appended to, rewritten or emptied.
Write(p) ==
    /\ stat[p] < MaxWrites
    /\ stat' = [stat EXCEPT ![p] = @ + 1]
    /\ \E b \in {Empty} \cup Contents : body' = [body EXCEPT ![p] = b]
    /\ UNCHANGED <<cacheVars, pc, at, info, buf, found>>

\* A transcript is removed, by its owner or by a clean-up.
Remove(p) ==
    /\ body[p] # Absent
    /\ body' = [body EXCEPT ![p] = Absent]
    /\ UNCHANGED <<stat, cacheVars, pc, at, info, buf, found>>

-------------------------------------------------------------------------------
(* A run. *)

\* LoadCache: the file's entries, or none when it is missing, unreadable or
\* corrupt.  --no-cache leaves the cache nil.
LoadCache(r) ==
    /\ pc[r] = "idle"
    /\ \E skip \in BOOLEAN, loaded \in {disk, EmptyCache} :
          /\ noCache' = [noCache EXCEPT ![r] = skip]
          /\ mem' = [mem EXCEPT ![r] = IF skip THEN EmptyCache ELSE loaded]
    /\ pc' = [pc EXCEPT ![r] = "visit"]
    /\ at' = [at EXCEPT ![r] = 1]
    /\ found' = [found EXCEPT ![r] = NothingFound]
    /\ UNCHANGED <<fileVars, disk, info, buf>>

Visiting(r) == pc[r] = "visit" /\ at[r] \in DOMAIN Walk
Key(r) == Walk[at[r]].key

\* firstExisting: p is the entry's first candidate that is there.
FirstExisting(r, p) ==
    \E i \in DOMAIN Walk[at[r]].cands :
        /\ Walk[at[r]].cands[i] = p
        /\ body[p] # Absent
        /\ \A j \in 1..(i - 1) : body[Walk[at[r]].cands[j]] = Absent

\* A lookup that forgets to compare the paths.
MatchesAnyPath(e, p) ==
    /\ e # None
    /\ e.stat = stat[p]

\* lookup: the entry proves the file unchanged since it was last hashed.
Matches(e, p) ==
    /\ e # None
    /\ e.path = p
    /\ e.stat = stat[p]

Lookup(r, p) == Matches(mem[r][Key(r)], p)

\* The entry adds no session: its id was already seen, no file is there, or
\* the file that is there has size zero.
SkipEntry(r) ==
    /\ Visiting(r)
    /\ \/ found[r][Key(r)] # NotFound
       \/ \A p \in Paths : ~FirstExisting(r, p)
       \/ \E p \in Paths : FirstExisting(r, p) /\ body[p] = Empty
    /\ at' = [at EXCEPT ![r] = @ + 1]
    /\ UNCHANGED <<fileVars, cacheVars, pc, info, buf, found>>

\* readSession, the cache proves the file unchanged: no read.
CacheHit(r, p) ==
    /\ Visiting(r)
    /\ found[r][Key(r)] = NotFound
    /\ FirstExisting(r, p)
    /\ body[p] # Empty
    /\ Lookup(r, p)
    /\ found' = [found EXCEPT ![r][Key(r)] = mem[r][Key(r)].digest]
    /\ at' = [at EXCEPT ![r] = @ + 1]
    /\ UNCHANGED <<fileVars, cacheVars, pc, info, buf>>

\* readSession, a miss: the stat is kept and the file will be read.
CacheMiss(r, p) ==
    /\ Visiting(r)
    /\ found[r][Key(r)] = NotFound
    /\ FirstExisting(r, p)
    /\ body[p] # Empty
    /\ ~Lookup(r, p)
    /\ info' = [info EXCEPT ![r] = [path |-> p, stat |-> stat[p]]]
    /\ pc' = [pc EXCEPT ![r] = "read"]
    /\ UNCHANGED <<fileVars, cacheVars, at, buf, found>>

\* The file may have changed, or gone, since the stat.
ReadFile(r) ==
    /\ pc[r] = "read"
    /\ LET b == body[info[r].path] IN
       IF b \in {Absent, Empty}
         THEN /\ pc' = [pc EXCEPT ![r] = "visit"]
              /\ at' = [at EXCEPT ![r] = @ + 1]
              /\ info' = [info EXCEPT ![r] = None]
              /\ UNCHANGED buf
         ELSE /\ pc' = [pc EXCEPT ![r] = "store"]
              /\ buf' = [buf EXCEPT ![r] = b]
              /\ UNCHANGED <<at, info>>
    /\ UNCHANGED <<fileVars, cacheVars, found>>

\* An entry under a stat taken after the read.
EntryRestatted(r) ==
    [path |-> info[r].path, stat |-> stat[info[r].path], digest |-> Digest[buf[r]]]

\* store: the entry carries the stat taken before the read.
EntryFor(r) ==
    [path |-> info[r].path, stat |-> info[r].stat, digest |-> Digest[buf[r]]]

StoreEntry(r) ==
    /\ pc[r] = "store"
    /\ mem' = IF noCache[r] THEN mem
              ELSE [mem EXCEPT ![r][Key(r)] = EntryFor(r)]
    /\ found' = [found EXCEPT ![r][Key(r)] = Digest[buf[r]]]
    /\ pc' = [pc EXCEPT ![r] = "visit"]
    /\ at' = [at EXCEPT ![r] = @ + 1]
    /\ info' = [info EXCEPT ![r] = None]
    /\ buf' = [buf EXCEPT ![r] = Empty]
    /\ UNCHANGED <<fileVars, disk, noCache>>

\* The scan is over and its memory gone; what it reported remains.
End(r) ==
    /\ pc' = [pc EXCEPT ![r] = "idle"]
    /\ at' = [at EXCEPT ![r] = 1]
    /\ mem' = [mem EXCEPT ![r] = EmptyCache]
    /\ noCache' = [noCache EXCEPT ![r] = FALSE]

\* Save writes a temporary file and renames it: the cache file is replaced as
\* a whole, or (any error) not at all.
Save(r) ==
    /\ pc[r] = "visit"
    /\ at[r] \notin DOMAIN Walk
    /\ disk' \in IF noCache[r] THEN {disk} ELSE {disk, mem[r]}
    /\ End(r)
    /\ UNCHANGED <<fileVars, info, buf, found>>

\* The process dies before the rename: the cache file is as it was.
Crash(r) ==
    /\ pc[r] # "idle"
    /\ End(r)
    /\ info' = [info EXCEPT ![r] = None]
    /\ buf' = [buf EXCEPT ![r] = Empty]
    /\ found' = [found EXCEPT ![r] = NothingFound]
    /\ UNCHANGED <<fileVars, disk>>

Next ==
    \/ \E p \in Paths : Write(p) \/ Remove(p)
    \/ \E r \in Runs :
          \/ LoadCache(r) \/ SkipEntry(r) \/ ReadFile(r) \/ StoreEntry(r)
          \/ Save(r) \/ Crash(r)
          \/ \E p \in Paths : CacheHit(r, p) \/ CacheMiss(r, p)

Spec == Init /\ [][Next]_vars

-------------------------------------------------------------------------------
(* Properties. *)

TypeOK ==
    /\ body \in [Paths -> {Empty, Absent} \cup Contents]
    /\ stat \in [Paths -> Nat]
    /\ disk \in [Keys -> Entry \cup {None}]
    /\ pc \in [Runs -> {"idle", "visit", "read", "store"}]
    /\ at \in [Runs -> Nat \ {0}]
    /\ mem \in [Runs -> [Keys -> Entry \cup {None}]]
    /\ noCache \in [Runs -> BOOLEAN]
    /\ info \in [Runs -> [path : Paths, stat : Nat] \cup {None}]
    /\ buf \in [Runs -> Contents \cup {Empty}]
    /\ found \in [Runs -> [Keys -> Digests \cup {NotFound}]]

\* An entry a lookup would accept has the digest of what the file holds.
Truthful(e) ==
    e # None /\ body[e.path] \in Contents /\ e.stat = stat[e.path]
        => e.digest = Digest[body[e.path]]

\* cache.go, lookup: a hit means the file is "byte-identical to when it was
\* last hashed".  In the cache file, and in the memory of every run, whatever
\* runs overlap, crash or overwrite each other's file, and whenever a file
\* changes between the stat and the read.
CacheSound ==
    /\ \A k \in Keys : Truthful(disk[k])
    /\ \A r \in Runs, k \in Keys : Truthful(mem[r][k])

\* No entry is ahead of its file, and a pending read that saw no change since
\* its stat returned what the file holds: what makes CacheSound inductive.
NoEntryAhead ==
    /\ \A k \in Keys : disk[k] # None => disk[k].stat <= stat[disk[k].path]
    /\ \A r \in Runs, k \in Keys :
          mem[r][k] # None => mem[r][k].stat <= stat[mem[r][k].path]

PendingRead(r) ==
    /\ at[r] \in DOMAIN Walk
    /\ found[r][Key(r)] = NotFound
    /\ info[r] \in [path : Paths, stat : Nat]
    /\ info[r].path \in PathsOf[Key(r)]
    /\ info[r].stat <= stat[info[r].path]

PendingReadsSound == \A r \in Runs :
    /\ pc[r] \in {"read", "store"} => PendingRead(r)
    /\ pc[r] = "store" =>
          /\ buf[r] \in Contents
          /\ info[r].stat = stat[info[r].path]
                => body[info[r].path] \in {buf[r], Absent}

IInv == TypeOK /\ CacheSound /\ NoEntryAhead /\ PendingReadsSound

\* A read under way has already met the content its session will report.
Reported == [r \in Runs |->
    IF pc[r] = "store" THEN [found[r] EXCEPT ![Key(r)] = Digest[buf[r]]]
                       ELSE found[r]]

\* cli/main.go: the cache "is strictly an optimization".  A scan with it
\* reports only what a scan that reads every file could report.
Full == INSTANCE FullScan WITH found <- Reported
ScansAsWithoutCache == Full!Spec
===============================================================================
