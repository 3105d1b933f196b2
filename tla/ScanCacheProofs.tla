--------------------------- MODULE ScanCacheProofs ----------------------------
(***************************************************************************)
(* The scan cache never lies, and a scan with it implements a scan without *)
(* it, for any number of runs, sessions, files and writes.                 *)
(***************************************************************************)
EXTENDS ScanCache, SequenceTheorems, TLAPS

LEMMA WalkTyped ==
    ASSUME NEW i \in DOMAIN Walk
    PROVE  /\ Walk[i].key \in Keys
           /\ Walk[i].cands \in Seq(Paths)
           /\ \A j \in DOMAIN Walk[i].cands : Walk[i].cands[j] \in Paths
           /\ i \in Nat \ {0}
<1>0. i \in 1..Len(Walk)
  BY WalkAssumption, LenProperties
<1>1. Walk[i] \in [key : Keys, cands : Seq(Paths)]
  BY <1>0, WalkAssumption, ElementOfSeq
<1>2. \A j \in DOMAIN Walk[i].cands : Walk[i].cands[j] \in Paths
  BY <1>1, ElementOfSeq, LenProperties
<1>3. i \in Nat \ {0}
  BY <1>0, WalkAssumption, LenProperties
<1> QED BY <1>1, <1>2, <1>3

\* The file an entry's visit settles on is one of that session's files.
LEMMA FirstExistingIsCandidate ==
    ASSUME NEW r \in Runs, NEW p, Visiting(r), FirstExisting(r, p)
    PROVE  /\ p \in Paths
           /\ p \in PathsOf[Key(r)]
           /\ body[p] # Absent
           /\ Key(r) \in Keys
<1>1. Key(r) \in Keys
  BY WalkTyped DEF Visiting, Key
<1>2. PICK j \in DOMAIN Walk[at[r]].cands : Walk[at[r]].cands[j] = p /\ body[p] # Absent
  BY DEF FirstExisting
<1>3. p \in Paths
  BY <1>2, WalkTyped DEF Visiting
<1> QED BY <1>1, <1>2, <1>3 DEF PathsOf, Key, Visiting

-------------------------------------------------------------------------------
LEMMA InitTypeOK == Init => TypeOK
<1> SUFFICES ASSUME Init PROVE TypeOK
  OBVIOUS
<1> QED BY DEF Init, TypeOK, EmptyCache, NothingFound

LEMMA NextTypeOK == TypeOK /\ PendingReadsSound /\ [Next]_vars => TypeOK'
<1> SUFFICES ASSUME TypeOK, PendingReadsSound, [Next]_vars PROVE TypeOK'
  OBVIOUS
<1> USE DEF TypeOK, fileVars, cacheVars
<1>1. ASSUME NEW p \in Paths, Write(p) PROVE TypeOK'
  BY <1>1 DEF Write
<1>2. ASSUME NEW p \in Paths, Remove(p) PROVE TypeOK'
  BY <1>2 DEF Remove
<1>3. ASSUME NEW r \in Runs, LoadCache(r) PROVE TypeOK'
  BY <1>3 DEF LoadCache, EmptyCache, NothingFound
<1>4. ASSUME NEW r \in Runs, SkipEntry(r) PROVE TypeOK'
  BY <1>4 DEF SkipEntry
<1>5. ASSUME NEW r \in Runs, ReadFile(r) PROVE TypeOK'
  <2>1. info[r].path \in Paths
    BY <1>5 DEF ReadFile, PendingReadsSound, PendingRead
  <2>2. CASE body[info[r].path] \in {Absent, Empty}
    <3>1. /\ pc' = [pc EXCEPT ![r] = "visit"]
          /\ at' = [at EXCEPT ![r] = @ + 1]
          /\ info' = [info EXCEPT ![r] = None]
          /\ UNCHANGED <<body, stat, disk, mem, noCache, buf, found>>
      BY <1>5, <2>2 DEF ReadFile
    <3>2. info' \in [Runs -> [path : Paths, stat : Nat] \cup {None}]
      BY <3>1
    <3> QED BY <3>1, <3>2
  <2>3. CASE body[info[r].path] \notin {Absent, Empty}
    <3>1. body[info[r].path] \in Contents
      BY <2>1, <2>3
    <3> QED BY <1>5, <2>3, <3>1 DEF ReadFile
  <2> QED BY <2>2, <2>3
<1>6. ASSUME NEW r \in Runs, StoreEntry(r) PROVE TypeOK'
  <2>1. /\ info[r] \in [path : Paths, stat : Nat]
        /\ buf[r] \in Contents
        /\ Key(r) \in Keys
    BY <1>6, WalkTyped DEF StoreEntry, PendingReadsSound, PendingRead, Key
  <2>2. EntryFor(r) \in Entry /\ Digest[buf[r]] \in Digests
    BY <2>1 DEF EntryFor, Entry, Digests
  <2> QED BY <1>6, <2>1, <2>2 DEF StoreEntry
<1>7. ASSUME NEW r \in Runs, Save(r) PROVE TypeOK'
  BY <1>7 DEF Save, End, EmptyCache
<1>8. ASSUME NEW r \in Runs, Crash(r) PROVE TypeOK'
  BY <1>8 DEF Crash, End, EmptyCache, NothingFound
<1>9. ASSUME NEW r \in Runs, NEW p \in Paths, CacheHit(r, p) PROVE TypeOK'
  <2>1. Key(r) \in Keys
    BY <1>9, WalkTyped DEF CacheHit, Visiting, Key
  <2>2. mem[r][Key(r)] \in Entry
    BY <1>9, <2>1 DEF CacheHit, Lookup, Matches
  <2>3. mem[r][Key(r)].digest \in Digests
    BY <2>2 DEF Entry
  <2> QED BY <1>9, <2>1, <2>3 DEF CacheHit
<1>10. ASSUME NEW r \in Runs, NEW p \in Paths, CacheMiss(r, p) PROVE TypeOK'
  BY <1>10 DEF CacheMiss
<1>11. CASE UNCHANGED vars
  BY <1>11 DEF vars
<1> QED BY <1>1, <1>2, <1>3, <1>4, <1>5, <1>6, <1>7, <1>8, <1>9, <1>10, <1>11 DEF Next

-------------------------------------------------------------------------------
\* What the invariant says of one entry, and of one run's read.
SoundEntry(e) == Truthful(e) /\ (e # None => e.stat <= stat[e.path])
SoundRead(r) ==
    /\ pc[r] \in {"read", "store"} => PendingRead(r)
    /\ pc[r] = "store" =>
          /\ buf[r] \in Contents
          /\ info[r].stat = stat[info[r].path]
                => body[info[r].path] \in {buf[r], Absent}

Sound ==
    /\ \A k \in Keys : SoundEntry(disk[k])
    /\ \A r \in Runs, k \in Keys : SoundEntry(mem[r][k])
    /\ \A r \in Runs : SoundRead(r)

LEMMA SoundIsIInv == IInv <=> TypeOK /\ Sound
BY DEF IInv, Sound, CacheSound, NoEntryAhead, PendingReadsSound, SoundEntry, SoundRead

\* A file that changes invalidates the entries that knew it, and no other.
LEMMA FileChangeKeepsEntries ==
    ASSUME TypeOK, NEW p \in Paths, Write(p) \/ Remove(p),
           NEW e \in Entry \cup {None}, SoundEntry(e)
    PROVE  SoundEntry(e)'
<1>1. CASE e = None
  BY <1>1 DEF SoundEntry, Truthful
<1>2. CASE e \in Entry
  <2>1. e.path \in Paths /\ e.stat \in Nat
    BY <1>2 DEF Entry
  <2>2. CASE Write(p)
    BY <1>2, <2>1, <2>2 DEF SoundEntry, Truthful, Write, TypeOK
  <2>3. CASE Remove(p)
    BY <1>2, <2>1, <2>3, ContentsAssumption DEF SoundEntry, Truthful, Remove, TypeOK
  <2> QED BY <2>2, <2>3
<1> QED BY <1>1, <1>2

\* The steps that leave the files alone leave every entry's worth alone.
LEMMA FilesAloneKeepEntries ==
    ASSUME UNCHANGED fileVars, NEW e
    PROVE  SoundEntry(e) <=> SoundEntry(e)'
BY DEF SoundEntry, Truthful, fileVars

\* They leave alone the reads of the runs that do not move, too.
LEMMA OthersKeepReads ==
    ASSUME UNCHANGED fileVars, NEW r \in Runs, SoundRead(r),
           UNCHANGED <<pc[r], at[r], info[r], buf[r], found[r]>>
    PROVE  SoundRead(r)'
BY DEF SoundRead, PendingRead, Key, fileVars

\* No run's read is spoilt by a file that changes: if it is the file being
\* read, its stat is no longer the one the run took.
LEMMA FileChangeKeepsReads ==
    ASSUME TypeOK, NEW p \in Paths, Write(p) \/ Remove(p),
           NEW r \in Runs, SoundRead(r)
    PROVE  SoundRead(r)'
<1>1. CASE pc[r] \notin {"read", "store"}
  BY <1>1 DEF SoundRead, Write, Remove
<1>2. CASE pc[r] \in {"read", "store"}
  <2>1. PendingRead(r) /\ info[r].path \in Paths /\ info[r].stat \in Nat
    BY <1>2 DEF SoundRead, PendingRead
  <2>2. CASE Write(p)
    <3>1. /\ stat'[info[r].path] \in Nat
          /\ stat[info[r].path] \in Nat
          /\ info[r].path # p => /\ stat'[info[r].path] = stat[info[r].path]
                                /\ body'[info[r].path] = body[info[r].path]
          /\ info[r].path = p => stat'[info[r].path] = stat[info[r].path] + 1
      BY <2>1, <2>2 DEF Write, TypeOK
    <3>2. UNCHANGED <<pc, at, info, buf, found>>
      BY <2>2 DEF Write
    <3>3. PendingRead(r)'
      BY <2>1, <3>1, <3>2 DEF PendingRead, Key
    <3> QED BY <2>1, <3>1, <3>2, <3>3 DEF SoundRead, PendingRead
  <2>3. CASE Remove(p)
    <3>1. UNCHANGED <<stat, pc, at, info, buf, found>>
      BY <2>3 DEF Remove
    <3>2. body'[info[r].path] \in {body[info[r].path], Absent}
      BY <2>1, <2>3 DEF Remove, TypeOK
    <3>3. PendingRead(r)'
      BY <2>1, <3>1 DEF PendingRead, Key
    <3> QED BY <3>1, <3>2, <3>3 DEF SoundRead
  <2> QED BY <2>2, <2>3
<1> QED BY <1>1, <1>2

-------------------------------------------------------------------------------
LEMMA InitSound == Init => Sound
<1> SUFFICES ASSUME Init PROVE Sound
  OBVIOUS
<1> QED BY DEF Init, Sound, SoundEntry, SoundRead, Truthful, EmptyCache

\* A step of one run: sound entries where it wrote, and its own read sound.
LEMMA RunStepSound ==
    ASSUME Sound, UNCHANGED fileVars, NEW r \in Runs,
           \A s \in Runs \ {r} :
              UNCHANGED <<pc[s], at[s], info[s], buf[s], found[s], mem[s]>>,
           \A k \in Keys : SoundEntry(disk'[k]),
           \A k \in Keys : SoundEntry(mem'[r][k]),
           SoundRead(r)'
    PROVE  Sound'
<1>1. \A k \in Keys : SoundEntry(disk[k])'
  BY DEF SoundEntry, Truthful, fileVars
<1>2. \A s \in Runs, k \in Keys : SoundEntry(mem[s][k])'
  <2> SUFFICES ASSUME NEW s \in Runs, NEW k \in Keys PROVE SoundEntry(mem[s][k])'
    OBVIOUS
  <2>1. CASE s = r
    BY <2>1 DEF SoundEntry, Truthful, fileVars
  <2>2. CASE s # r
    BY <2>2 DEF Sound, SoundEntry, Truthful, fileVars
  <2> QED BY <2>1, <2>2
<1>3. \A s \in Runs : SoundRead(s)'
  BY OthersKeepReads DEF Sound
<1> QED BY <1>1, <1>2, <1>3 DEF Sound

LEMMA NextSound == TypeOK /\ Sound /\ [Next]_vars => Sound'
<1> SUFFICES ASSUME TypeOK, Sound, [Next]_vars PROVE Sound'
  OBVIOUS
<1> USE DEF TypeOK
<1>1. ASSUME NEW p \in Paths, Write(p) \/ Remove(p) PROVE Sound'
  <2>1. UNCHANGED <<disk, mem>>
    BY <1>1 DEF Write, Remove, cacheVars
  <2>2. \A k \in Keys : SoundEntry(disk[k])'
    BY <1>1, <2>1, FileChangeKeepsEntries DEF Sound
  <2>3. \A r \in Runs, k \in Keys : SoundEntry(mem[r][k])'
    BY <1>1, <2>1, FileChangeKeepsEntries DEF Sound
  <2>4. \A r \in Runs : SoundRead(r)'
    BY <1>1, FileChangeKeepsReads DEF Sound
  <2> QED BY <2>2, <2>3, <2>4 DEF Sound
<1>2. SoundEntry(None)
  BY DEF SoundEntry, Truthful
<1>3. ASSUME NEW r \in Runs, LoadCache(r) PROVE Sound'
  <2>1. \A k \in Keys : SoundEntry(mem'[r][k])
    BY <1>2, <1>3 DEF LoadCache, Sound, EmptyCache
  <2>2. SoundRead(r)'
    BY <1>3 DEF LoadCache, SoundRead
  <2> QED BY <1>3, <2>1, <2>2, RunStepSound DEF LoadCache, Sound
<1>4. ASSUME NEW r \in Runs, SkipEntry(r) PROVE Sound'
  <2>1. SoundRead(r)'
    BY <1>4 DEF SkipEntry, Visiting, SoundRead
  <2> QED BY <1>4, <2>1, RunStepSound DEF SkipEntry, Sound, cacheVars
<1>5. ASSUME NEW r \in Runs, ReadFile(r) PROVE Sound'
  <2>1. PendingRead(r) /\ info[r].path \in Paths
    BY <1>5 DEF ReadFile, Sound, SoundRead, PendingRead
  <2>2. SoundRead(r)'
    <3>1. CASE body[info[r].path] \in {Absent, Empty}
      BY <1>5, <3>1 DEF ReadFile, SoundRead
    <3>2. CASE body[info[r].path] \notin {Absent, Empty}
      <4>1. /\ pc'[r] = "store" /\ buf'[r] = body[info[r].path]
            /\ UNCHANGED <<at, info, found, body, stat>>
        BY <1>5, <3>2 DEF ReadFile, fileVars
      <4>2. PendingRead(r)'
        BY <2>1, <4>1 DEF PendingRead, Key
      <4> QED BY <2>1, <3>2, <4>1, <4>2 DEF SoundRead
    <3> QED BY <3>1, <3>2
  <2>3. \A s \in Runs \ {r} :
           UNCHANGED <<pc[s], at[s], info[s], buf[s], found[s], mem[s]>>
    BY <1>5 DEF ReadFile, cacheVars
  <2> QED BY <1>5, <2>2, <2>3, RunStepSound DEF ReadFile, Sound, cacheVars
<1>6. ASSUME NEW r \in Runs, StoreEntry(r) PROVE Sound'
  <2>1. /\ PendingRead(r) /\ Key(r) \in Keys
        /\ info[r] \in [path : Paths, stat : Nat]
        /\ buf[r] \in Contents
        /\ info[r].stat = stat[info[r].path]
              => body[info[r].path] \in {buf[r], Absent}
    BY <1>6, WalkTyped DEF StoreEntry, Sound, SoundRead, PendingRead, Key
  <2>2. SoundEntry(EntryFor(r))
    BY <2>1, ContentsAssumption DEF SoundEntry, Truthful, EntryFor, PendingRead
  <2>3. \A k \in Keys : SoundEntry(mem'[r][k])
    BY <1>6, <2>1, <2>2 DEF StoreEntry, Sound
  <2>4. SoundRead(r)'
    BY <1>6 DEF StoreEntry, SoundRead
  <2> QED BY <1>6, <2>3, <2>4, RunStepSound DEF StoreEntry, Sound
<1>7. ASSUME NEW r \in Runs, Save(r) PROVE Sound'
  <2>1. \A k \in Keys : SoundEntry(disk'[k])
    BY <1>7 DEF Save, Sound
  <2>2. \A k \in Keys : SoundEntry(mem'[r][k])
    BY <1>2, <1>7 DEF Save, End, EmptyCache
  <2>3. SoundRead(r)'
    BY <1>7 DEF Save, End, SoundRead
  <2> QED BY <1>7, <2>1, <2>2, <2>3, RunStepSound DEF Save, End
<1>8. ASSUME NEW r \in Runs, Crash(r) PROVE Sound'
  <2>1. \A k \in Keys : SoundEntry(mem'[r][k])
    BY <1>2, <1>8 DEF Crash, End, EmptyCache
  <2>2. SoundRead(r)'
    BY <1>8 DEF Crash, End, SoundRead
  <2> QED BY <1>8, <2>1, <2>2, RunStepSound DEF Crash, End, Sound
<1>9. ASSUME NEW r \in Runs, NEW p \in Paths, CacheHit(r, p) PROVE Sound'
  <2>1. SoundRead(r)'
    BY <1>9 DEF CacheHit, Visiting, SoundRead
  <2>2. \A s \in Runs \ {r} :
           UNCHANGED <<pc[s], at[s], info[s], buf[s], found[s], mem[s]>>
    BY <1>9 DEF CacheHit, cacheVars
  <2> QED BY <1>9, <2>1, <2>2, RunStepSound DEF CacheHit, Sound, cacheVars
<1>10. ASSUME NEW r \in Runs, NEW p \in Paths, CacheMiss(r, p) PROVE Sound'
  <2>1. p \in PathsOf[Key(r)] /\ at[r] \in DOMAIN Walk
    BY <1>10, FirstExistingIsCandidate DEF CacheMiss, Visiting
  <2>2. /\ info'[r] = [path |-> p, stat |-> stat[p]]
        /\ pc'[r] = "read"
        /\ UNCHANGED <<body, stat, at, buf, found>>
    BY <1>10 DEF CacheMiss, fileVars
  <2>3. PendingRead(r)'
    BY <1>10, <2>1, <2>2 DEF CacheMiss, PendingRead, Key
  <2>4. SoundRead(r)'
    BY <2>2, <2>3 DEF SoundRead
  <2>5. \A s \in Runs \ {r} :
           UNCHANGED <<pc[s], at[s], info[s], buf[s], found[s], mem[s]>>
    BY <1>10 DEF CacheMiss, cacheVars
  <2> QED BY <1>10, <2>4, <2>5, RunStepSound DEF CacheMiss, Sound, cacheVars
<1>11. CASE UNCHANGED vars
  BY <1>11 DEF vars, Sound, SoundEntry, SoundRead, Truthful, PendingRead, Key
<1> QED BY <1>1, <1>3, <1>4, <1>5, <1>6, <1>7, <1>8, <1>9, <1>10, <1>11 DEF Next

\* The inductive invariant, for every number of runs, sessions and files.
THEOREM Invariance == Spec => []IInv
<1>1. Init => IInv
  BY InitTypeOK, InitSound, SoundIsIInv
<1>2. IInv /\ [Next]_vars => IInv'
  <2> SUFFICES ASSUME IInv, [Next]_vars PROVE IInv'
    OBVIOUS
  <2>1. TypeOK' /\ Sound'
    BY NextTypeOK, NextSound, SoundIsIInv DEF IInv
  <2>2. IInv' <=> TypeOK' /\ Sound'
    BY DEF IInv, Sound, CacheSound, NoEntryAhead, PendingReadsSound, SoundEntry, SoundRead
  <2> QED BY <2>1, <2>2
<1> QED BY <1>1, <1>2, PTL DEF Spec

\* An entry a lookup would accept always has the digest of the file's content:
\* cache.go's "byte-identical to when it was last hashed".
THEOREM CacheIsSound == Spec => []CacheSound
<1>1. IInv => CacheSound
  BY DEF IInv
<1> QED BY <1>1, Invariance, PTL

-------------------------------------------------------------------------------
LEMMA InitRefines == Init => Full!Init
<1> SUFFICES ASSUME Init PROVE Full!Init
  OBVIOUS
<1>1. Reported = [r \in Runs |-> [k \in Keys |-> NotFound]]
  BY DEF Init, Reported, NothingFound
<1> QED BY <1>1 DEF Init, Full!Init

\* A step that neither reports nor moves a pending read reports nothing.
LEMMA ReportedAlone ==
    ASSUME UNCHANGED <<pc, found>>,
           \A r \in Runs : pc[r] = "store" => UNCHANGED <<at[r], buf[r]>>
    PROVE  UNCHANGED Reported
BY DEF Reported, Key

\* The visits and reads that report nothing.
LEMMA ReportedUnmoved ==
    ASSUME TypeOK, NEW r \in Runs, pc[r] # "store", pc'[r] # "store",
           UNCHANGED found, \A s \in Runs \ {r} : UNCHANGED <<pc[s], at[s], buf[s]>>
    PROVE  UNCHANGED Reported
BY DEF Reported, Key

\* The beginning and the end of a run forget what it had reported.
LEMMA ReportedForgotten ==
    ASSUME TypeOK, NEW r \in Runs, pc'[r] # "store",
           found' = [found EXCEPT ![r] = NothingFound],
           \A s \in Runs \ {r} : UNCHANGED <<pc[s], at[s], buf[s]>>
    PROVE  Reported' = [Reported EXCEPT ![r] = [k \in Keys |-> NotFound]]
BY DEF Reported, Key, NothingFound, TypeOK

LEMMA NextRefines == IInv /\ [Next]_vars => [Full!Next]_(Full!vars)
<1> SUFFICES ASSUME IInv, [Next]_vars PROVE [Full!Next]_(Full!vars)
  OBVIOUS
<1> USE DEF TypeOK, IInv
<1>1. ASSUME NEW p \in Paths, Write(p) \/ Remove(p) PROVE Full!Next
  <2>1. UNCHANGED Reported
    BY <1>1, ReportedAlone DEF Write, Remove
  <2>2. Full!Change(p)
    BY <1>1, <2>1 DEF Write, Remove, Full!Change
  <2> QED BY <2>2 DEF Full!Next
<1>2. ASSUME NEW r \in Runs, LoadCache(r) \/ Crash(r) PROVE Full!Next
  <2>1. Reported' = [Reported EXCEPT ![r] = [k \in Keys |-> NotFound]]
    BY <1>2, ReportedForgotten DEF LoadCache, Crash, End
  <2>2. Full!Restart(r)
    BY <1>2, <2>1 DEF LoadCache, Crash, Full!Restart, fileVars
  <2> QED BY <2>2 DEF Full!Next
<1>3. ASSUME NEW r \in Runs, SkipEntry(r) \/ Save(r) \/ StoreEntry(r) PROVE UNCHANGED Full!vars
  <2>1. UNCHANGED body
    BY <1>3 DEF SkipEntry, Save, StoreEntry, fileVars
  <2>2. CASE SkipEntry(r) \/ Save(r)
    BY <2>1, <2>2, ReportedUnmoved DEF SkipEntry, Save, End, Visiting, Full!vars
  <2>3. CASE StoreEntry(r)
    <3>1. Key(r) \in Keys
      BY <2>3, WalkTyped DEF StoreEntry, PendingReadsSound, PendingRead, Key
    <3>2. UNCHANGED Reported
      BY <2>3, <3>1 DEF StoreEntry, Reported, Key
    <3> QED BY <2>1, <3>2 DEF Full!vars
  <2> QED BY <1>3, <2>2, <2>3
<1>4. ASSUME NEW r \in Runs, NEW p \in Paths, CacheMiss(r, p) PROVE UNCHANGED Full!vars
  BY <1>4, ReportedUnmoved DEF CacheMiss, Visiting, fileVars, Full!vars
<1>5. ASSUME NEW r \in Runs, NEW p \in Paths, CacheHit(r, p) PROVE Full!Next
  <2>1. /\ p \in PathsOf[Key(r)]
        /\ Key(r) \in Keys
        /\ body[p] \in Contents
    BY <1>5, FirstExistingIsCandidate DEF CacheHit
  <2>2. mem[r][Key(r)].digest = Digest[body[p]]
    BY <1>5, <2>1 DEF CacheHit, Lookup, Matches, CacheSound, Truthful
  <2>3. Reported[r][Key(r)] = NotFound
    BY <1>5 DEF CacheHit, Visiting, Reported
  <2>4. Reported' = [Reported EXCEPT ![r][Key(r)] = Digest[body[p]]]
    BY <1>5, <2>1, <2>2 DEF CacheHit, Visiting, Reported, Key
  <2>5. Full!Report(r, Key(r), p)
    BY <1>5, <2>1, <2>3, <2>4 DEF CacheHit, fileVars, Full!Report
  <2> QED BY <2>1, <2>5 DEF Full!Next
<1>6. ASSUME NEW r \in Runs, ReadFile(r) PROVE Full!Next \/ UNCHANGED Full!vars
  <2>1. /\ info[r].path \in Paths
        /\ info[r].path \in PathsOf[Key(r)]
        /\ Key(r) \in Keys
        /\ found[r][Key(r)] = NotFound
    BY <1>6, WalkTyped DEF ReadFile, PendingReadsSound, PendingRead, Key
  <2>2. CASE body[info[r].path] \in {Absent, Empty}
    BY <1>6, <2>2, ReportedUnmoved DEF ReadFile, fileVars, Full!vars
  <2>3. CASE body[info[r].path] \notin {Absent, Empty}
    <3>1. /\ pc[r] = "read"
          /\ pc' = [pc EXCEPT ![r] = "store"]
          /\ buf' = [buf EXCEPT ![r] = body[info[r].path]]
          /\ UNCHANGED <<at, found, body>>
      BY <1>6, <2>3 DEF ReadFile, fileVars
    <3>2. Reported[r][Key(r)] = NotFound
      BY <2>1, <3>1 DEF Reported
    <3>3. Reported' = [Reported EXCEPT ![r][Key(r)] = Digest[body[info[r].path]]]
      BY <2>1, <3>1 DEF Reported, Key
    <3>4. Full!Report(r, Key(r), info[r].path)
      BY <2>1, <2>3, <3>1, <3>2, <3>3 DEF Full!Report
    <3> QED BY <2>1, <3>4 DEF Full!Next
  <2> QED BY <2>2, <2>3
<1>7. CASE UNCHANGED vars
  <2>1. UNCHANGED Reported
    BY <1>7, ReportedAlone DEF vars
  <2> QED BY <1>7, <2>1 DEF vars, Full!vars
<1> QED BY <1>1, <1>2, <1>3, <1>4, <1>5, <1>6, <1>7 DEF Next

\* The cache is "strictly an optimization" (cli/main.go): whatever a scan with
\* it reports, a scan that reads every file could have reported at that step.
THEOREM CacheIsTransparent == Spec => ScansAsWithoutCache
<1>1. Init => Full!Init
  BY InitRefines
<1>2. IInv /\ [Next]_vars => [Full!Next]_(Full!vars)
  BY NextRefines
<1> QED BY <1>1, <1>2, Invariance, PTL DEF Spec, Full!Spec, ScansAsWithoutCache
===============================================================================
