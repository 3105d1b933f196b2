--------------------------- MODULE IngestSyncProofs ---------------------------
(***************************************************************************)
(* The ingest, for any machines, runs, sessions, batches and failures: an  *)
(* exit code of 0 means that the store held what the run read.             *)
(***************************************************************************)
EXTENDS IngestSync, FiniteSetTheorems, SequenceTheorems, TLAPS

-------------------------------------------------------------------------------
(* What is to be pushed is put in order and cut into batches, none left out. *)

LEMMA PlaceIsThere ==
    ASSUME NEW s \in Ids
    PROVE  Place(s) \in DOMAIN IdOrder /\ IdOrder[Place(s)] = s /\ Place(s) \in Nat
<1>1. \E i \in DOMAIN IdOrder : IdOrder[i] = s
  BY SyncAssumption
<1>2. Place(s) \in DOMAIN IdOrder /\ IdOrder[Place(s)] = s
  BY <1>1 DEF Place
<1>3. IdOrder \in Seq(Ids)
  BY SyncAssumption
<1>4. DOMAIN IdOrder \subseteq Nat
  BY <1>3
<1> QED BY <1>2, <1>4

\* Every session of a push has its number in the order, and no other has it.
LEMMA UpToIsARank ==
    ASSUME NEW ids \in SUBSET Ids, NEW s \in ids
    PROVE  /\ Cardinality(UpTo(ids, s)) \in 1..Cardinality(ids)
           /\ Cardinality(ids) \in Nat
           /\ \A t \in ids : Cardinality(UpTo(ids, t)) = Cardinality(UpTo(ids, s)) => t = s
<1>1. IsFiniteSet(ids)
  BY SyncAssumption, FS_Subset
<1>2. ASSUME NEW t \in ids
      PROVE  /\ UpTo(ids, t) \in SUBSET ids /\ t \in UpTo(ids, t)
             /\ IsFiniteSet(UpTo(ids, t)) /\ Cardinality(UpTo(ids, t)) \in Nat
             /\ Cardinality(UpTo(ids, t)) <= Cardinality(ids)
             /\ Cardinality(UpTo(ids, t)) # 0
  <2>1. UpTo(ids, t) \in SUBSET ids /\ t \in UpTo(ids, t)
    BY PlaceIsThere DEF UpTo
  <2>2. IsFiniteSet(UpTo(ids, t)) /\ Cardinality(UpTo(ids, t)) <= Cardinality(ids)
    BY <1>1, <2>1, FS_Subset
  <2>3. Cardinality(UpTo(ids, t)) \in Nat
    BY <2>2, FS_CardinalityType
  <2>4. Cardinality(UpTo(ids, t)) # 0
    BY <2>1, <2>2, FS_EmptySet
  <2> QED BY <2>1, <2>2, <2>3, <2>4
<1>3. Cardinality(ids) \in Nat
  BY <1>1, FS_CardinalityType
<1>4. ASSUME NEW t \in ids, Cardinality(UpTo(ids, t)) = Cardinality(UpTo(ids, s))
      PROVE  t = s
  <2>1. ASSUME NEW u \in ids, NEW v \in ids, Place(u) <= Place(v),
               Cardinality(UpTo(ids, u)) = Cardinality(UpTo(ids, v))
        PROVE  u = v
    <3>1. UpTo(ids, u) \in SUBSET UpTo(ids, v)
      BY <2>1, PlaceIsThere DEF UpTo
    <3>2. UpTo(ids, u) = UpTo(ids, v)
      BY <1>2, <2>1, <3>1, FS_Subset
    <3>3. Place(v) <= Place(u)
      BY <1>2, <3>2 DEF UpTo
    <3>4. Place(u) = Place(v)
      BY <2>1, <3>3, PlaceIsThere
    <3> QED BY <3>4, PlaceIsThere
  <2>2. Place(t) <= Place(s) \/ Place(s) <= Place(t)
    BY PlaceIsThere
  <2> QED BY <1>4, <2>1, <2>2
<1> QED BY <1>2, <1>3, <1>4

\* Each number is some session's: an injection of a finite set into itself.
LEMMA EveryRankIsTaken ==
    ASSUME NEW ids \in SUBSET Ids, NEW n \in 1..Cardinality(ids)
    PROVE  \E s \in ids : Cardinality(UpTo(ids, s)) = n
<1> DEFINE f == [s \in ids |-> Cardinality(UpTo(ids, s))]
           N == 1..Cardinality(ids)
<1>1. IsFiniteSet(ids) /\ Cardinality(ids) \in Nat
  BY SyncAssumption, FS_Subset, FS_CardinalityType
<1>2. IsFiniteSet(N) /\ Cardinality(N) = Cardinality(ids)
  BY <1>1, FS_Interval
<1>3. f \in Injection(ids, N)
  BY UpToIsARank DEF Injection, IsInjective
<1> HIDE DEF f, N
<1>4. f \in Surjection(ids, N)
  BY <1>1, <1>2, <1>3, FS_Injection
<1>5. \E s \in ids : f[s] = n
  BY <1>4 DEF Surjection, N
<1> QED BY <1>5 DEF f

\* Nothing that is to be pushed is left out.
LEMMA ItemsHasAll ==
    ASSUME NEW ids \in SUBSET Ids, NEW S, NEW push \in [ids -> S]
    PROVE  /\ Items(push) \in Seq(S)
           /\ \A s \in ids : \E n \in DOMAIN Items(push) : Items(push)[n] = push[s]
<1> DEFINE nth(n) == CHOOSE s \in ids : Cardinality(UpTo(ids, s)) = n
<1>1. DOMAIN push = ids /\ IsFiniteSet(ids) /\ Cardinality(ids) \in Nat
  BY SyncAssumption, FS_Subset, FS_CardinalityType
<1>2. Items(push) = [n \in 1..Cardinality(ids) |-> push[nth(n)]]
  BY <1>1 DEF Items
<1>3. \A n \in 1..Cardinality(ids) : nth(n) \in ids
  BY EveryRankIsTaken
<1>4. \A s \in ids : nth(Cardinality(UpTo(ids, s))) = s
  BY UpToIsARank
<1> HIDE DEF nth
<1>5. Items(push) \in Seq(S)
  <2>1. Items(push) \in [1..Cardinality(ids) -> S]
    BY <1>2, <1>3
  <2> QED BY <1>1, <2>1, SeqDef
<1>6. ASSUME NEW s \in ids
      PROVE  \E n \in DOMAIN Items(push) : Items(push)[n] = push[s]
  <2>1. Cardinality(UpTo(ids, s)) \in 1..Cardinality(ids)
    BY UpToIsARank
  <2> QED BY <1>2, <1>4, <2>1
<1> QED BY <1>5, <1>6

\* The k-th of len items is in a batch that is made.
LEMMA BatchOfAnItem ==
    ASSUME NEW size \in Nat \ {0}, NEW len \in Nat, NEW k \in 1..len
    PROVE  \E i \in 1..((len + size - 1) \div size) :
              (i - 1) * size + 1 <= k /\ k <= i * size
<1> DEFINE q == (k - 1) \div size
           r == (k - 1) % size
           n == (len + size - 1) \div size
           m == (len + size - 1) % size
<1>1. q \in Nat /\ r \in Nat /\ r < size /\ k - 1 = size * q + r
  OBVIOUS
<1>2. n \in Nat /\ m \in Nat /\ m < size /\ len + size - 1 = size * n + m
  OBVIOUS
<1> HIDE DEF q, r, n, m
<1>3. q * size + 1 <= k /\ k <= (q + 1) * size
  BY <1>1
<1>4. q < n
  <2>1. SUFFICES ASSUME n <= q PROVE FALSE
    BY <1>1, <1>2
  <2>2. size * n <= size * q
    BY <1>1, <1>2, <2>1
  <2>3. size * n \in Int /\ size * q \in Int
    BY <1>1, <1>2
  <2> QED BY <1>1, <1>2, <2>2, <2>3
<1>5. q + 1 \in 1..n /\ (q + 1) - 1 = q
  BY <1>1, <1>2, <1>4
<1> QED BY <1>3, <1>5 DEF n

Batch(kind, S) == [kind : {kind}, items : Seq(S)]

\* One of the batches carries the item.
Carries(batches, item) ==
    \E i \in DOMAIN batches : \E j \in DOMAIN batches[i].items :
        batches[i].items[j] = item

LEMMA ChunkHasAll ==
    ASSUME NEW kind, NEW S, NEW items \in Seq(S)
    PROVE  /\ Chunk(kind, items) \in Seq(Batch(kind, S))
           /\ \A k \in DOMAIN items : Carries(Chunk(kind, items), items[k])
<1> DEFINE n == (Len(items) + BatchSize - 1) \div BatchSize
           first(i) == (i - 1) * BatchSize + 1
           last(i) == IF i * BatchSize < Len(items) THEN i * BatchSize ELSE Len(items)
           batch(i) == [kind |-> kind, items |-> SubSeq(items, first(i), last(i))]
<1>1. BatchSize \in Nat \ {0} /\ Len(items) \in Nat /\ DOMAIN items = 1..Len(items)
  BY SyncAssumption
<1>2. n \in Nat
  BY <1>1
<1>3. Chunk(kind, items) = [i \in 1..n |-> batch(i)]
  BY DEF Chunk
<1>4. ASSUME NEW i \in 1..n
      PROVE  /\ first(i) \in Int /\ last(i) \in Int /\ 1 <= first(i) /\ last(i) <= Len(items)
             /\ SubSeq(items, first(i), last(i)) \in Seq(S)
             /\ Len(SubSeq(items, first(i), last(i)))
                  = IF first(i) <= last(i) THEN last(i) - first(i) + 1 ELSE 0
             /\ \A j \in 1..(last(i) - first(i) + 1) :
                   SubSeq(items, first(i), last(i))[j] = items[first(i) + j - 1]
  <2>1. first(i) \in Int /\ last(i) \in Int /\ 1 <= first(i) /\ last(i) <= Len(items)
    <3>1. i \in Nat /\ i >= 1 /\ i * BatchSize \in Nat
      BY <1>1, <1>2
    <3>2. (i - 1) * BatchSize \in Nat
      BY <1>1, <3>1
    <3> QED BY <1>1, <3>1, <3>2
  <2> HIDE DEF first, last
  <2>2. \A j \in first(i)..last(i) : items[j] \in S
    BY <1>1, <2>1
  <2> QED BY <2>1, <2>2, SubSeqProperties
<1>5. Chunk(kind, items) \in Seq(Batch(kind, S))
  <2>1. \A i \in 1..n : batch(i) \in Batch(kind, S)
    BY <1>4 DEF Batch
  <2> HIDE DEF batch, n
  <2>2. Chunk(kind, items) \in [1..n -> Batch(kind, S)]
    BY <1>3, <2>1
  <2> QED BY <1>2, <2>2, SeqDef
<1>6. ASSUME NEW k \in DOMAIN items
      PROVE  Carries(Chunk(kind, items), items[k])
  <2>1. PICK i \in 1..n : (i - 1) * BatchSize + 1 <= k /\ k <= i * BatchSize
    BY <1>1, BatchOfAnItem
  <2>2. first(i) <= k /\ k <= last(i) /\ k \in Int /\ first(i) \in Int /\ last(i) \in Int
    BY <1>1, <1>4, <2>1
  <2> DEFINE j == k - first(i) + 1
  <2>3. Chunk(kind, items)[i].items = SubSeq(items, first(i), last(i))
    BY <1>3
  <2>4. DOMAIN SubSeq(items, first(i), last(i)) = 1..(last(i) - first(i) + 1)
    <3> HIDE DEF first, last
    <3>1. first(i) <= last(i)
      BY <2>2
    <3> QED BY <1>4, <3>1, LenProperties
  <2>5. j \in 1..(last(i) - first(i) + 1) /\ first(i) + j - 1 = k
    <3> HIDE DEF first, last
    <3> QED BY <2>2
  <2> HIDE DEF j, first, last
  <2>6. Chunk(kind, items)[i].items[j] = items[k]
    BY <1>4, <2>3, <2>5
  <2>7. i \in DOMAIN Chunk(kind, items)
    BY <1>3
  <2> QED BY <2>3, <2>4, <2>5, <2>6, <2>7 DEF Carries
<1> QED BY <1>5, <1>6

-------------------------------------------------------------------------------
(* The invariant. *)

Files_ == {Attached[t] : t \in Texts} \cup {NoFiles}
Session_ == [hash : Texts, summary : Summaries \cup {NoSummary}]
Batch_ == Batch("sessions", Item_) \cup Batch("summaries", SummaryItem_)
Past == {"summaries", "push", "await"}

Tables ==
    /\ sessions \in [Ids -> Texts \cup {NoRow}]
    /\ files \in [Ids -> Files_]
    /\ summaries \in [Ids -> (Summaries \ TooLong) \cup {NoRow}]
    /\ faults \in 0..MaxFaults

Machines ==
    /\ transcript \in [Homes -> [Ids -> Bytes \cup {Gone}]]
    /\ analysis \in [Homes -> [Ids -> Summaries \cup {NoSummary}]]
    /\ edits \in 0..MaxEdits

Runs ==
    /\ pc \in [Agents -> {"idle", "manifest", "diff"} \cup Past]
    /\ scan \in [Agents -> [Ids -> Session_ \cup {Unseen}]]
    /\ manifest \in [Agents -> [Ids -> Texts \cup {NoRow}]]
    /\ missing \in [Agents -> SUBSET Ids]
    /\ queue \in [Agents -> Seq(Batch_)]
    /\ tries \in [Agents -> 0..MaxAttempts]
    /\ conn \in [Agents -> Slots \cup {NoSlot}]
    /\ failed \in [Agents -> BOOLEAN]
    /\ want \in [Agents -> [Ids -> Texts \cup {NoRow}]]

Histories == held \in [Agents -> [Ids -> SUBSET Texts]]

\* A request at the server, whoever waits for it.
RequestOK(q) ==
    /\ q \in Request_
    /\ [kind |-> q.kind, items |-> q.batch] \in Batch_
    /\ q.pos \in 1..(Len(q.batch) + 1)
    /\ q.stage # "row" => q.kind = "sessions" /\ q.pos <= Len(q.batch)
    /\ q.stage = "summary" => q.batch[q.pos].summary \in Summaries \ TooLong
    /\ q.reply = "ok" => q.pos = Len(q.batch) + 1

\* The items of a request whose row is behind it are in the store, or were at
\* some moment, or one of them was rejected.
Done(q, j) == j < q.pos \/ (j = q.pos /\ q.stage # "row")
Stored(q, since) ==
    \A j \in DOMAIN q.batch : q.kind = "sessions" /\ Done(q, j) =>
        q.failed \/ q.batch[j].text \in since[q.batch[j].id]

\* The attempt a run waits for carries the first of its batches.
Attempt(a) ==
    conn[a] # NoSlot =>
        /\ pc[a] = "await" /\ conn[a] \in Slots
        /\ req[conn[a]] # Free /\ req[conn[a]].owner = a
        /\ queue[a] # <<>>
        /\ req[conn[a]].kind = Head(queue[a]).kind
        /\ req[conn[a]].batch = Head(queue[a]).items
        /\ Stored(req[conn[a]], held[a])

\* A session's content is on its way: a batch still to be sent carries it.
Queued(a, s) ==
    \E i \in DOMAIN queue[a] : queue[a][i].kind = "sessions" /\
        \E j \in DOMAIN queue[a][i].items :
            queue[a][i].items[j].id = s /\ queue[a][i].items[j].text = want[a][s]

\* What a run knows and owes, by where it is.
Run(a) ==
    /\ pc[a] # "await" => tries[a] < MaxAttempts
    /\ pc[a] = "await" => tries[a] > 0 /\ queue[a] # <<>>
    /\ pc[a] \in {"manifest", "diff"} => \A s \in Seen(a) :
          scan[a][s].hash = want[a][s] /\ want[a][s] \in Texts
    /\ pc[a] = "diff" => \A s \in Ids : manifest[a][s] \in held[a][s] \cup {NoRow}
    /\ pc[a] \in Past /\ ~failed[a] => \A s \in Seen(a) \ missing[a] :
          want[a][s] \in held[a][s] \/ Queued(a, s)

Requests ==
    /\ req \in [Slots -> Request_ \cup {Free}]
    /\ \A h \in Slots : req[h] # Free =>
          /\ RequestOK(req[h])
          /\ req[h].owner # Nobody => conn[req[h].owner] = h

SyncIInv ==
    /\ Tables /\ Machines /\ Runs /\ Histories /\ Requests
    /\ \A a \in Agents : Attempt(a) /\ Run(a)

-------------------------------------------------------------------------------
(* Facts about the parts. *)

LEMMA BatchFacts ==
    ASSUME NEW b \in Batch_
    PROVE  /\ b.kind \in {"sessions", "summaries"}
           /\ b.items \in Seq(Item_ \cup SummaryItem_)
           /\ b.kind = "sessions" => b.items \in Seq(Item_)
           /\ b.kind = "summaries" => b.items \in Seq(SummaryItem_)
<1>1. Seq(Item_) \subseteq Seq(Item_ \cup SummaryItem_)
      /\ Seq(SummaryItem_) \subseteq Seq(Item_ \cup SummaryItem_)
  BY SeqMonotonic
<1> QED BY <1>1 DEF Batch_, Batch

LEMMA RequestFacts ==
    ASSUME NEW q, RequestOK(q)
    PROVE  /\ q \in Request_ /\ q # Free
           /\ Len(q.batch) \in Nat /\ DOMAIN q.batch = 1..Len(q.batch) /\ q.pos \in Nat
           /\ \A j \in DOMAIN q.batch :
                 /\ q.kind = "sessions" => q.batch[j] \in Item_
                 /\ q.kind = "summaries" => q.batch[j] \in SummaryItem_
<1>1. q \in Request_ /\ q # Free
  BY SyncAssumption DEF RequestOK
<1> DEFINE b == [kind |-> q.kind, items |-> q.batch]
<1>2. b \in Batch_ /\ b.kind = q.kind /\ b.items = q.batch
  BY DEF RequestOK
<1> HIDE DEF b
<1>3. /\ q.batch \in Seq(Item_ \cup SummaryItem_)
      /\ q.kind = "sessions" => q.batch \in Seq(Item_)
      /\ q.kind = "summaries" => q.batch \in Seq(SummaryItem_)
  BY <1>2, BatchFacts
<1>4. Len(q.batch) \in Nat /\ DOMAIN q.batch = 1..Len(q.batch)
  BY <1>3
<1>5. q.pos \in Nat
  BY <1>1 DEF Request_
<1>6. \A j \in DOMAIN q.batch :
        /\ q.kind = "sessions" => q.batch[j] \in Item_
        /\ q.kind = "summaries" => q.batch[j] \in SummaryItem_
  BY <1>3, <1>4, ElementOfSeq
<1> QED BY <1>1, <1>4, <1>5, <1>6

\* What has been held is held while the run goes on, and so is what is stored.
LEMMA TrackFacts ==
    ASSUME SyncIInv, Track, Tables', Runs'
    PROVE  /\ Histories'
           /\ \A a \in Agents, s \in Ids : pc'[a] # "idle" =>
                 /\ held[a][s] \subseteq held'[a][s]
                 /\ sessions'[s] # NoRow => sessions'[s] \in held'[a][s]
<1>1. \A s \in Ids : sessions'[s] \in Texts \cup {NoRow}
  BY DEF Tables
<1>2. held \in [Agents -> [Ids -> SUBSET Texts]]
  BY DEF SyncIInv, Histories
<1>3. held' = [a \in Agents |-> [s \in Ids |->
        IF pc'[a] = "idle" THEN {} ELSE held[a][s] \cup ({sessions'[s]} \ {NoRow})]]
  BY DEF Track
<1>4. \A a \in Agents, s \in Ids :
        (IF pc'[a] = "idle" THEN {} ELSE held[a][s] \cup ({sessions'[s]} \ {NoRow})) \in SUBSET Texts
  BY <1>1, <1>2
<1>5. Histories'
  BY <1>3, <1>4 DEF Histories
<1>6. \A a \in Agents, s \in Ids : pc'[a] # "idle" =>
        held'[a][s] = held[a][s] \cup ({sessions'[s]} \ {NoRow})
  BY <1>3
<1> QED BY <1>5, <1>6

LEMMA StoredGrows ==
    ASSUME NEW q, RequestOK(q), NEW since, NEW later, Stored(q, since),
           \A s \in Ids : since[s] \subseteq later[s]
    PROVE  Stored(q, later)
<1>1. ASSUME NEW j \in DOMAIN q.batch, q.kind = "sessions", Done(q, j)
      PROVE  q.failed \/ q.batch[j].text \in later[q.batch[j].id]
  <2>1. q.batch[j].id \in Ids
    BY <1>1, RequestFacts DEF Item_
  <2> QED BY <1>1, <2>1 DEF Stored
<1> QED BY <1>1 DEF Stored

\* A step that leaves a run alone, and its attempt.
Unmoved(a) ==
    /\ pc'[a] = pc[a] /\ scan'[a] = scan[a] /\ manifest'[a] = manifest[a]
    /\ missing'[a] = missing[a] /\ queue'[a] = queue[a] /\ tries'[a] = tries[a]
    /\ failed'[a] = failed[a] /\ want'[a] = want[a]

Same(a) == Unmoved(a) /\ conn'[a] = conn[a]

LEMMA SameKeepsRun ==
    ASSUME SyncIInv, NEW a \in Agents, Unmoved(a), Track, Tables', Runs'
    PROVE  Run(a)'
<1>1. pc'[a] # "idle" => \A s \in Ids : held[a][s] \subseteq held'[a][s]
  BY TrackFacts
<1>2. Seen(a)' = Seen(a) /\ Seen(a) \subseteq Ids
  BY DEF Seen, Unmoved
<1>3. \A s \in Ids : Queued(a, s)' <=> Queued(a, s)
  BY DEF Queued, Unmoved
<1>4. Run(a)
  BY DEF SyncIInv
<1>5. pc[a] # "await" => tries'[a] < MaxAttempts
  BY <1>4 DEF Run, Unmoved
<1>6. pc[a] = "await" => tries'[a] > 0 /\ queue'[a] # <<>>
  BY <1>4 DEF Run, Unmoved
<1>7. pc[a] \in {"manifest", "diff"} => \A s \in Seen(a) :
        scan'[a][s].hash = want'[a][s] /\ want'[a][s] \in Texts
  BY <1>4 DEF Run, Unmoved
<1>8. pc[a] = "diff" => \A s \in Ids : manifest'[a][s] \in held'[a][s] \cup {NoRow}
  BY <1>1, <1>4 DEF Run, Unmoved
<1>9. pc[a] \in Past /\ ~failed[a] => \A s \in Seen(a) \ missing[a] :
        want'[a][s] \in held'[a][s] \/ Queued(a, s)
  BY <1>1, <1>2, <1>4 DEF Run, Unmoved, Past
<1> QED BY <1>2, <1>3, <1>5, <1>6, <1>7, <1>8, <1>9 DEF Run, Unmoved

LEMMA SameKeepsAttempt ==
    ASSUME SyncIInv, NEW a \in Agents, Same(a), Track, Tables', Runs',
           conn[a] # NoSlot => req'[conn[a]] = req[conn[a]]
    PROVE  Attempt(a)'
<1> SUFFICES ASSUME conn[a] # NoSlot
             PROVE  Attempt(a)'
  BY DEF Attempt, Same, Unmoved
<1>1. /\ pc[a] = "await" /\ conn[a] \in Slots
      /\ req[conn[a]] # Free /\ req[conn[a]].owner = a
      /\ queue[a] # <<>>
      /\ req[conn[a]].kind = Head(queue[a]).kind
      /\ req[conn[a]].batch = Head(queue[a]).items
      /\ Stored(req[conn[a]], held[a])
  BY DEF SyncIInv, Attempt
<1>2. RequestOK(req[conn[a]])
  BY <1>1 DEF SyncIInv, Requests
<1>3. \A s \in Ids : held[a][s] \subseteq held'[a][s]
  BY <1>1, TrackFacts DEF Same, Unmoved
<1>4. Stored(req[conn[a]], held'[a])
  BY <1>1, <1>2, <1>3, StoredGrows
<1>5. req'[conn'[a]] = req[conn[a]] /\ conn'[a] = conn[a]
  BY DEF Same, Unmoved
<1>6. Stored(req'[conn'[a]], held'[a])
  BY <1>4, <1>5
<1> QED BY <1>1, <1>5, <1>6 DEF Attempt, Same, Unmoved

\* A step of one run: what is left to be shown of it.
LEMMA RunStepKeeps ==
    ASSUME SyncIInv, Track, NEW a \in Agents,
           UNCHANGED tables, UNCHANGED localVars, faults' \in 0..MaxFaults,
           Runs', Requests', Attempt(a)', Run(a)',
           \A b \in Agents : b # a =>
              Same(b) /\ (conn[b] # NoSlot => req'[conn[b]] = req[conn[b]])
    PROVE  SyncIInv'
<1>1. Tables'
  BY DEF SyncIInv, Tables, tables
<1>2. Machines'
  BY DEF SyncIInv, Machines, localVars
<1>3. Histories'
  BY <1>1, TrackFacts
<1>4. \A b \in Agents : Attempt(b)' /\ Run(b)'
  BY <1>1, SameKeepsRun, SameKeepsAttempt DEF Same
<1> QED BY <1>1, <1>2, <1>3, <1>4 DEF SyncIInv

-------------------------------------------------------------------------------
(* The handlers. *)

\* A handler goes on with its request.
LEMMA HandlerKeeps ==
    ASSUME SyncIInv, Track, Tables', UNCHANGED localVars, UNCHANGED runVars,
           NEW h \in Slots, req[h] # Free, NEW v, RequestOK(v),
           v.owner = req[h].owner, v.kind = req[h].kind, v.batch = req[h].batch,
           req' = [req EXCEPT ![h] = v],
           \A a \in Agents : conn[a] = h => Stored(v, held'[a])
    PROVE  SyncIInv'
<1>1. Machines' /\ Runs'
  BY DEF SyncIInv, Machines, localVars, Runs, runVars
<1>2. Histories'
  BY <1>1, TrackFacts
<1>3. /\ req' \in [Slots -> Request_ \cup {Free}] /\ req'[h] = v
      /\ \A g \in Slots : g # h => req'[g] = req[g]
  BY RequestFacts DEF SyncIInv, Requests
<1>4. v # Free
  BY RequestFacts
<1>5. conn' = conn
  BY DEF runVars
<1>6. Requests'
  <2>1. ASSUME NEW g \in Slots, req'[g] # Free
        PROVE  RequestOK(req'[g]) /\ (req'[g].owner # Nobody => conn'[req'[g].owner] = g)
    <3>1. CASE g = h
      BY <1>3, <1>5, <3>1 DEF SyncIInv, Requests
    <3>2. CASE g # h
      BY <1>3, <1>5, <2>1, <3>2 DEF SyncIInv, Requests
    <3> QED BY <3>1, <3>2
  <2> QED BY <1>3, <2>1 DEF Requests
<1>7. \A a \in Agents : Same(a)
  BY DEF Same, Unmoved, runVars
<1>8. ASSUME NEW a \in Agents PROVE Attempt(a)' /\ Run(a)'
  <2>1. Run(a)'
    BY <1>1, <1>7, SameKeepsRun DEF Same
  <2>2. CASE conn[a] # h
    <3>1. conn[a] # NoSlot => req'[conn[a]] = req[conn[a]]
      BY <1>3, <2>2 DEF SyncIInv, Attempt
    <3> QED BY <1>1, <1>7, <2>1, <3>1, SameKeepsAttempt
  <2>3. CASE conn[a] = h
    <3>1. Attempt(a)
      BY DEF SyncIInv
    <3>2. Stored(v, held'[a])
      BY <2>3
    <3>3. pc'[a] = pc[a] /\ queue'[a] = queue[a] /\ conn'[a] = h
      BY <1>7, <2>3 DEF Same, Unmoved
    <3>4. req'[conn'[a]] = v
      BY <1>3, <3>3
    <3> QED BY <1>4, <2>1, <2>3, <3>1, <3>2, <3>3, <3>4 DEF Attempt
  <2> QED BY <2>2, <2>3
<1> QED BY <1>1, <1>2, <1>6, <1>8 DEF SyncIInv

\* What a handler may do with its current item.
Goes(h, text) ==
    \/ /\ AtStage(h, "files")
       /\ req[h].kind = "sessions" /\ text
    \/ /\ AtStage(h, "summary")
       /\ req[h].kind = "sessions" /\ text
       /\ Item(h).summary \in Summaries \ TooLong
    \/ NextItem(h) /\ (req[h].kind = "sessions" => text)
    \/ RejectItem(h)
    \/ Unavailable(h) /\ req[h].stage = "row"

\* Whether the content of the current item is, or was, in the store.
HeldItem(h) ==
    req[h].failed \/ \A a \in Agents : conn[a] = h => Item(h).text \in held'[a][Item(h).id]

LEMMA ItemMoves ==
    ASSUME NEW q, RequestOK(q), q.reply = "none", q.pos \in DOMAIN q.batch,
           NEW v, NEW since, Stored(q, since), NEW held_, held_ \in BOOLEAN,
           q.kind = "sessions" /\ held_ =>
              q.failed \/ q.batch[q.pos].text \in since[q.batch[q.pos].id],
           \/ v = [q EXCEPT !.stage = "files"] /\ q.kind = "sessions" /\ held_
           \/ /\ v = [q EXCEPT !.stage = "summary"] /\ q.kind = "sessions" /\ held_
              /\ q.batch[q.pos].summary \in Summaries \ TooLong
           \/ v = [q EXCEPT !.stage = "row", !.pos = @ + 1] /\ (q.kind = "sessions" => held_)
           \/ v = [q EXCEPT !.stage = "row", !.pos = @ + 1, !.failed = TRUE]
           \/ v = [q EXCEPT !.reply = "unavailable"] /\ q.stage = "row"
    PROVE  /\ RequestOK(v) /\ Stored(v, since)
           /\ v.owner = q.owner /\ v.kind = q.kind /\ v.batch = q.batch
<1>1. /\ q \in Request_ /\ Len(q.batch) \in Nat /\ DOMAIN q.batch = 1..Len(q.batch)
      /\ q.pos \in Nat /\ q.pos >= 1 /\ q.pos <= Len(q.batch)
  <2>1. /\ q \in Request_ /\ Len(q.batch) \in Nat /\ DOMAIN q.batch = 1..Len(q.batch)
        /\ q.pos \in Nat
    BY RequestFacts
  <2> QED BY <2>1
<1>2. \A j \in DOMAIN q.batch : j \in Nat
  BY <1>1
<1>3. CASE v = [q EXCEPT !.stage = "files"] /\ q.kind = "sessions" /\ held_
  <2>1. /\ v \in Request_ /\ v.owner = q.owner /\ v.kind = q.kind /\ v.batch = q.batch
        /\ v.pos = q.pos /\ v.stage = "files" /\ v.failed = q.failed /\ v.reply = "none"
    BY <1>1, <1>3 DEF Request_
  <2>2. RequestOK(v)
    BY <1>1, <1>3, <2>1 DEF RequestOK
  <2>3. Stored(v, since)
    BY <1>1, <1>2, <1>3, <2>1 DEF Stored, Done
  <2> QED BY <2>1, <2>2, <2>3
<1>4. CASE /\ v = [q EXCEPT !.stage = "summary"] /\ q.kind = "sessions" /\ held_
           /\ q.batch[q.pos].summary \in Summaries \ TooLong
  <2>1. /\ v \in Request_ /\ v.owner = q.owner /\ v.kind = q.kind /\ v.batch = q.batch
        /\ v.pos = q.pos /\ v.stage = "summary" /\ v.failed = q.failed /\ v.reply = "none"
    BY <1>1, <1>4 DEF Request_
  <2>2. RequestOK(v)
    BY <1>1, <1>4, <2>1 DEF RequestOK
  <2>3. Stored(v, since)
    BY <1>1, <1>2, <1>4, <2>1 DEF Stored, Done
  <2> QED BY <2>1, <2>2, <2>3
<1>5. CASE v = [q EXCEPT !.stage = "row", !.pos = @ + 1] /\ (q.kind = "sessions" => held_)
  <2>1. /\ v \in Request_ /\ v.owner = q.owner /\ v.kind = q.kind /\ v.batch = q.batch
        /\ v.pos = q.pos + 1 /\ v.stage = "row" /\ v.failed = q.failed /\ v.reply = "none"
    <3> DEFINE p == q.pos + 1
    <3>1. p \in Nat \ {0}
      BY <1>1
    <3>2. v = [q EXCEPT !.stage = "row", !.pos = p]
      BY <1>5
    <3> HIDE DEF p
    <3>3. q \in Request_
      BY <1>1
    <3>4. /\ v \in Request_ /\ v.owner = q.owner /\ v.kind = q.kind /\ v.batch = q.batch
          /\ v.pos = p /\ v.stage = "row" /\ v.failed = q.failed /\ v.reply = "none"
      BY <3>1, <3>2, <3>3 DEF Request_
    <3> QED BY <3>4 DEF p
  <2>2. RequestOK(v)
    BY <1>1, <2>1 DEF RequestOK
  <2>3. Stored(v, since)
    BY <1>1, <1>2, <1>5, <2>1 DEF Stored, Done
  <2> QED BY <2>1, <2>2, <2>3
<1>6. CASE v = [q EXCEPT !.stage = "row", !.pos = @ + 1, !.failed = TRUE]
  <2>1. /\ v \in Request_ /\ v.owner = q.owner /\ v.kind = q.kind /\ v.batch = q.batch
        /\ v.pos = q.pos + 1 /\ v.stage = "row" /\ v.failed = TRUE /\ v.reply = "none"
    <3> DEFINE p == q.pos + 1
    <3>1. p \in Nat \ {0}
      BY <1>1
    <3>2. v = [q EXCEPT !.stage = "row", !.pos = p, !.failed = TRUE]
      BY <1>6
    <3> HIDE DEF p
    <3>3. q \in Request_
      BY <1>1
    <3>4. /\ v \in Request_ /\ v.owner = q.owner /\ v.kind = q.kind /\ v.batch = q.batch
          /\ v.pos = p /\ v.stage = "row" /\ v.failed = TRUE /\ v.reply = "none"
      BY <3>1, <3>2, <3>3 DEF Request_
    <3> QED BY <3>4 DEF p
  <2>2. RequestOK(v)
    BY <1>1, <2>1 DEF RequestOK
  <2>3. Stored(v, since)
    BY <2>1 DEF Stored
  <2> QED BY <2>1, <2>2, <2>3
<1>7. CASE v = [q EXCEPT !.reply = "unavailable"] /\ q.stage = "row"
  <2>1. /\ v \in Request_ /\ v.owner = q.owner /\ v.kind = q.kind /\ v.batch = q.batch
        /\ v.pos = q.pos /\ v.stage = q.stage /\ v.failed = q.failed /\ v.reply = "unavailable"
    BY <1>1, <1>7 DEF Request_
  <2>2. RequestOK(v)
    BY <1>1, <1>7, <2>1 DEF RequestOK
  <2>3. Stored(v, since)
    BY <2>1 DEF Stored, Done
  <2> QED BY <2>1, <2>2, <2>3
<1> QED BY <1>3, <1>4, <1>5, <1>6, <1>7

LEMMA RequestIsMade ==
    ASSUME SyncIInv
    PROVE  req \in [Slots -> Request_ \cup {Free}]
BY DEF SyncIInv, Requests

LEMMA ItemStepKeeps ==
    ASSUME SyncIInv, Track, Tables', UNCHANGED localVars, UNCHANGED runVars,
           NEW h \in Slots, req[h] # Free, req[h].reply = "none",
           req[h].pos \in DOMAIN req[h].batch,
           Goes(h, HeldItem(h))
    PROVE  SyncIInv'
<1> DEFINE q == req[h]
<1>1. RequestOK(q)
  BY DEF SyncIInv, Requests
<1>2. ASSUME NEW a \in Agents, conn[a] = h PROVE Stored(q, held'[a])
  <2>1. pc[a] = "await" /\ Stored(q, held[a])
    BY <1>2, SyncAssumption DEF SyncIInv, Attempt
  <2>2. \A s \in Ids : held[a][s] \subseteq held'[a][s]
    <3>1. pc'[a] # "idle" /\ Runs'
      BY <2>1 DEF runVars, SyncIInv, Runs
    <3> QED BY <3>1, TrackFacts
  <2> QED BY <1>1, <2>1, <2>2, StoredGrows
<1>3. PICK v :
        /\ req' = [req EXCEPT ![h] = v]
        /\ \/ v = [q EXCEPT !.stage = "files"] /\ q.kind = "sessions" /\ HeldItem(h)
           \/ /\ v = [q EXCEPT !.stage = "summary"] /\ q.kind = "sessions" /\ HeldItem(h)
              /\ q.batch[q.pos].summary \in Summaries \ TooLong
           \/ v = [q EXCEPT !.stage = "row", !.pos = @ + 1] /\ (q.kind = "sessions" => HeldItem(h))
           \/ v = [q EXCEPT !.stage = "row", !.pos = @ + 1, !.failed = TRUE]
           \/ v = [q EXCEPT !.reply = "unavailable"] /\ q.stage = "row"
  <2>1. CASE AtStage(h, "files") /\ req[h].kind = "sessions" /\ HeldItem(h)
    <3> WITNESS [q EXCEPT !.stage = "files"]
    <3> QED BY <2>1, RequestIsMade DEF AtStage
  <2>2. CASE /\ AtStage(h, "summary") /\ req[h].kind = "sessions" /\ HeldItem(h)
             /\ Item(h).summary \in Summaries \ TooLong
    <3> WITNESS [q EXCEPT !.stage = "summary"]
    <3> QED BY <2>2, RequestIsMade DEF AtStage, Item
  <2>3. CASE NextItem(h) /\ (req[h].kind = "sessions" => HeldItem(h))
    <3> WITNESS [q EXCEPT !.stage = "row", !.pos = @ + 1]
    <3> QED BY <2>3, RequestIsMade DEF NextItem
  <2>4. CASE RejectItem(h)
    <3> WITNESS [q EXCEPT !.stage = "row", !.pos = @ + 1, !.failed = TRUE]
    <3> QED BY <2>4, RequestIsMade DEF RejectItem
  <2>5. CASE Unavailable(h) /\ req[h].stage = "row"
    <3> WITNESS [q EXCEPT !.reply = "unavailable"]
    <3> QED BY <2>5, RequestIsMade DEF Unavailable
  <2> QED BY <2>1, <2>2, <2>3, <2>4, <2>5 DEF Goes
<1> DEFINE since == [s \in Ids |-> Texts]
<1>4. RequestOK(v) /\ v.owner = q.owner /\ v.kind = q.kind /\ v.batch = q.batch
  <2>1. Stored(q, since)
    <3>1. ASSUME NEW j \in DOMAIN q.batch, q.kind = "sessions"
          PROVE  q.batch[j].text \in since[q.batch[j].id]
      BY <1>1, <3>1, RequestFacts DEF Item_
    <3> QED BY <3>1 DEF Stored
  <2>2. q.kind = "sessions" => q.batch[q.pos].text \in since[q.batch[q.pos].id]
    BY <1>1, RequestFacts DEF Item_
  <2> HIDE DEF since
  <2> QED BY <1>1, <1>3, <2>1, <2>2, ItemMoves DEF HeldItem
<1>5. ASSUME NEW a \in Agents, conn[a] = h PROVE Stored(v, held'[a])
  <2>1. HeldItem(h) => q.failed \/ q.batch[q.pos].text \in held'[a][q.batch[q.pos].id]
    BY <1>5 DEF HeldItem, Item
  <2> QED BY <1>1, <1>2, <1>3, <1>5, <2>1, ItemMoves DEF HeldItem
<1> QED BY <1>3, <1>4, <1>5, HandlerKeeps

\* The current item of a request that is handled.
LEMMA HandlingFacts ==
    ASSUME SyncIInv, NEW h \in Slots, req[h] # Free, req[h].pos \in DOMAIN req[h].batch
    PROVE  /\ RequestOK(req[h])
           /\ req[h].kind = "sessions" => Item(h) \in Item_
           /\ req[h].kind = "summaries" => Item(h) \in SummaryItem_
<1>1. RequestOK(req[h])
  BY DEF SyncIInv, Requests
<1> QED BY <1>1, RequestFacts DEF Item

\* Past its row, an item is in the store.
LEMMA PastTheRow ==
    ASSUME SyncIInv, Track, Tables', UNCHANGED runVars, NEW h \in Slots, req[h] # Free,
           req[h].pos \in DOMAIN req[h].batch, req[h].kind = "sessions", req[h].stage # "row"
    PROVE  HeldItem(h)
<1>1. ASSUME NEW a \in Agents, conn[a] = h, ~req[h].failed
      PROVE  Item(h).text \in held'[a][Item(h).id]
  <2>1. pc[a] = "await" /\ Stored(req[h], held[a])
    BY <1>1, SyncAssumption DEF SyncIInv, Attempt
  <2>2. Item(h).text \in held[a][Item(h).id]
    BY <1>1, <2>1 DEF Stored, Done, Item
  <2>3. pc'[a] # "idle" /\ Runs'
    BY <2>1 DEF runVars, SyncIInv, Runs
  <2>4. Item(h).id \in Ids
    BY HandlingFacts DEF Item_
  <2> QED BY <2>2, <2>3, <2>4, TrackFacts
<1>2. req[h].failed \in BOOLEAN
  BY HandlingFacts DEF RequestOK, Request_
<1> QED BY <1>1, <1>2 DEF HeldItem

LEMMA FaultsBounded ==
    ASSUME SyncIInv, NEW outcome, Ends(outcome)
    PROVE  faults' \in 0..MaxFaults
BY FaultsAssumption DEF SyncIInv, Tables, Ends

LEMMA RejectSessionKeeps ==
    ASSUME SyncIInv, Track, UNCHANGED localVars, UNCHANGED runVars, NEW h \in Slots,
           RejectSession(h)
    PROVE  SyncIInv'
<1>1. Tables'
  BY DEF SyncIInv, Tables, RejectSession, tables
<1>2. Goes(h, HeldItem(h))
  BY DEF RejectSession, Goes
<1>3. req[h] # Free /\ req[h].reply = "none" /\ req[h].pos \in DOMAIN req[h].batch
  BY DEF RejectSession, Handling
<1> QED BY <1>1, <1>2, <1>3, ItemStepKeeps

LEMMA RejectSummaryKeeps ==
    ASSUME SyncIInv, Track, UNCHANGED localVars, UNCHANGED runVars, NEW h \in Slots,
           RejectSummary(h)
    PROVE  SyncIInv'
<1>1. Tables'
  BY DEF SyncIInv, Tables, RejectSummary, tables
<1>2. Goes(h, HeldItem(h))
  BY DEF RejectSummary, Goes
<1>3. req[h] # Free /\ req[h].reply = "none" /\ req[h].pos \in DOMAIN req[h].batch
  BY DEF RejectSummary, Handling
<1> QED BY <1>1, <1>2, <1>3, ItemStepKeeps

\* After its row or its files, an item of a push that is held goes on.
LEMMA HeldGoesOn ==
    ASSUME SyncIInv, NEW h \in Slots, req[h].kind = "sessions", HeldItem(h),
           AfterRow(h) \/ AfterFiles(h)
    PROVE  Goes(h, HeldItem(h))
BY DEF AfterRow, AfterFiles, Goes

LEMMA UpsertSessionKeeps ==
    ASSUME SyncIInv, Track, UNCHANGED localVars, UNCHANGED runVars, NEW h \in Slots,
           UpsertSession(h)
    PROVE  SyncIInv'
<1>1. /\ req[h] # Free /\ req[h].reply = "none" /\ req[h].pos \in DOMAIN req[h].batch
      /\ req[h].kind = "sessions" /\ req[h].stage = "row"
  BY DEF UpsertSession, Handling
<1>2. Item(h).id \in Ids /\ Item(h).text \in Texts
  BY <1>1, HandlingFacts DEF Item_
<1>3. PICK outcome \in Outcomes :
        /\ Ends(outcome)
        /\ sessions' = Upsert(sessions, Item(h).id, Item(h).text, outcome)
        /\ RowEnds(h, outcome)
  BY DEF UpsertSession
<1>4. Tables'
  <2>1. sessions' \in [Ids -> Texts \cup {NoRow}]
    BY <1>2, <1>3 DEF Upsert, SyncIInv, Tables
  <2>2. files' = files /\ summaries' = summaries
    BY DEF UpsertSession
  <2>3. faults' \in 0..MaxFaults
    BY <1>3, FaultsBounded
  <2> QED BY <2>1, <2>2, <2>3 DEF SyncIInv, Tables
<1>5. Goes(h, HeldItem(h))
  <2>1. CASE outcome = "ok"
    <3>1. sessions'[Item(h).id] = Item(h).text
      BY <1>2, <1>3, <2>1 DEF Upsert, SyncIInv, Tables
    <3>2. ASSUME NEW a \in Agents, conn[a] = h
          PROVE  Item(h).text \in held'[a][Item(h).id]
      <4>1. pc'[a] # "idle" /\ Runs'
        BY <3>2, SyncAssumption DEF runVars, SyncIInv, Runs, Attempt
      <4>2. sessions'[Item(h).id] # NoRow
        BY <1>2, <3>1, SyncAssumption
      <4> QED BY <1>2, <1>4, <3>1, <4>1, <4>2, TrackFacts
    <3>3. HeldItem(h)
      BY <3>2 DEF HeldItem
    <3>4. AfterRow(h)
      BY <1>3, <2>1 DEF RowEnds
    <3> QED BY <1>1, <3>3, <3>4, HeldGoesOn
  <2>2. CASE outcome # "ok"
    BY <1>1, <1>3, <2>2 DEF RowEnds, Goes
  <2> QED BY <2>1, <2>2
<1> QED BY <1>1, <1>4, <1>5, ItemStepKeeps

LEMMA ReplaceFilesKeeps ==
    ASSUME SyncIInv, Track, UNCHANGED localVars, UNCHANGED runVars, NEW h \in Slots,
           ReplaceFiles(h)
    PROVE  SyncIInv'
<1>1. /\ req[h] # Free /\ req[h].reply = "none" /\ req[h].pos \in DOMAIN req[h].batch
      /\ req[h].kind = "sessions" /\ req[h].stage # "row"
  BY DEF ReplaceFiles, Handling
<1>2. Item(h).id \in Ids /\ Item(h).files \in Files_
  BY <1>1, HandlingFacts DEF Item_, Files_
<1>3. PICK outcome \in Outcomes :
        /\ Ends(outcome)
        /\ files' = Upsert(files, Item(h).id, Item(h).files, outcome)
  BY DEF ReplaceFiles
<1>4. Tables'
  <2>1. files' \in [Ids -> Files_]
    BY <1>2, <1>3 DEF Upsert, SyncIInv, Tables
  <2>2. sessions' = sessions /\ summaries' = summaries
    BY DEF ReplaceFiles
  <2>3. faults' \in 0..MaxFaults
    BY <1>3, FaultsBounded
  <2> QED BY <2>1, <2>2, <2>3 DEF SyncIInv, Tables
<1>5. Goes(h, HeldItem(h))
  BY <1>1, <1>4, PastTheRow, HeldGoesOn DEF ReplaceFiles
<1> QED BY <1>1, <1>4, <1>5, ItemStepKeeps

\* A summary that is stored is one of the size the server takes.
LEMMA UpsertSummaryTyped ==
    ASSUME SyncIInv, NEW s \in Ids, NEW x \in Summaries \ TooLong, NEW outcome,
           Ends(outcome), summaries' = Upsert(summaries, s, x, outcome),
           sessions' = sessions, files' = files
    PROVE  Tables'
<1>1. summaries' \in [Ids -> (Summaries \ TooLong) \cup {NoRow}]
  BY DEF Upsert, SyncIInv, Tables
<1>2. faults' \in 0..MaxFaults
  BY FaultsBounded
<1> QED BY <1>1, <1>2 DEF SyncIInv, Tables

LEMMA UpsertPushedSummaryKeeps ==
    ASSUME SyncIInv, Track, UNCHANGED localVars, UNCHANGED runVars, NEW h \in Slots,
           UpsertPushedSummary(h)
    PROVE  SyncIInv'
<1>1. /\ req[h] # Free /\ req[h].reply = "none" /\ req[h].pos \in DOMAIN req[h].batch
      /\ req[h].kind = "sessions" /\ req[h].stage # "row" /\ req[h].stage = "summary"
  BY DEF UpsertPushedSummary, Handling
<1>2. Item(h).id \in Ids
  BY <1>1, HandlingFacts DEF Item_
<1>3. Item(h).summary \in Summaries \ TooLong
  BY <1>1, HandlingFacts DEF RequestOK, Item
<1>4. Tables'
  BY <1>2, <1>3, UpsertSummaryTyped DEF UpsertPushedSummary
<1>5. Goes(h, HeldItem(h))
  BY <1>1, <1>4, PastTheRow DEF UpsertPushedSummary, Goes
<1> QED BY <1>1, <1>4, <1>5, ItemStepKeeps

LEMMA UpsertSummaryKeeps ==
    ASSUME SyncIInv, Track, UNCHANGED localVars, UNCHANGED runVars, NEW h \in Slots,
           UpsertSummary(h)
    PROVE  SyncIInv'
<1>1. /\ req[h] # Free /\ req[h].reply = "none" /\ req[h].pos \in DOMAIN req[h].batch
      /\ req[h].kind = "summaries" /\ req[h].stage = "row"
  BY DEF UpsertSummary, Handling
<1>2. Item(h).id \in Ids /\ Item(h).summary \in Summaries \ TooLong
  BY <1>1, HandlingFacts DEF SummaryItem_, UpsertSummary
<1>3. Tables'
  BY <1>2, UpsertSummaryTyped DEF UpsertSummary
<1>4. Goes(h, HeldItem(h))
  BY <1>1 DEF UpsertSummary, Goes
<1> QED BY <1>1, <1>3, <1>4, ItemStepKeeps

\* The end of the batch: every item of it is behind the handler.
LEMMA AnswerKeeps ==
    ASSUME SyncIInv, Track, UNCHANGED localVars, UNCHANGED runVars, NEW h \in Slots,
           Answer(h)
    PROVE  SyncIInv'
<1> DEFINE q == req[h]
           v == [q EXCEPT !.reply = "ok"]
<1>1. q # Free /\ q.reply = "none" /\ q.pos \notin DOMAIN q.batch
  BY DEF Answer
<1>2. RequestOK(q)
  BY <1>1 DEF SyncIInv, Requests
<1>3. req' = [req EXCEPT ![h] = v]
  BY DEF Answer
<1>4. Tables'
  BY DEF SyncIInv, Tables, Answer, tables
<1>5. /\ v \in Request_ /\ v.owner = q.owner /\ v.kind = q.kind /\ v.batch = q.batch
      /\ v.pos = q.pos /\ v.stage = q.stage /\ v.failed = q.failed /\ v.reply = "ok"
  BY <1>2 DEF RequestOK, Request_
<1>6. q.pos = Len(q.batch) + 1
  BY <1>1, <1>2, RequestFacts DEF RequestOK
<1> HIDE DEF v, q
<1>7. RequestOK(v)
  BY <1>2, <1>5, <1>6 DEF RequestOK
<1>8. ASSUME NEW a \in Agents, conn[a] = h PROVE Stored(v, held'[a])
  <2>1. pc[a] = "await" /\ Stored(q, held[a])
    BY <1>8, SyncAssumption DEF SyncIInv, Attempt, q
  <2>2. pc'[a] # "idle" /\ Runs'
    BY <2>1 DEF runVars, SyncIInv, Runs
  <2>3. \A s \in Ids : held[a][s] \subseteq held'[a][s]
    BY <1>4, <2>2, TrackFacts
  <2>4. Stored(q, held'[a])
    BY <1>2, <2>1, <2>3, StoredGrows
  <2> QED BY <1>5, <2>4 DEF Stored, Done
<1> QED BY <1>1, <1>3, <1>4, <1>5, <1>7, <1>8, HandlerKeeps DEF q

\* Nobody's request ends, and nobody's attempt with it.
LEMMA DiscardKeeps ==
    ASSUME SyncIInv, Track, UNCHANGED localVars, UNCHANGED runVars, NEW h \in Slots,
           Discard(h)
    PROVE  SyncIInv'
<1>1. Tables' /\ Machines' /\ Runs'
  BY DEF SyncIInv, Tables, Machines, Runs, Discard, tables, localVars, runVars
<1>2. Histories'
  BY <1>1, TrackFacts
<1>3. /\ req' \in [Slots -> Request_ \cup {Free}] /\ req'[h] = Free
      /\ \A g \in Slots : g # h => req'[g] = req[g]
  BY DEF SyncIInv, Requests, Discard
<1>4. Requests'
  BY <1>3 DEF SyncIInv, Requests, runVars
<1>5. ASSUME NEW a \in Agents PROVE Attempt(a)' /\ Run(a)'
  <2>1. Same(a)
    BY DEF Same, Unmoved, runVars
  <2>2. conn[a] # NoSlot => conn[a] \in Slots /\ conn[a] # h
    BY SyncAssumption DEF SyncIInv, Attempt, Discard
  <2> QED BY <1>1, <1>3, <2>1, <2>2, SameKeepsRun, SameKeepsAttempt DEF Same
<1> QED BY <1>1, <1>2, <1>4, <1>5 DEF SyncIInv

LEMMA HandlerStepKeeps ==
    ASSUME SyncIInv, Track, NEW h \in Slots, HandlerStep(h), UNCHANGED <<localVars, runVars>>
    PROVE  SyncIInv'
<1>1. UNCHANGED localVars /\ UNCHANGED runVars
  OBVIOUS
<1> QED BY <1>1, RejectSessionKeeps, UpsertSessionKeeps, ReplaceFilesKeeps,
           UpsertPushedSummaryKeeps, RejectSummaryKeeps, UpsertSummaryKeeps,
           AnswerKeeps, DiscardKeeps DEF HandlerStep

-------------------------------------------------------------------------------
(* The runs. *)

\* Nothing of a run, its requests or the store moves; a file may.
LEMMA NothingMovesKeeps ==
    ASSUME SyncIInv, Track, Machines', UNCHANGED <<tables, req, faults, runVars>>
    PROVE  SyncIInv'
<1>1. Tables' /\ Runs' /\ Requests'
  BY DEF SyncIInv, Tables, Runs, Requests, tables, runVars
<1>2. Histories'
  BY <1>1, TrackFacts
<1>3. ASSUME NEW a \in Agents PROVE Attempt(a)' /\ Run(a)'
  <2>1. Same(a) /\ req'[conn[a]] = req[conn[a]]
    BY DEF Same, Unmoved, runVars
  <2> QED BY <1>1, <2>1, SameKeepsRun, SameKeepsAttempt DEF Same
<1> QED BY <1>1, <1>2, <1>3 DEF SyncIInv

LEMMA EditKeeps ==
    ASSUME SyncIInv, Track, NEW m \in Homes, NEW s \in Ids,
           EditTranscript(m, s) \/ EditAnalysis(m, s)
    PROVE  SyncIInv'
<1>1. edits' \in 0..MaxEdits
  BY SyncAssumption DEF EditTranscript, EditAnalysis, SyncIInv, Machines
<1>2. /\ transcript' \in [Homes -> [Ids -> Bytes \cup {Gone}]]
      /\ analysis' \in [Homes -> [Ids -> Summaries \cup {NoSummary}]]
  <2>1. CASE EditTranscript(m, s)
    BY <2>1 DEF EditTranscript, SyncIInv, Machines
  <2>2. CASE EditAnalysis(m, s)
    BY <2>2 DEF EditAnalysis, SyncIInv, Machines
  <2> QED BY <2>1, <2>2
<1>3. UNCHANGED <<tables, req, faults, runVars>>
  BY DEF EditTranscript, EditAnalysis
<1> QED BY <1>1, <1>2, <1>3, NothingMovesKeeps DEF Machines

\* The run that steps moves alone, and a request is left alone that is not its.
Alone(a) ==
    \A b \in Agents : b # a =>
        Same(b) /\ (conn[b] # NoSlot => req'[conn[b]] = req[conn[b]])

LEMMA BeginKeeps ==
    ASSUME SyncIInv, Track, NEW a \in Agents, Begin(a)
    PROVE  SyncIInv'
<1> DEFINE of(s) == Local(a)[s]
           x(s) == analysis[HomeOf[a]][s]
<1>1. \A s \in Ids : /\ of(s) # Gone => Coerced[of(s)] \in Texts
                     /\ x(s) \in Summaries \cup {NoSummary}
  <2>1. HomeOf[a] \in Homes
    BY SyncAssumption
  <2>2. \A s \in Ids : of(s) \in Bytes \cup {Gone} /\ x(s) \in Summaries \cup {NoSummary}
    BY <2>1 DEF SyncIInv, Machines, Local
  <2> QED BY <2>2, SyncAssumption
<1>2. /\ scan' = [scan EXCEPT ![a] = [s \in Ids |->
            IF of(s) = Gone THEN Unseen ELSE [hash |-> Coerced[of(s)], summary |-> x(s)]]]
      /\ want' = [want EXCEPT ![a] = [s \in Ids |->
            IF of(s) = Gone THEN NoRow ELSE Coerced[of(s)]]]
  BY DEF Begin, HashOf
<1> HIDE DEF of, x
<1>3. Runs'
  <2>1. scan' \in [Agents -> [Ids -> Session_ \cup {Unseen}]]
    BY <1>1, <1>2 DEF SyncIInv, Runs, Session_
  <2>2. want' \in [Agents -> [Ids -> Texts \cup {NoRow}]]
    BY <1>1, <1>2 DEF SyncIInv, Runs
  <2>3. pc' \in [Agents -> {"idle", "manifest", "diff"} \cup Past]
    BY DEF Begin, SyncIInv, Runs
  <2> QED BY <2>1, <2>2, <2>3 DEF Begin, SyncIInv, Runs
<1>4. Alone(a)
  BY DEF Begin, SyncIInv, Runs, Alone, Same, Unmoved
<1>5. Requests' /\ Attempt(a)'
  BY DEF Begin, SyncIInv, Requests, Attempt
<1>6. Run(a)'
  <2>1. pc'[a] = "manifest" /\ tries'[a] < MaxAttempts
    BY DEF Begin, SyncIInv, Runs, Run
  <2>2. ASSUME NEW s \in Ids, scan'[a][s] # Unseen
        PROVE  scan'[a][s].hash = want'[a][s] /\ want'[a][s] \in Texts
    BY <1>1, <1>2, <2>2 DEF SyncIInv, Runs
  <2> QED BY <2>1, <2>2 DEF Run, Seen, Past
<1> QED BY <1>3, <1>4, <1>5, <1>6, RunStepKeeps DEF Begin, SyncIInv, Tables, Alone

LEMMA FetchManifestKeeps ==
    ASSUME SyncIInv, Track, NEW a \in Agents, FetchManifest(a)
    PROVE  SyncIInv'
<1>1. Runs'
  <2>1. pc' \in [Agents -> {"idle", "manifest", "diff"} \cup Past]
    BY DEF FetchManifest, SyncIInv, Runs
  <2>2. manifest' \in [Agents -> [Ids -> Texts \cup {NoRow}]]
    BY DEF FetchManifest, SyncIInv, Runs, Tables
  <2> QED BY <2>1, <2>2 DEF FetchManifest, SyncIInv, Runs
<1>2. Alone(a)
  BY DEF FetchManifest, SyncIInv, Runs, Alone, Same, Unmoved
<1>3. Requests' /\ Attempt(a)' /\ Tables'
  BY DEF FetchManifest, SyncIInv, Requests, Attempt, Tables, tables
<1>4. Run(a)'
  <2>1. pc'[a] = "diff" /\ tries'[a] < MaxAttempts
    BY DEF FetchManifest, SyncIInv, Runs, Run
  <2>2. ASSUME NEW s \in Ids PROVE manifest'[a][s] \in held'[a][s] \cup {NoRow}
    <3>1. manifest'[a][s] = sessions'[s]
      BY DEF FetchManifest, SyncIInv, Runs, tables
    <3> QED BY <1>1, <1>3, <2>1, <3>1, TrackFacts
  <2>3. \A s \in Seen(a)' : scan'[a][s].hash = want'[a][s] /\ want'[a][s] \in Texts
    BY DEF FetchManifest, SyncIInv, Run, Seen
  <2> QED BY <2>1, <2>2, <2>3 DEF Run, Past
<1> QED BY <1>1, <1>2, <1>3, <1>4, RunStepKeeps DEF FetchManifest, SyncIInv, Tables, Alone

\* A session that is pushed is in one of the batches.
LEMMA QueuedOfPush ==
    ASSUME NEW ids \in SUBSET Ids, NEW push \in [ids -> Item_], NEW s \in ids
    PROVE  /\ Chunk("sessions", Items(push)) \in Seq(Batch_)
           /\ \E i \in DOMAIN Chunk("sessions", Items(push)) :
                 /\ Chunk("sessions", Items(push))[i].kind = "sessions"
                 /\ \E j \in DOMAIN Chunk("sessions", Items(push))[i].items :
                       Chunk("sessions", Items(push))[i].items[j] = push[s]
<1> DEFINE items == Items(push)
           c == Chunk("sessions", items)
<1>1. items \in Seq(Item_)
  BY ItemsHasAll
<1>2. PICK k \in DOMAIN items : items[k] = push[s]
  <2>1. \A t \in ids : \E n \in DOMAIN Items(push) : Items(push)[n] = push[t]
    BY ItemsHasAll
  <2> QED BY <2>1
<1> HIDE DEF items
<1>3. /\ c \in Seq(Batch("sessions", Item_))
      /\ Carries(c, items[k])
  BY <1>1, ChunkHasAll
<1>4. PICK i \in DOMAIN c : \E j \in DOMAIN c[i].items : c[i].items[j] = items[k]
  BY <1>3 DEF Carries
<1> HIDE DEF c
<1>5. c[i] \in Batch("sessions", Item_)
  BY <1>3, ElementOfSeq
<1>6. c[i].kind = "sessions"
  BY <1>5 DEF Batch
<1>7. c \in Seq(Batch_)
  BY <1>3, SeqMonotonic DEF Batch_
<1> QED BY <1>2, <1>4, <1>6, <1>7 DEF c, items

\* Whatever is pushed, it is cut into batches.
LEMMA QueueOfPush ==
    ASSUME NEW ids \in SUBSET Ids, NEW push \in [ids -> Item_]
    PROVE  Chunk("sessions", Items(push)) \in Seq(Batch_)
<1>1. Items(push) \in Seq(Item_)
  BY ItemsHasAll
<1>2. Chunk("sessions", Items(push)) \in Seq(Batch("sessions", Item_))
  BY <1>1, ChunkHasAll
<1> QED BY <1>2, SeqMonotonic DEF Batch_

LEMMA DiffKeeps ==
    ASSUME SyncIInv, Track, NEW a \in Agents, Diff(a)
    PROVE  SyncIInv'
<1>1. pc[a] = "diff" /\ scan' = scan
  BY DEF Diff
<1>2. PICK hits \in IF ScanCached THEN SUBSET Changed(a) ELSE {{}},
           uploadFiles \in UploadFiles :
        LET raw(s) == Raw(a, s, s \in hits)
            gone == {s \in Changed(a) : raw(s) = NoRow}
            push == [s \in Changed(a) \ gone |->
                [id |-> s, text |-> raw(s),
                 files |-> IF uploadFiles THEN Attached[raw(s)] ELSE NoFiles,
                 summary |-> scan[a][s].summary]]
        IN  /\ missing' = [missing EXCEPT ![a] = gone]
            /\ queue' = [queue EXCEPT ![a] = Chunk("sessions", Items(push))]
            /\ want' = [want EXCEPT ![a] = [s \in Ids |->
                   IF s \in Changed(a) THEN raw(s) ELSE want[a][s]]]
  BY DEF Diff
<1> DEFINE raw(s) == Raw(a, s, s \in hits)
           gone == {s \in Changed(a) : raw(s) = NoRow}
           item(s) == [id |-> s, text |-> raw(s),
                       files |-> IF uploadFiles THEN Attached[raw(s)] ELSE NoFiles,
                       summary |-> scan[a][s].summary]
           pushed == Changed(a) \ gone
           push == [s \in pushed |-> item(s)]
<1>3. \A s \in Seen(a) : /\ s \in Ids /\ scan[a][s] \in Session_
                         /\ scan[a][s].hash = want[a][s] /\ want[a][s] \in Texts
  BY <1>1 DEF SyncIInv, Run, Runs, Seen
<1>4. \A s \in Changed(a) : s \in Seen(a) /\ raw(s) \in Texts \cup {NoRow}
  <2>1. HomeOf[a] \in Homes
    BY SyncAssumption
  <2>2. \A s \in Ids : Local(a)[s] \in Bytes \cup {Gone}
    BY <2>1 DEF SyncIInv, Machines, Local
  <2> QED BY <1>3, <2>2, SyncAssumption DEF Changed, Raw
<1>5. push \in [pushed -> Item_] /\ pushed \in SUBSET Ids
  <2>1. \A s \in pushed : item(s) \in Item_
    BY <1>3, <1>4 DEF Item_, Session_
  <2> QED BY <1>3, <1>4, <2>1
<1>6. /\ missing' = [missing EXCEPT ![a] = gone]
      /\ queue' = [queue EXCEPT ![a] = Chunk("sessions", Items(push))]
      /\ want' = [want EXCEPT ![a] = [s \in Ids |->
             IF s \in Changed(a) THEN raw(s) ELSE want[a][s]]]
  BY <1>2
<1>7. \A s \in pushed : push[s].id = s /\ push[s].text = raw(s)
  OBVIOUS
<1>8. pushed = Changed(a) \ gone /\ gone = {s \in Changed(a) : raw(s) = NoRow}
  OBVIOUS
<1> HIDE DEF raw, gone, push, pushed
<1>9. Runs'
  <2>1. pc' \in [Agents -> {"idle", "manifest", "diff"} \cup Past]
    BY DEF Diff, SyncIInv, Runs, Past
  <2>2. queue' \in [Agents -> Seq(Batch_)]
    BY <1>5, <1>6, QueueOfPush DEF SyncIInv, Runs
  <2>3. want' \in [Agents -> [Ids -> Texts \cup {NoRow}]]
    BY <1>4, <1>6 DEF SyncIInv, Runs
  <2>4. missing' \in [Agents -> SUBSET Ids]
    BY <1>3, <1>4, <1>6, <1>8 DEF SyncIInv, Runs
  <2> QED BY <2>1, <2>2, <2>3, <2>4 DEF Diff, SyncIInv, Runs
<1>10. Alone(a)
  BY <1>6 DEF Diff, SyncIInv, Runs, Alone, Same, Unmoved
<1>11. Requests' /\ Attempt(a)' /\ Tables'
  BY DEF Diff, SyncIInv, Requests, Attempt, Tables, tables
<1>12. Run(a)'
  <2>1. pc'[a] = "summaries" /\ tries'[a] < MaxAttempts
    BY DEF Diff, SyncIInv, Runs, Run
  <2>2. /\ missing'[a] = gone
        /\ queue'[a] = Chunk("sessions", Items(push))
        /\ \A s \in Ids : want'[a][s] = IF s \in Changed(a) THEN raw(s) ELSE want[a][s]
    BY <1>6 DEF SyncIInv, Runs
  <2>3. ASSUME NEW s \in Seen(a) \ gone
        PROVE  want'[a][s] \in held'[a][s] \/ Queued(a, s)'
    <3>1. CASE s \notin Changed(a)
      <4>1. manifest[a][s] = want[a][s] /\ want[a][s] \in Texts
        BY <1>3, <2>3, <3>1 DEF Changed
      <4>2. manifest[a][s] \in held[a][s]
        BY <1>1, <1>3, <2>3, <4>1, SyncAssumption DEF SyncIInv, Run
      <4>3. held[a][s] \subseteq held'[a][s]
        BY <1>3, <1>9, <1>11, <2>1, <2>3, TrackFacts
      <4> QED BY <1>3, <2>2, <2>3, <3>1, <4>1, <4>2, <4>3
    <3>2. CASE s \in Changed(a)
      <4>1. s \in pushed /\ want'[a][s] = raw(s)
        BY <1>3, <1>8, <2>2, <2>3, <3>2
      <4>2. PICK i \in DOMAIN queue'[a] : queue'[a][i].kind = "sessions" /\
               \E j \in DOMAIN queue'[a][i].items : queue'[a][i].items[j] = push[s]
        BY <1>5, <2>2, <4>1, QueuedOfPush
      <4> QED BY <1>7, <4>1, <4>2 DEF Queued
    <3> QED BY <3>1, <3>2
  <2> QED BY <1>1, <2>1, <2>2, <2>3 DEF Run, Past, Seen
<1> QED BY <1>9, <1>10, <1>11, <1>12, RunStepKeeps DEF Diff, SyncIInv, Tables, Alone

\* What is queued stays queued when more is queued behind it.
LEMMA QueuedBehind ==
    ASSUME NEW q \in Seq(Batch_), NEW more \in Seq(Batch_)
    PROVE  /\ q \o more \in Seq(Batch_)
           /\ \A i \in DOMAIN q : i \in DOMAIN (q \o more) /\ (q \o more)[i] = q[i]
<1>1. /\ Len(q \o more) = Len(q) + Len(more) /\ q \o more \in Seq(Batch_)
      /\ \A i \in 1..Len(q) + Len(more) :
            (q \o more)[i] = IF i <= Len(q) THEN q[i] ELSE more[i - Len(q)]
  BY ConcatProperties
<1>2. /\ DOMAIN q = 1..Len(q) /\ Len(q) \in Nat /\ Len(more) \in Nat
      /\ DOMAIN (q \o more) = 1..(Len(q) + Len(more))
  BY <1>1
<1> QED BY <1>1, <1>2

LEMMA DiffSummariesKeeps ==
    ASSUME SyncIInv, Track, NEW a \in Agents, DiffSummaries(a)
    PROVE  SyncIInv'
<1> DEFINE stale == StaleSummaries(a)
           push == [s \in stale |-> [id |-> s, summary |-> scan[a][s].summary]]
           more == Chunk("summaries", Items(push))
<1>1. /\ pc[a] = "summaries" /\ pc' = [pc EXCEPT ![a] = "push"]
      /\ manifest' = [manifest EXCEPT ![a] = NothingKnown]
      /\ UNCHANGED <<tables, req, localVars, scan, missing, tries, conn, failed, want>>
  BY DEF DiffSummaries
<1>2. \/ queue' = [queue EXCEPT ![a] = @ \o more] /\ faults' = faults
      \/ queue' = queue /\ faults < MaxFaults /\ faults' = faults + 1
  BY DEF DiffSummaries
<1>3. stale \in SUBSET Ids /\ push \in [stale -> SummaryItem_]
  <2>1. \A s \in stale : s \in Ids /\ scan[a][s].summary \in Summaries
    BY DEF StaleSummaries, Seen, SyncIInv, Runs, Session_
  <2> QED BY <2>1 DEF SummaryItem_
<1> HIDE DEF push, stale
<1>4. more \in Seq(Batch_)
  <2>1. Items(push) \in Seq(SummaryItem_)
    BY <1>3, ItemsHasAll
  <2>2. more \in Seq(Batch("summaries", SummaryItem_))
    BY <2>1, ChunkHasAll
  <2> QED BY <2>2, SeqMonotonic DEF Batch_
<1> HIDE DEF more
<1>5. queue[a] \in Seq(Batch_)
  BY DEF SyncIInv, Runs
<1>6. /\ queue' \in [Agents -> Seq(Batch_)]
      /\ \A i \in DOMAIN queue[a] : i \in DOMAIN queue'[a] /\ queue'[a][i] = queue[a][i]
      /\ \A b \in Agents : b # a => queue'[b] = queue[b]
  <2>1. CASE queue' = queue
    BY <2>1 DEF SyncIInv, Runs
  <2>2. CASE queue' = [queue EXCEPT ![a] = queue[a] \o more]
    <3>1. queue'[a] = queue[a] \o more
      BY <2>2 DEF SyncIInv, Runs
    <3>2. queue[a] \o more \in Seq(Batch_)
      BY <1>4, <1>5, QueuedBehind
    <3>3. queue' \in [Agents -> Seq(Batch_)] /\ \A b \in Agents : b # a => queue'[b] = queue[b]
      BY <2>2, <3>2 DEF SyncIInv, Runs
    <3> QED BY <1>4, <1>5, <3>1, <3>3, QueuedBehind
  <2> QED BY <1>2, <2>1, <2>2
<1>7. Runs'
  <2>1. pc' \in [Agents -> {"idle", "manifest", "diff"} \cup Past]
    BY <1>1 DEF SyncIInv, Runs, Past
  <2>2. manifest' \in [Agents -> [Ids -> Texts \cup {NoRow}]]
    BY <1>1 DEF SyncIInv, Runs, NothingKnown
  <2> QED BY <1>1, <1>6, <2>1, <2>2 DEF SyncIInv, Runs
<1>8. Alone(a)
  BY <1>1, <1>6 DEF SyncIInv, Runs, Alone, Same, Unmoved
<1>9. Requests' /\ Attempt(a)' /\ faults' \in 0..MaxFaults
  <2>1. faults' \in 0..MaxFaults
    BY <1>2, FaultsAssumption DEF SyncIInv, Tables
  <2> QED BY <1>1, <2>1 DEF SyncIInv, Requests, Attempt
<1>10. Tables'
  BY <1>1, <1>9 DEF SyncIInv, Tables, tables
<1>11. Run(a)'
  <2>1. pc'[a] = "push" /\ tries'[a] < MaxAttempts
    BY <1>1 DEF SyncIInv, Runs, Run
  <2>2. ASSUME NEW s \in Seen(a) \ missing[a], ~failed[a]
        PROVE  want'[a][s] \in held'[a][s] \/ Queued(a, s)'
    <3>1. want[a][s] \in held[a][s] \/ Queued(a, s)
      BY <1>1, <2>2 DEF SyncIInv, Run, Past
    <3>2. held[a][s] \subseteq held'[a][s]
      BY <1>7, <1>10, <2>1, <2>2, TrackFacts DEF Seen
    <3>3. Queued(a, s) => Queued(a, s)'
      BY <1>1, <1>6 DEF Queued
    <3> QED BY <1>1, <3>1, <3>2, <3>3
  <2> QED BY <1>1, <2>1, <2>2 DEF Run, Past, Seen
<1> QED BY <1>1, <1>7, <1>8, <1>9, <1>11, RunStepKeeps DEF Alone

\* A request as it arrives: none of its items is handled yet.
LEMMA RequestIsNew ==
    ASSUME NEW a \in Agents, NEW b \in Batch_
    PROVE  /\ RequestOK(NewRequest(a, b.kind, b.items))
           /\ \A since : Stored(NewRequest(a, b.kind, b.items), since)
<1> DEFINE q == NewRequest(a, b.kind, b.items)
<1>1. b.kind \in {"sessions", "summaries"} /\ b.items \in Seq(Item_ \cup SummaryItem_)
  BY BatchFacts
<1>2. /\ q.owner = a /\ q.kind = b.kind /\ q.batch = b.items /\ q.pos = 1
      /\ q.stage = "row" /\ q.failed = FALSE /\ q.reply = "none"
  BY DEF NewRequest
<1>3. q \in Request_
  BY <1>1 DEF NewRequest, Request_
<1>4. [kind |-> b.kind, items |-> b.items] \in Batch_
  BY DEF Batch_, Batch
<1>5. Len(b.items) \in Nat /\ DOMAIN b.items = 1..Len(b.items)
  BY <1>1
<1> HIDE DEF q
<1>6. RequestOK(q)
  BY <1>2, <1>3, <1>4, <1>5 DEF RequestOK
<1>7. \A since : Stored(q, since)
  BY <1>2, <1>5 DEF Stored, Done
<1> QED BY <1>6, <1>7 DEF q

LEMMA SendKeeps ==
    ASSUME SyncIInv, Track, NEW a \in Agents, Send(a)
    PROVE  SyncIInv'
<1> DEFINE b == Head(queue[a])
           q == NewRequest(a, b.kind, b.items)
<1>1. /\ pc[a] = "push" /\ queue[a] # <<>> /\ pc' = [pc EXCEPT ![a] = "await"]
      /\ tries' = [tries EXCEPT ![a] = @ + 1]
      /\ UNCHANGED <<tables, faults, localVars, scan, manifest, missing, queue, failed, want>>
  BY DEF Send
<1>2. PICK h \in Slots : /\ req[h] = Free
                         /\ req' = [req EXCEPT ![h] = q]
                         /\ conn' = [conn EXCEPT ![a] = h]
  BY DEF Send
<1>3. b \in Batch_
  BY <1>1, HeadTailProperties DEF SyncIInv, Runs
<1>4. RequestOK(q) /\ q # Free /\ q.owner = a /\ q.kind = b.kind /\ q.batch = b.items
      /\ \A since : Stored(q, since)
  <2>1. RequestOK(q) /\ \A since : Stored(q, since)
    BY <1>3, RequestIsNew
  <2> QED BY <2>1, RequestFacts DEF NewRequest
<1> HIDE DEF q, b
<1>5. conn[a] = NoSlot
  BY <1>1 DEF SyncIInv, Attempt
<1>6. /\ req' \in [Slots -> Request_ \cup {Free}] /\ req'[h] = q
      /\ \A g \in Slots : g # h => req'[g] = req[g]
      /\ conn'[a] = h /\ \A c \in Agents : c # a => conn'[c] = conn[c]
  BY <1>2, <1>4, RequestFacts DEF SyncIInv, Requests, Runs
<1>7. Runs'
  <2>1. pc' \in [Agents -> {"idle", "manifest", "diff"} \cup Past]
    BY <1>1 DEF SyncIInv, Runs, Past
  <2>2. tries' \in [Agents -> 0..MaxAttempts]
    <3>1. tries[a] \in 0..MaxAttempts /\ tries[a] < MaxAttempts
      BY <1>1 DEF SyncIInv, Runs, Run
    <3>2. tries[a] + 1 \in 0..MaxAttempts
      BY <3>1, SyncAssumption
    <3> QED BY <1>1, <3>2 DEF SyncIInv, Runs
  <2>3. conn' \in [Agents -> Slots \cup {NoSlot}]
    BY <1>2 DEF SyncIInv, Runs
  <2> QED BY <1>1, <2>1, <2>2, <2>3 DEF SyncIInv, Runs
<1>8. Alone(a)
  <2>1. ASSUME NEW c \in Agents, c # a, conn[c] # NoSlot
        PROVE  req'[conn[c]] = req[conn[c]]
    BY <1>2, <1>6, <2>1 DEF SyncIInv, Attempt
  <2> QED BY <1>1, <1>6, <2>1 DEF SyncIInv, Runs, Alone, Same, Unmoved
<1>9. Requests'
  <2>1. ASSUME NEW g \in Slots, req'[g] # Free
        PROVE  RequestOK(req'[g]) /\ (req'[g].owner # Nobody => conn'[req'[g].owner] = g)
    <3>1. CASE g = h
      BY <1>4, <1>6, <3>1
    <3>2. CASE g # h
      <4>1. RequestOK(req[g]) /\ req'[g] = req[g]
            /\ (req[g].owner # Nobody => conn[req[g].owner] = g)
        BY <1>6, <2>1, <3>2 DEF SyncIInv, Requests
      <4>2. req[g].owner \in Agents \cup {Nobody}
        BY <4>1 DEF RequestOK, Request_
      <4> QED BY <1>5, <1>6, <4>1, <4>2, SyncAssumption
    <3> QED BY <3>1, <3>2
  <2> QED BY <1>6, <2>1 DEF Requests
<1>10. pc'[a] = "await" /\ queue'[a] = queue[a]
  BY <1>1 DEF SyncIInv, Runs
<1>11. Attempt(a)'
  BY <1>1, <1>4, <1>6, <1>10 DEF Attempt, b
<1>12. Tables'
  BY <1>1 DEF SyncIInv, Tables, tables
<1>13. Run(a)'
  <2>1. tries'[a] > 0
    BY <1>1 DEF SyncIInv, Runs
  <2>2. ASSUME NEW s \in Seen(a) \ missing[a], ~failed[a]
        PROVE  want'[a][s] \in held'[a][s] \/ Queued(a, s)'
    <3>1. want[a][s] \in held[a][s] \/ Queued(a, s)
      BY <1>1, <2>2 DEF SyncIInv, Run, Past
    <3>2. held[a][s] \subseteq held'[a][s]
      BY <1>7, <1>10, <1>12, <2>2, TrackFacts DEF Seen
    <3>3. Queued(a, s) => Queued(a, s)'
      BY <1>1 DEF Queued
    <3> QED BY <1>1, <3>1, <3>2, <3>3
  <2> QED BY <1>1, <1>10, <2>1, <2>2 DEF Run, Past, Seen
<1>14. faults' \in 0..MaxFaults
  BY <1>12 DEF Tables
<1> QED BY <1>1, <1>7, <1>8, <1>9, <1>11, <1>13, <1>14, RunStepKeeps DEF Alone

\* A run no longer waits for its attempt: the slot is free, or the request is
\* nobody's.
Leaves(a) ==
    /\ conn' = [conn EXCEPT ![a] = NoSlot]
    /\ \/ conn[a] = NoSlot /\ req' = req
       \/ conn[a] # NoSlot /\ req' = [req EXCEPT ![conn[a]] = Free]
       \/ conn[a] # NoSlot /\ req' = [req EXCEPT ![conn[a]].owner = Nobody]

LEMMA LeavesAlone ==
    ASSUME SyncIInv, NEW a \in Agents, Leaves(a)
    PROVE  /\ Requests'
           /\ conn' \in [Agents -> Slots \cup {NoSlot}] /\ conn'[a] = NoSlot
           /\ \A b \in Agents : b # a => conn'[b] = conn[b]
                                         /\ (conn[b] # NoSlot => req'[conn[b]] = req[conn[b]])
<1>1. /\ conn' \in [Agents -> Slots \cup {NoSlot}] /\ conn'[a] = NoSlot
      /\ \A b \in Agents : b # a => conn'[b] = conn[b]
  BY DEF Leaves, SyncIInv, Runs
<1>2. /\ req \in [Slots -> Request_ \cup {Free}]
      /\ \A g \in Slots : req[g] # Free =>
            /\ RequestOK(req[g]) /\ req[g].owner \in Agents \cup {Nobody}
            /\ req[g].owner # Nobody => conn[req[g].owner] = g
  BY DEF SyncIInv, Requests, RequestOK, Request_
<1>3. \A b \in Agents : conn[b] # NoSlot => conn[b] \in Slots /\ req[conn[b]].owner = b
                                            /\ req[conn[b]] # Free
  BY DEF SyncIInv, Attempt
<1>4. CASE conn[a] = NoSlot /\ req' = req
  <2>1. Requests'
    BY <1>1, <1>2, <1>4, SyncAssumption DEF Requests
  <2> QED BY <1>1, <1>4, <2>1
<1>5. ASSUME conn[a] # NoSlot, NEW v \in Request_ \cup {Free},
             req' = [req EXCEPT ![conn[a]] = v],
             v # Free => RequestOK(v) /\ v.owner = Nobody
      PROVE  /\ Requests'
             /\ \A b \in Agents : b # a /\ conn[b] # NoSlot => req'[conn[b]] = req[conn[b]]
  <2>1. /\ req' \in [Slots -> Request_ \cup {Free}] /\ req'[conn[a]] = v
        /\ \A g \in Slots : g # conn[a] => req'[g] = req[g]
    BY <1>2, <1>3, <1>5
  <2>2. ASSUME NEW g \in Slots, req'[g] # Free
        PROVE  RequestOK(req'[g]) /\ (req'[g].owner # Nobody => conn'[req'[g].owner] = g)
    <3>1. CASE g = conn[a]
      BY <1>5, <2>1, <2>2, <3>1
    <3>2. CASE g # conn[a]
      BY <1>1, <1>2, <2>1, <2>2, <3>2
    <3> QED BY <3>1, <3>2
  <2>3. Requests'
    BY <2>1, <2>2 DEF Requests
  <2> QED BY <1>3, <2>1, <2>3
<1>6. CASE conn[a] # NoSlot /\ req' = [req EXCEPT ![conn[a]] = Free]
  BY <1>1, <1>5, <1>6
<1>7. CASE conn[a] # NoSlot /\ req' = [req EXCEPT ![conn[a]].owner = Nobody]
  <2> DEFINE q == req[conn[a]]
             v == [q EXCEPT !.owner = Nobody]
  <2>1. RequestOK(q)
    BY <1>2, <1>3, <1>7
  <2>2. /\ v \in Request_ /\ v.owner = Nobody /\ v.kind = q.kind /\ v.batch = q.batch
        /\ v.pos = q.pos /\ v.stage = q.stage /\ v.failed = q.failed /\ v.reply = q.reply
    BY <2>1 DEF RequestOK, Request_
  <2>3. req' = [req EXCEPT ![conn[a]] = v]
    BY <1>7
  <2> HIDE DEF v, q
  <2>4. RequestOK(v)
    BY <2>1, <2>2 DEF RequestOK
  <2> QED BY <1>1, <1>5, <1>7, <2>2, <2>3, <2>4
<1> QED BY <1>4, <1>6, <1>7 DEF Leaves

\* An attempt that failed is made again, or the run has failed and gives up.
LEMMA AttemptFailedKeeps ==
    ASSUME SyncIInv, Track, NEW a \in Agents, pc[a] = "await", AttemptFailed(a), Leaves(a),
           UNCHANGED <<tables, localVars, scan, manifest, missing, want>>,
           faults' \in 0..MaxFaults
    PROVE  SyncIInv'
<1>1. /\ pc' = [pc EXCEPT ![a] = "push"]
      /\ \/ tries[a] < MaxAttempts /\ UNCHANGED <<queue, tries, failed>>
         \/ /\ queue' = [queue EXCEPT ![a] = <<>>] /\ tries' = [tries EXCEPT ![a] = 0]
            /\ failed' = [failed EXCEPT ![a] = TRUE]
  BY DEF AttemptFailed
<1>2. Runs'
  <2>1. pc' \in [Agents -> {"idle", "manifest", "diff"} \cup Past]
    BY <1>1 DEF SyncIInv, Runs, Past
  <2>2. queue' \in [Agents -> Seq(Batch_)]
    <3>1. queue' = queue \/ queue' = [queue EXCEPT ![a] = <<>>]
      BY <1>1
    <3>2. queue \in [Agents -> Seq(Batch_)] /\ <<>> \in Seq(Batch_)
      BY DEF SyncIInv, Runs
    <3> QED BY <3>1, <3>2
  <2>3. tries' \in [Agents -> 0..MaxAttempts] /\ failed' \in [Agents -> BOOLEAN]
    <3>1. /\ tries' = tries \/ tries' = [tries EXCEPT ![a] = 0]
          /\ failed' = failed \/ failed' = [failed EXCEPT ![a] = TRUE]
      BY <1>1
    <3>2. 0 \in 0..MaxAttempts
      BY SyncAssumption
    <3>3. tries' \in [Agents -> 0..MaxAttempts]
      BY <3>1, <3>2 DEF SyncIInv, Runs
    <3>4. failed' \in [Agents -> BOOLEAN]
      BY <3>1 DEF SyncIInv, Runs
    <3> QED BY <3>3, <3>4
  <2>4. conn' \in [Agents -> Slots \cup {NoSlot}]
    BY LeavesAlone
  <2> QED BY <2>1, <2>2, <2>3, <2>4 DEF SyncIInv, Runs
<1>3. Alone(a)
  BY <1>1, LeavesAlone DEF SyncIInv, Runs, Alone, Same, Unmoved
<1>4. Requests' /\ Attempt(a)'
  BY LeavesAlone DEF Attempt
<1>5. Tables'
  BY DEF SyncIInv, Tables, tables
<1>6. pc'[a] = "push"
  BY <1>1 DEF SyncIInv, Runs
<1>7. Run(a)'
  <2>1. CASE tries[a] < MaxAttempts /\ UNCHANGED <<queue, tries, failed>>
    <3>1. ASSUME NEW s \in Seen(a) \ missing[a], ~failed[a]
          PROVE  want'[a][s] \in held'[a][s] \/ Queued(a, s)'
      <4>1. want[a][s] \in held[a][s] \/ Queued(a, s)
        BY <3>1 DEF SyncIInv, Run, Past
      <4>2. held[a][s] \subseteq held'[a][s]
        BY <1>2, <1>5, <1>6, <3>1, TrackFacts DEF Seen
      <4>3. Queued(a, s) => Queued(a, s)'
        BY <2>1 DEF Queued
      <4> QED BY <4>1, <4>2, <4>3
    <3> QED BY <1>6, <2>1, <3>1 DEF Run, Past, Seen
  <2>2. CASE /\ queue' = [queue EXCEPT ![a] = <<>>] /\ tries' = [tries EXCEPT ![a] = 0]
             /\ failed' = [failed EXCEPT ![a] = TRUE]
    <3>1. failed'[a] = TRUE /\ tries'[a] = 0
      BY <2>2 DEF SyncIInv, Runs
    <3> QED BY <1>6, <3>1, SyncAssumption DEF Run, Past
  <2> QED BY <1>1, <2>1, <2>2
<1> QED BY <1>2, <1>3, <1>4, <1>7, RunStepKeeps DEF Alone

\* A run ends, or is ended: it knows and owes nothing.
LEMMA ExitKeeps ==
    ASSUME SyncIInv, Track, NEW a \in Agents, Exit(a), Leaves(a),
           UNCHANGED <<tables, localVars>>, faults' \in 0..MaxFaults
    PROVE  SyncIInv'
<1>1. Runs'
  <2>1. scan' \in [Agents -> [Ids -> Session_ \cup {Unseen}]]
    BY DEF Exit, NothingScanned, SyncIInv, Runs
  <2>2. manifest' \in [Agents -> [Ids -> Texts \cup {NoRow}]]
        /\ want' \in [Agents -> [Ids -> Texts \cup {NoRow}]]
    BY DEF Exit, NothingKnown, SyncIInv, Runs
  <2>3. /\ pc' \in [Agents -> {"idle", "manifest", "diff"} \cup Past]
        /\ missing' \in [Agents -> SUBSET Ids]
        /\ queue' \in [Agents -> Seq(Batch_)]
        /\ failed' \in [Agents -> BOOLEAN]
    BY DEF Exit, SyncIInv, Runs
  <2>4. tries' \in [Agents -> 0..MaxAttempts]
    BY SyncAssumption DEF Exit, SyncIInv, Runs
  <2>5. conn' \in [Agents -> Slots \cup {NoSlot}]
    BY LeavesAlone
  <2> QED BY <2>1, <2>2, <2>3, <2>4, <2>5 DEF Runs
<1>2. Alone(a)
  BY LeavesAlone DEF Exit, SyncIInv, Runs, Alone, Same, Unmoved
<1>3. Requests' /\ Attempt(a)'
  BY LeavesAlone DEF Attempt
<1>4. Run(a)'
  <2>1. pc'[a] = "idle" /\ tries'[a] = 0
    BY DEF Exit, SyncIInv, Runs
  <2> QED BY <2>1, SyncAssumption DEF Run, Past
<1> QED BY <1>1, <1>2, <1>3, <1>4, RunStepKeeps DEF Alone

\* The attempt a run waits for is at the server, or was lost with it.
LEMMA AbandonedLeaves ==
    ASSUME SyncIInv, NEW a \in Agents, conn[a] # NoSlot, Abandoned(conn[a]),
           conn' = [conn EXCEPT ![a] = NoSlot]
    PROVE  Leaves(a)
BY DEF Abandoned, Leaves

LEMMA ReceiveErrorKeeps ==
    ASSUME SyncIInv, Track, NEW a \in Agents, ReceiveError(a)
    PROVE  SyncIInv'
<1>1. Leaves(a)
  BY DEF ReceiveError, AttemptFailed, Answered, Leaves
<1>2. faults' \in 0..MaxFaults
  BY DEF ReceiveError, SyncIInv, Tables
<1> QED BY <1>1, <1>2, AttemptFailedKeeps DEF ReceiveError, Answered

LEMMA ConnectionLostKeeps ==
    ASSUME SyncIInv, Track, NEW a \in Agents, ConnectionLost(a)
    PROVE  SyncIInv'
<1>1. Leaves(a)
  BY DEF ConnectionLost, AttemptFailed, Leaves
<1>2. faults' \in 0..MaxFaults
  BY DEF ConnectionLost, SyncIInv, Tables
<1> QED BY <1>1, <1>2, AttemptFailedKeeps DEF ConnectionLost

LEMMA TimeOutKeeps ==
    ASSUME SyncIInv, Track, NEW a \in Agents, TimeOut(a)
    PROVE  SyncIInv'
<1>1. Leaves(a)
  BY AbandonedLeaves DEF TimeOut, AttemptFailed
<1>2. faults' \in 0..MaxFaults
  BY FaultsAssumption DEF TimeOut, SyncIInv, Tables
<1> QED BY <1>1, <1>2, AttemptFailedKeeps DEF TimeOut

LEMMA ManifestFailsKeeps ==
    ASSUME SyncIInv, Track, NEW a \in Agents, ManifestFails(a)
    PROVE  SyncIInv'
<1>1. conn[a] = NoSlot
  BY DEF ManifestFails, SyncIInv, Attempt
<1>2. Leaves(a)
  BY <1>1 DEF ManifestFails, Exit, Leaves
<1>3. faults' \in 0..MaxFaults
  BY FaultsAssumption DEF ManifestFails, SyncIInv, Tables
<1> QED BY <1>2, <1>3, ExitKeeps DEF ManifestFails

LEMMA FinishKeeps ==
    ASSUME SyncIInv, Track, NEW a \in Agents, Finish(a)
    PROVE  SyncIInv'
<1>1. conn[a] = NoSlot
  BY DEF Finish, SyncIInv, Attempt
<1>2. Leaves(a)
  BY <1>1 DEF Finish, Exit, Leaves
<1>3. faults' \in 0..MaxFaults
  BY DEF Finish, SyncIInv, Tables
<1> QED BY <1>2, <1>3, ExitKeeps DEF Finish

LEMMA AgentCrashKeeps ==
    ASSUME SyncIInv, Track, NEW a \in Agents, AgentCrash(a)
    PROVE  SyncIInv'
<1>1. Leaves(a)
  <2>1. conn' = [conn EXCEPT ![a] = NoSlot]
    BY DEF AgentCrash, Exit
  <2>2. CASE conn[a] = NoSlot
    BY <2>1, <2>2 DEF AgentCrash, Leaves
  <2>3. CASE conn[a] # NoSlot
    BY <2>1, <2>3, AbandonedLeaves DEF AgentCrash
  <2> QED BY <2>2, <2>3
<1>2. faults' \in 0..MaxFaults
  BY FaultsAssumption DEF AgentCrash, SyncIInv, Tables
<1> QED BY <1>1, <1>2, ExitKeeps DEF AgentCrash

\* The first batch is answered for: what it carried is stored, or the run has
\* failed; what else is queued stays queued.
LEMMA ReceiveCountsKeeps ==
    ASSUME SyncIInv, Track, NEW a \in Agents, ReceiveCounts(a)
    PROVE  SyncIInv'
<1> DEFINE q == req[conn[a]]
<1>1. /\ pc[a] = "await" /\ conn[a] # NoSlot /\ q.reply = "ok"
      /\ failed' = [failed EXCEPT ![a] = @ \/ q.failed]
      /\ queue' = [queue EXCEPT ![a] = Tail(@)]
      /\ tries' = [tries EXCEPT ![a] = 0]
      /\ conn' = [conn EXCEPT ![a] = NoSlot]
      /\ req' = [req EXCEPT ![conn[a]] = Free]
      /\ pc' = [pc EXCEPT ![a] = "push"]
      /\ UNCHANGED <<tables, faults, localVars, scan, manifest, missing, want>>
  BY DEF ReceiveCounts, Answered
<1>2. /\ queue[a] # <<>> /\ q.kind = Head(queue[a]).kind /\ q.batch = Head(queue[a]).items
      /\ Stored(q, held[a])
  BY <1>1 DEF SyncIInv, Attempt
<1>3. RequestOK(q)
  BY <1>1 DEF SyncIInv, Attempt, Requests
<1>4. q.failed \in BOOLEAN /\ q.pos = Len(q.batch) + 1
  BY <1>1, <1>3 DEF RequestOK, Request_
<1>5. \A j \in DOMAIN q.batch : q.kind = "sessions" /\ ~q.failed =>
        q.batch[j].text \in held[a][q.batch[j].id]
  <2>1. \A j \in DOMAIN q.batch : j < q.pos
    BY <1>3, <1>4, RequestFacts
  <2> QED BY <1>2, <2>1 DEF Stored, Done
<1> HIDE DEF q
<1>6. /\ queue[a] \in Seq(Batch_) /\ Tail(queue[a]) \in Seq(Batch_)
      /\ Len(queue[a]) \in Nat /\ DOMAIN queue[a] = 1..Len(queue[a])
      /\ queue[a][1] = Head(queue[a])
      /\ DOMAIN Tail(queue[a]) = 1..(Len(queue[a]) - 1)
      /\ \A i \in 1..(Len(queue[a]) - 1) : Tail(queue[a])[i] = queue[a][i + 1]
  <2>1. queue[a] \in Seq(Batch_)
    BY DEF SyncIInv, Runs
  <2>2. /\ Tail(queue[a]) \in Seq(Batch_) /\ Len(Tail(queue[a])) = Len(queue[a]) - 1
        /\ \A i \in 1..Len(Tail(queue[a])) : Tail(queue[a])[i] = queue[a][i + 1]
    BY <1>2, <2>1, HeadTailProperties
  <2>3. queue[a][1] = Head(queue[a]) /\ Len(queue[a]) \in Nat /\ DOMAIN queue[a] = 1..Len(queue[a])
    BY <1>2, <2>1
  <2>4. DOMAIN Tail(queue[a]) = 1..Len(Tail(queue[a]))
    BY <2>2
  <2> QED BY <2>1, <2>2, <2>3, <2>4
<1>7. Runs'
  <2>1. pc' \in [Agents -> {"idle", "manifest", "diff"} \cup Past]
    BY <1>1 DEF SyncIInv, Runs, Past
  <2>2. queue' \in [Agents -> Seq(Batch_)]
    BY <1>1, <1>6 DEF SyncIInv, Runs
  <2>3. tries' \in [Agents -> 0..MaxAttempts]
    BY <1>1, SyncAssumption DEF SyncIInv, Runs
  <2>4. failed' \in [Agents -> BOOLEAN]
    BY <1>1, <1>4 DEF SyncIInv, Runs
  <2>5. conn' \in [Agents -> Slots \cup {NoSlot}]
    BY <1>1 DEF SyncIInv, Runs
  <2> QED BY <1>1, <2>1, <2>2, <2>3, <2>4, <2>5 DEF SyncIInv, Runs
<1>8. Leaves(a)
  BY <1>1 DEF Leaves
<1>9. Alone(a)
  BY <1>1, <1>8, LeavesAlone DEF SyncIInv, Runs, Alone, Same, Unmoved
<1>10. Requests' /\ Attempt(a)'
  BY <1>8, LeavesAlone DEF Attempt
<1>11. Tables'
  BY <1>1 DEF SyncIInv, Tables, tables
<1>12. /\ pc'[a] = "push" /\ tries'[a] = 0 /\ queue'[a] = Tail(queue[a])
       /\ failed'[a] = (failed[a] \/ q.failed)
  BY <1>1 DEF SyncIInv, Runs
<1>13. Run(a)'
  <2>1. ASSUME NEW s \in Seen(a) \ missing[a], ~failed[a], ~q.failed
        PROVE  want'[a][s] \in held'[a][s] \/ Queued(a, s)'
    <3>1. want[a][s] \in held[a][s] \/ Queued(a, s)
      BY <1>1, <2>1 DEF SyncIInv, Run, Past
    <3>2. held[a][s] \subseteq held'[a][s] /\ want'[a][s] = want[a][s]
      BY <1>1, <1>7, <1>11, <1>12, <2>1, TrackFacts DEF Seen
    <3>3. CASE Queued(a, s)
      <4>1. PICK i \in DOMAIN queue[a] : queue[a][i].kind = "sessions" /\
              \E j \in DOMAIN queue[a][i].items :
                 queue[a][i].items[j].id = s /\ queue[a][i].items[j].text = want[a][s]
        BY <3>3 DEF Queued
      <4>2. CASE i = 1
        <5>1. want[a][s] \in held[a][s]
          BY <1>2, <1>5, <1>6, <2>1, <4>1, <4>2
        <5> QED BY <3>2, <5>1
      <4>3. CASE i # 1
        <5>1. i - 1 \in DOMAIN Tail(queue[a]) /\ Tail(queue[a])[i - 1] = queue[a][i]
          BY <1>6, <4>1, <4>3
        <5> QED BY <1>12, <3>2, <4>1, <5>1 DEF Queued
      <4> QED BY <4>2, <4>3
    <3> QED BY <3>1, <3>2, <3>3
  <2>2. failed'[a] = FALSE => ~failed[a] /\ ~q.failed
    BY <1>4, <1>12
  <2> QED BY <1>1, <1>12, <2>1, <2>2, SyncAssumption DEF Run, Past, Seen
<1>14. faults' \in 0..MaxFaults
  BY <1>11 DEF Tables
<1> QED BY <1>1, <1>7, <1>9, <1>10, <1>13, <1>14, RunStepKeeps DEF Alone

\* Every request is gone, and every run waits for an answer that will not come.
LEMMA ServerCrashKeeps ==
    ASSUME SyncIInv, Track, ServerCrash
    PROVE  SyncIInv'
<1>1. Tables' /\ Machines'
  BY FaultsAssumption DEF ServerCrash, SyncIInv, Tables, Machines, tables, localVars
<1>2. Runs' /\ Requests'
  BY DEF ServerCrash, SyncIInv, Runs, Requests
<1>3. Histories'
  BY <1>1, <1>2, TrackFacts
<1>4. ASSUME NEW a \in Agents PROVE Attempt(a)' /\ Run(a)'
  <2>1. Unmoved(a) /\ conn'[a] = NoSlot
    BY DEF ServerCrash, Unmoved
  <2> QED BY <1>1, <1>2, <2>1, SameKeepsRun DEF Attempt
<1> QED BY <1>1, <1>2, <1>3, <1>4 DEF SyncIInv

LEMMA NothingToDoKeeps ==
    ASSUME SyncIInv, Track, NEW a \in Agents, NothingToDo(a)
    PROVE  SyncIInv'
<1>1. Machines'
  BY DEF NothingToDo, SyncIInv, Machines, localVars
<1> QED BY <1>1, NothingMovesKeeps DEF NothingToDo

-------------------------------------------------------------------------------
(* The theorems. *)

LEMMA InitIInv ==
    ASSUME Init
    PROVE  SyncIInv
<1>1. Tables /\ Machines
  BY SyncAssumption, FaultsAssumption
     DEF Init, ServerInit, NothingRunning, NothingKnown, Tables, Machines, Files_
<1>2. Runs /\ Histories
  BY SyncAssumption
     DEF Init, NothingRunning, NothingScanned, NothingKnown, Runs, Histories
<1>3. Requests
  BY DEF Init, ServerInit, Requests
<1>4. ASSUME NEW a \in Agents PROVE Attempt(a) /\ Run(a)
  <2>1. pc[a] = "idle" /\ tries[a] = 0 /\ conn[a] = NoSlot
    BY DEF Init, NothingRunning
  <2> QED BY <2>1, SyncAssumption DEF Attempt, Run, Past
<1> QED BY <1>1, <1>2, <1>3, <1>4 DEF SyncIInv

LEMMA NextKeepsIInv ==
    ASSUME SyncIInv, [Next]_vars
    PROVE  SyncIInv'
<1>1. CASE UNCHANGED vars
  BY <1>1 DEF vars, tables, localVars, runVars, SyncIInv, Tables, Machines, Runs,
              Histories, Requests, Attempt, Run, Seen, Queued
<1>2. ASSUME NEW m \in Homes, NEW s \in Ids, EditTranscript(m, s) \/ EditAnalysis(m, s), Track
      PROVE  SyncIInv'
  BY <1>2, EditKeeps
<1>3. ASSUME NEW a \in Agents, Track,
             RunStep(a) \/ ManifestFails(a) \/ TimeOut(a) \/ AgentCrash(a)
      PROVE  SyncIInv'
  BY <1>3, NothingToDoKeeps, BeginKeeps, FetchManifestKeeps, DiffKeeps, DiffSummariesKeeps,
     SendKeeps, ReceiveCountsKeeps, ReceiveErrorKeeps, ConnectionLostKeeps, FinishKeeps,
     ManifestFailsKeeps, TimeOutKeeps, AgentCrashKeeps DEF RunStep
<1>4. ASSUME NEW h \in Slots, HandlerStep(h) /\ UNCHANGED <<localVars, runVars>>, Track
      PROVE  SyncIInv'
  BY <1>4, HandlerStepKeeps
<1>5. CASE Next
  BY <1>2, <1>3, <1>4, <1>5, ServerCrashKeeps DEF Next, Step
<1> QED BY <1>1, <1>5

\* Whatever the runs, the handlers, the failures and the edits do between two
\* of each other's steps: a request is handled for the run that waits for it,
\* item by item, and a run that has not failed has each session it vouches for
\* behind it, in the store, or still before it, in a batch.
THEOREM SyncInvariant == Spec => []SyncIInv
<1> QED BY InitIInv, NextKeepsIInv, PTL DEF Spec

\* The tables, the queues and the requests hold what they are made for; a
\* request has one run that waits for it, or none.
THEOREM SyncTypeOK == Spec => []TypeOK
<1>1. ASSUME SyncIInv PROVE TypeOK
  <2>1. \A b \in Batch_ : BatchOK(b.kind, b.items)
    <3>1. ASSUME NEW b \in Batch_, NEW i \in DOMAIN b.items
          PROVE  b.items[i] \in IF b.kind = "sessions" THEN Item_ ELSE SummaryItem_
      BY <3>1, BatchFacts, ElementOfSeq
    <3> QED BY <3>1 DEF BatchOK
  <2>2. ASSUME NEW a \in Agents
        PROVE  /\ pc[a] \in {"idle", "manifest", "diff", "summaries", "push", "await"}
               /\ pc[a] = "await" => tries[a] \in 1..MaxAttempts /\ queue[a] # <<>>
               /\ conn[a] # NoSlot => pc[a] = "await" /\ req[conn[a]].owner = a
               /\ \A i \in DOMAIN queue[a] : BatchOK(queue[a][i].kind, queue[a][i].items)
    <3>1. pc[a] \in {"idle", "manifest", "diff", "summaries", "push", "await"}
      BY <1>1 DEF SyncIInv, Runs, Past
    <3>2. pc[a] = "await" => tries[a] \in 1..MaxAttempts /\ queue[a] # <<>>
      BY <1>1, SyncAssumption DEF SyncIInv, Runs, Run
    <3>3. conn[a] # NoSlot => pc[a] = "await" /\ req[conn[a]].owner = a
      BY <1>1 DEF SyncIInv, Attempt
    <3>4. \A i \in DOMAIN queue[a] : queue[a][i] \in Batch_
      BY <1>1, ElementOfSeq DEF SyncIInv, Runs
    <3> QED BY <2>1, <3>1, <3>2, <3>3, <3>4
  <2>3. ASSUME NEW h \in Slots, req[h] # Free
        PROVE  /\ BatchOK(req[h].kind, req[h].batch)
               /\ req[h].pos \in 1..(Len(req[h].batch) + 1)
               /\ req[h].owner # Nobody => conn[req[h].owner] = h
    <3>1. RequestOK(req[h]) /\ (req[h].owner # Nobody => conn[req[h].owner] = h)
      BY <1>1, <2>3 DEF SyncIInv, Requests
    <3>2. req[h].kind \in {"sessions", "summaries"} /\ req[h].pos \in 1..(Len(req[h].batch) + 1)
      BY <3>1 DEF RequestOK, Request_
    <3>3. BatchOK(req[h].kind, req[h].batch)
      BY <3>1, <3>2, RequestFacts DEF BatchOK
    <3> QED BY <3>1, <3>2, <3>3
  <2>4. Tables /\ edits \in 0..MaxEdits
    BY <1>1 DEF SyncIInv, Machines
  <2> QED BY <2>2, <2>3, <2>4 DEF TypeOK, Tables, Files_
<1> QED BY <1>1, SyncInvariant, PTL

\* cli/README.md, exit code 0: "everything was ingested or already up to date",
\* for any number of machines, runs, sessions, batches, retries and failures.
\* A run that ends with 0 has seen the store hold, since its scan, what it read
\* of every session that had not vanished.
THEOREM ExitZeroIsTrue == Spec => ExitZeroMeansStored
<1>1. ASSUME SyncIInv, NEW a \in Agents, Finish(a), ~failed[a], NEW s \in Seen(a) \ missing[a]
      PROVE  want[a][s] \in held[a][s]
  <2>1. pc[a] = "push" /\ queue[a] = <<>>
    BY <1>1 DEF Finish
  <2>2. ~Queued(a, s)
    BY <2>1 DEF Queued
  <2> QED BY <1>1, <2>1, <2>2 DEF SyncIInv, Run, Past
<1>2. ASSUME SyncIInv
      PROVE  \A a \in Agents : Finish(a) /\ ~failed[a] =>
                \A s \in Seen(a) \ missing[a] : want[a][s] \in held[a][s]
  BY <1>1, <1>2
<1> QED BY <1>2, SyncInvariant, PTL DEF ExitZeroMeansStored
===============================================================================
