--------------------------- MODULE ExchangesProofs ---------------------------
(***************************************************************************)
(* What a request is answered, for every guard, list of sessions, file     *)
(* system and path; what a run of agent-ingest sends and reports, for      *)
(* every transcript, list of sizes and list of passes; and how the server  *)
(* comes to its database, for every environment, URL and exchange of       *)
(* messages, however long (RequestsAreServed, RunsAccountForEverything and *)
(* ConnectionsAreSettled of Exchanges).                                    *)
(*                                                                         *)
(* The operators of Serving, AgentRun, TimelineSteps, Settings and         *)
(* Handshake are folds, sums and choices over data of any length: the      *)
(* first lemmas say what a fold or a sum comes to, by induction over the   *)
(* parts of a finite set, and the others rest on the folds' steps.         *)
(***************************************************************************)
EXTENDS Exchanges, FiniteSetTheorems, SequenceTheorems, WellFoundedInduction, TLAPS

-------------------------------------------------------------------------------
(* Induction, and folds.  The induction theorems of the library are about       *)
(* operators; these are about sets and functions, as a prover can instantiate   *)
(* them.                                                                        *)

\* Among the subsets of a finite set that are in B there is a smallest one.
LEMMA SmallestSet ==
    ASSUME NEW S, IsFiniteSet(S), NEW B \in SUBSET SUBSET S, B # {}
    PROVE  \E T \in B : \A U \in B : U \subseteq T => U = T
<1>1. IsWellFoundedOn(StrictSubsetOrdering(S), FiniteSubsetsOf(S))
  BY FS_StrictSubsetOrderingWellFounded
<1>2. B \subseteq FiniteSubsetsOf(S)
  BY FS_FiniteSubsetsOfFinite
<1>3. \E T \in B : \A U \in B : ~(<<U, T>> \in StrictSubsetOrdering(S))
  BY <1>1, <1>2, WFMin
<1> QED BY <1>3 DEF StrictSubsetOrdering

\* A set that has 0, and with a number the next, has them all.
LEMMA NatByStep ==
    ASSUME NEW B, 0 \in B, \A n \in Nat : n \in B => n + 1 \in B
    PROVE  \A n \in Nat : n \in B
<1>1. SUFFICES ASSUME NEW n \in Nat, n \notin B PROVE FALSE
  OBVIOUS
<1> DEFINE Missed == {0..k : k \in {j \in 0..n : j \notin B}}
<1>2. \E T \in Missed : \A U \in Missed : U \subseteq T => U = T
  <2> DEFINE I == 0..n
  <2>1. IsFiniteSet(I)
    BY FS_Interval
  <2>2. Missed \in SUBSET SUBSET I
    OBVIOUS
  <2>3. Missed # {}
    BY <1>1
  <2> HIDE DEF Missed, I
  <2> QED BY <2>1, <2>2, <2>3, SmallestSet
<1>3. PICK m \in 0..n : m \notin B /\ \A U \in Missed : U \subseteq 0..m => U = 0..m
  BY <1>2
<1>4. m - 1 \in 0..n /\ m - 1 \notin B
  BY <1>3
<1>5. 0..(m - 1) = 0..m
  <2>1. 0..(m - 1) \in Missed
    BY <1>4
  <2>2. 0..(m - 1) \subseteq 0..m
    OBVIOUS
  <2> HIDE DEF Missed
  <2> QED BY <1>3, <2>1, <2>2
<1> QED BY <1>5, <1>4

\* What a choice function, and the iteration of a fold over a set, are.
Chooses(ch, S) == \A s \in SUBSET S : s # {} => ch[s] \in s
Iterates(h, S, base, ch, F) ==
    \A s \in SUBSET S : h[s] = IF s = {} THEN base ELSE F[<<ch[s], h[s \ {ch[s]}]>>]

\* The iteration of a fold over a finite set: a function of its parts that is the
\* base on none and, on any other, one step from the part without the chosen item.
LEMMA IterationExists ==
    ASSUME NEW S, IsFiniteSet(S), NEW V, NEW base \in V,
           NEW ch, Chooses(ch, S), NEW F \in [S \X V -> V]
    PROVE  \E h \in [SUBSET S -> V] : Iterates(h, S, base, ch, F)
<1> USE DEF Chooses
<1> DEFINE Eq(h, s) == h[s] = IF s = {} THEN base ELSE F[<<ch[s], h[s \ {ch[s]}]>>]
           UpTo(k) == \E h \in [SUBSET S -> V] : \A s \in SUBSET S : Cardinality(s) <= k => Eq(h, s)
           B == {k \in Nat : UpTo(k)}
<1>0. \A s \in SUBSET S : IsFiniteSet(s) /\ Cardinality(s) \in Nat /\ (Cardinality(s) = 0 <=> s = {})
                          /\ Cardinality(s) <= Cardinality(S)
  BY FS_Subset, FS_CardinalityType, FS_EmptySet
<1>1. \A s \in SUBSET S : s # {} => /\ s \ {ch[s]} \in SUBSET S
                                    /\ Cardinality(s \ {ch[s]}) = Cardinality(s) - 1
  BY <1>0, FS_RemoveElement
<1>2. 0 \in B
  <2>1. [s \in SUBSET S |-> base] \in [SUBSET S -> V]
    OBVIOUS
  <2>2. \A s \in SUBSET S : Cardinality(s) <= 0 => Eq([r \in SUBSET S |-> base], s)
    BY <1>0
  <2> QED BY <2>1, <2>2
<1>3. ASSUME NEW k \in Nat, k \in B PROVE k + 1 \in B
  <2>1. PICK h \in [SUBSET S -> V] : \A s \in SUBSET S : Cardinality(s) <= k => Eq(h, s)
    BY <1>3
  <2> DEFINE g == [s \in SUBSET S |-> IF Cardinality(s) <= k THEN h[s] ELSE F[<<ch[s], h[s \ {ch[s]}]>>]]
  <2>2. ASSUME NEW s \in SUBSET S, s # {} PROVE F[<<ch[s], h[s \ {ch[s]}]>>] \in V
    <3>1. ch[s] \in S /\ h[s \ {ch[s]}] \in V
      BY <2>2, <1>1
    <3> QED BY <3>1
  <2>3. g \in [SUBSET S -> V]
    <3>1. \A s \in SUBSET S : ~(Cardinality(s) <= k) => s # {}
      BY <1>0
    <3> QED BY <2>2, <3>1
  <2>4. ASSUME NEW s \in SUBSET S, Cardinality(s) <= k + 1 PROVE Eq(g, s)
    <3>1. CASE s = {}
      BY <3>1, <2>1, <1>0
    <3>2. CASE s # {}
      <4>1. s \ {ch[s]} \in SUBSET S /\ Cardinality(s \ {ch[s]}) <= k
        BY <3>2, <1>1, <1>0, <2>4
      <4>2. g[s \ {ch[s]}] = h[s \ {ch[s]}]
        BY <4>1
      <4>3. g[s] = F[<<ch[s], h[s \ {ch[s]}]>>]
        BY <3>2, <2>1
      <4> QED BY <4>2, <4>3, <3>2
    <3> QED BY <3>1, <3>2
  <2> HIDE DEF g, Eq
  <2>5. UpTo(k + 1)
    BY <2>3, <2>4
  <2> QED BY <2>5
<1>4. Cardinality(S) \in B
  <2> HIDE DEF B
  <2> QED BY <1>2, <1>3, NatByStep, FS_CardinalityType
<1> QED BY <1>4, <1>0 DEF Iterates

\* The first k items of a sequence, and one more.
LEMMA Beginning ==
    ASSUME NEW S, NEW s \in Seq(S), NEW k \in 0..Len(s)
    PROVE  /\ SubSeq(s, 1, k) \in Seq(S) /\ Len(SubSeq(s, 1, k)) = k
           /\ \A i \in 1..k : SubSeq(s, 1, k)[i] = s[i]
           /\ k < Len(s) => SubSeq(s, 1, k + 1) = Append(SubSeq(s, 1, k), s[k + 1])
<1>1. Len(s) \in Nat /\ k \in Int /\ \A i \in 1..k : s[i] \in S
  OBVIOUS
<1>2. /\ SubSeq(s, 1, k) \in Seq(S) /\ Len(SubSeq(s, 1, k)) = k
      /\ \A i \in 1..k : SubSeq(s, 1, k)[i] = s[i]
  BY <1>1
<1>3. ASSUME k < Len(s) PROVE SubSeq(s, 1, k + 1) = Append(SubSeq(s, 1, k), s[k + 1])
  <2>1. 1 \in 1..Len(s) /\ k + 1 \in 1..Len(s) /\ (k + 1) - 1 = k /\ s[k + 1] \in S
    BY <1>1, <1>3
  <2>2. SubSeq(s, 1, k + 1) = SubSeq(s, 1, k) \o <<s[k + 1]>>
    BY <2>1, SubSeqRecursiveSecond
  <2> QED BY <1>2, <2>1, <2>2, AppendIsConcat
<1> QED BY <1>2, <1>3

\* A part of 1..n that is not empty has a greatest number.
LEMMA GreatestOfPart ==
    ASSUME NEW n \in Nat, NEW r \in SUBSET (1..n), r # {}
    PROVE  Max(r) \in r /\ \A i \in r : i <= Max(r)
<1> DEFINE B == {k \in Nat : \A t \in SUBSET (1..k) : t # {} => \E x \in t : \A y \in t : x >= y}
<1>1. 0 \in B
  <2>1. 1..0 = {}
    OBVIOUS
  <2> QED BY <2>1
<1>2. ASSUME NEW k \in Nat, k \in B PROVE k + 1 \in B
  <2> SUFFICES ASSUME NEW t \in SUBSET (1..(k + 1)), t # {}
               PROVE  \E x \in t : \A y \in t : x >= y
    OBVIOUS
  <2>1. CASE k + 1 \in t
    BY <2>1
  <2>2. CASE k + 1 \notin t
    <3>1. t \in SUBSET (1..k)
      BY <2>2
    <3> QED BY <1>2, <3>1
  <2> QED BY <2>1, <2>2
<1>3. n \in B
  <2> HIDE DEF B
  <2> QED BY <1>1, <1>2, NatByStep
<1>4. \E x \in r : \A y \in r : x >= y
  BY <1>3
<1>5. Max(r) \in r /\ \A y \in r : Max(r) >= y
  BY <1>4 DEF Max
<1> QED BY <1>5

\* The numbers up to k, and without the last.
LEMMA UpTo ==
    ASSUME NEW k \in Nat, k # 0
    PROVE  1..k # {} /\ Max(1..k) = k /\ (1..k) \ {k} = 1..(k - 1)
<1>1. k \in 1..k
  OBVIOUS
<1>2. Max(1..k) \in 1..k /\ \A i \in 1..k : i <= Max(1..k)
  BY <1>1, GreatestOfPart
<1> QED BY <1>1, <1>2

\* What the iteration of FoldLeft over a sequence is, part by part.
Folds(h, s, base, F) == \A r \in SUBSET DOMAIN s :
    h[r] = IF r = {} THEN base ELSE F[<<h[r \ {Max(r)}], s[Max(r)]>>]

\* FoldLeft takes a sequence's items from the last to the first: its iteration.
LEMMA FoldIteration ==
    ASSUME NEW X, NEW V, NEW base \in V, NEW s \in Seq(X), NEW F \in [V \X X -> V]
    PROVE  \E h \in [SUBSET DOMAIN s -> V] : Folds(h, s, base, F)
<1> DEFINE D == DOMAIN s
           ch == [r \in SUBSET D |-> Max(r)]
           G == [q \in D \X V |-> F[<<q[2], s[q[1]]>>]]
<1>1. D = 1..Len(s) /\ Len(s) \in Nat /\ IsFiniteSet(D)
  BY FS_Interval
<1>2. \A r \in SUBSET D : r # {} => Max(r) \in r
  BY <1>1, GreatestOfPart
<1>3. Chooses(ch, D)
  BY <1>2 DEF Chooses
<1>4. G \in [D \X V -> V]
  OBVIOUS
<1>5. PICK h \in [SUBSET D -> V] : Iterates(h, D, base, ch, G)
  <2> HIDE DEF ch, G, D
  <2> QED BY <1>1, <1>3, <1>4, IterationExists
<1>6. ASSUME NEW r \in SUBSET D
      PROVE  h[r] = IF r = {} THEN base ELSE F[<<h[r \ {Max(r)}], s[Max(r)]>>]
  <2>1. CASE r = {}
    BY <1>5, <2>1 DEF Iterates
  <2>2. CASE r # {}
    <3>1. ch[r] = Max(r) /\ Max(r) \in D /\ h[r \ {Max(r)}] \in V
      BY <1>2, <2>2
    <3>2. h[r] = G[<<ch[r], h[r \ {ch[r]}]>>]
      BY <1>5, <2>2 DEF Iterates
    <3> QED BY <2>2, <3>1, <3>2
  <2> QED BY <2>1, <2>2
<1> QED BY <1>6 DEF Folds

-------------------------------------------------------------------------------
(* Sequences of sequences. *)

\* What the first k of some sequences come to, one after the other.
Flattens(g, seqs) == g[0] = <<>> /\ \A k \in 1..Len(seqs) : g[k] = g[k - 1] \o seqs[k]

\* Flattened one after the other.
LEMMA FlattenRuns ==
    ASSUME NEW S, NEW seqs \in Seq(Seq(S))
    PROVE  \E g : Flattens(g, seqs) /\ FlattenSeq(seqs) = g[Len(seqs)]
<1> DEFINE n == Len(seqs)
           It(f) == f = [i \in 1..Len(seqs) |-> IF i = 1 THEN seqs[i] ELSE f[i - 1] \o seqs[i]]
           F == [q \in Seq(S) \X Seq(S) |-> q[1] \o q[2]]
<1>1. n \in Nat /\ DOMAIN seqs = 1..n /\ <<>> \in Seq(S) /\ \A i \in 1..n : seqs[i] \in Seq(S)
  OBVIOUS
<1>2. F \in [Seq(S) \X Seq(S) -> Seq(S)]
  BY ConcatProperties
<1>3. PICK h \in [SUBSET DOMAIN seqs -> Seq(S)] : Folds(h, seqs, <<>>, F)
  <2> DEFINE X == Seq(S)
  <2>1. seqs \in Seq(X) /\ F \in [X \X X -> X] /\ <<>> \in X
    BY <1>1, <1>2
  <2> HIDE DEF F, X
  <2>2. \E h \in [SUBSET DOMAIN seqs -> X] : Folds(h, seqs, <<>>, F)
    BY <2>1, FoldIteration
  <2> QED BY <2>2 DEF X
<1>4. h[1..0] = <<>> /\ \A k \in 1..n : h[1..k] = h[1..(k - 1)] \o seqs[k] /\ h[1..k] \in Seq(S)
  <2>1. h[1..0] = <<>>
    <3>1. 1..0 = {} /\ 1..0 \in SUBSET DOMAIN seqs
      OBVIOUS
    <3> QED BY <1>3, <3>1 DEF Folds
  <2>2. ASSUME NEW k \in 1..n PROVE h[1..k] = h[1..(k - 1)] \o seqs[k] /\ h[1..k] \in Seq(S)
    <3>1. 1..k \in SUBSET DOMAIN seqs /\ 1..k # {} /\ Max(1..k) = k /\ (1..k) \ {k} = 1..(k - 1)
      <4>1. k \in Nat /\ k # 0 /\ 1..k \in SUBSET (1..n)
        BY <1>1
      <4> HIDE DEF n
      <4> QED BY <1>1, <4>1, UpTo
    <3>2. 1..(k - 1) \in SUBSET DOMAIN seqs
      BY <1>1
    <3>3. h[1..k] = F[<<h[1..(k - 1)], seqs[k]>>]
      BY <1>3, <3>1 DEF Folds
    <3>4. h[1..(k - 1)] \in Seq(S) /\ seqs[k] \in Seq(S) /\ h[1..k] \in Seq(S)
      BY <1>1, <3>1, <3>2
    <3> QED BY <3>3, <3>4
  <2> QED BY <2>1, <2>2
<1>5. \E f : It(f)
  <2> DEFINE f == [i \in 1..n |-> h[1..i]]
  <2>1. ASSUME NEW i \in 1..n PROVE f[i] = IF i = 1 THEN seqs[i] ELSE f[i - 1] \o seqs[i]
    <3>1. CASE i = 1
      <4>0. 1 \in 1..n /\ 1 - 1 = 0
        BY <3>1
      <4>1. h[1..1] = h[1..0] \o seqs[1] /\ seqs[1] \in Seq(S)
        <5> HIDE DEF n
        <5> QED BY <1>1, <1>4, <4>0
      <4>2. <<>> \o seqs[1] = seqs[1]
        BY <4>1
      <4> QED BY <1>4, <3>1, <4>1, <4>2
    <3>2. CASE i # 1
      <4>1. i - 1 \in 1..n
        BY <1>1, <3>2
      <4> QED BY <1>4, <3>2, <4>1
    <3> QED BY <3>1, <3>2
  <2> HIDE DEF n
  <2>2. f = [i \in 1..n |-> IF i = 1 THEN seqs[i] ELSE f[i - 1] \o seqs[i]]
    <3> HIDE DEF f
    <3>1. f = [i \in 1..n |-> f[i]]
      BY DEF f
    <3> QED BY <2>1, <3>1
  <2> QED BY <2>2 DEF n
<1> DEFINE it == CHOOSE f : It(f)
           g == [k \in 0..n |-> IF k = 0 THEN <<>> ELSE it[k]]
<1>6. It(it)
  BY <1>5
<1>7. FlattenSeq(seqs) = g[n]
  <2>1. CASE n = 0
    <3>1. seqs = <<>> /\ g[n] = <<>>
      BY <2>1
    <3> QED BY <2>1, <3>1 DEF FlattenSeq
  <2>2. CASE n # 0
    <3>1. g[n] = it[n]
      BY <1>1, <2>2
    <3>2. FlattenSeq(seqs) = it[n]
      BY <2>2 DEF FlattenSeq
    <3> QED BY <3>1, <3>2
  <2> QED BY <2>1, <2>2
<1>8. Flattens(g, seqs)
  <2> HIDE DEF it, n
  <2>1. ASSUME NEW k \in 1..n PROVE g[k] = g[k - 1] \o seqs[k]
    <3>1. it[k] = IF k = 1 THEN seqs[k] ELSE it[k - 1] \o seqs[k]
      BY <1>6 DEF n
    <3>2. CASE k = 1
      <4>1. seqs[1] \in Seq(S) /\ g[1] = it[1] /\ g[1 - 1] = <<>>
        BY <1>1, <3>2
      <4>2. <<>> \o seqs[1] = seqs[1]
        BY <4>1
      <4> QED BY <3>1, <3>2, <4>1, <4>2
    <3>3. CASE k # 1
      <4>1. k \in 0..n /\ k # 0 /\ k - 1 \in 0..n /\ k - 1 # 0
        BY <1>1, <3>3
      <4> HIDE DEF It
      <4> QED BY <3>1, <3>3, <4>1
    <3> QED BY <3>2, <3>3
  <2>2. g[0] = <<>>
    BY <1>1
  <2> QED BY <2>1, <2>2 DEF Flattens, n
<1> HIDE DEF g
<1> QED BY <1>7, <1>8
\* Two runs that begin alike, and go on alike where they are, are alike.
GoAlike(g, h, n) == g[0] = h[0] /\ \A k \in 1..n : g[k - 1] = h[k - 1] => g[k] = h[k]
Alike(g, h, n) == \A k \in 0..n : g[k] = h[k]

LEMMA SameRuns ==
    ASSUME NEW n \in Nat, NEW g, NEW h, GoAlike(g, h, n)
    PROVE  Alike(g, h, n)
<1>0. g[0] = h[0] /\ \A k \in 1..n : g[k - 1] = h[k - 1] => g[k] = h[k]
  BY DEF GoAlike
<1> DEFINE B == {k \in Nat : k <= n => g[k] = h[k]}
<1>1. 0 \in B
  BY <1>0
<1>2. ASSUME NEW k \in Nat, k \in B PROVE k + 1 \in B
  <2>1. CASE k + 1 <= n
    <3>1. k + 1 \in 1..n /\ (k + 1) - 1 = k /\ g[k] = h[k]
      BY <1>2, <2>1
    <3> QED BY <1>0, <3>1
  <2>2. CASE ~(k + 1 <= n)
    BY <2>2
  <2> QED BY <2>1, <2>2
<1>3. \A k \in Nat : k \in B
  <2> HIDE DEF B
  <2> QED BY <1>1, <1>2, NatByStep
<1> QED BY <1>3 DEF Alike

\* A sequence with one item more.
LEMMA OneMore ==
    ASSUME NEW S, NEW s \in Seq(S), NEW x \in S
    PROVE  /\ Append(s, x) \in Seq(S) /\ Len(Append(s, x)) = Len(s) + 1 /\ Len(s) \in Nat
           /\ \A k \in 1..Len(s) : Append(s, x)[k] = s[k]
           /\ Append(s, x)[Len(s) + 1] = x /\ Len(s) + 1 \in 1..Len(Append(s, x))
           /\ \A k \in 1..Len(s) : k \in 1..Len(Append(s, x))
           /\ \A k \in 1..Len(Append(s, x)) : k \in 1..Len(s) \/ k = Len(s) + 1
OBVIOUS

\* Flattened, a sequence more.
LEMMA FlattenGrows ==
    ASSUME NEW S, NEW seqs \in Seq(Seq(S)), NEW x \in Seq(S)
    PROVE  /\ FlattenSeq(<<>>) = <<>> /\ FlattenSeq(seqs) \in Seq(S)
           /\ FlattenSeq(Append(seqs, x)) = FlattenSeq(seqs) \o x
<1> DEFINE X == Seq(S)
           all == Append(seqs, x)
           n == Len(seqs)
<1> HIDE DEF X
<1>0. seqs \in Seq(X) /\ x \in X
  BY DEF X
<1>1. /\ all \in Seq(X) /\ Len(all) = n + 1 /\ n \in Nat
      /\ \A k \in 1..n : all[k] = seqs[k] /\ k \in 1..Len(all)
      /\ all[n + 1] = x /\ n + 1 \in 1..Len(all)
  BY <1>0, OneMore
<1> HIDE DEF all, n
<1>2. PICK g : Flattens(g, seqs) /\ FlattenSeq(seqs) = g[n]
  BY FlattenRuns DEF n
<1>3. PICK h : Flattens(h, all) /\ FlattenSeq(all) = h[n + 1]
  BY <1>1, FlattenRuns DEF X
<1>4. \A k \in 0..n : g[k] = h[k]
  <2>1. g[0] = h[0]
    BY <1>2, <1>3 DEF Flattens
  <2>2. ASSUME NEW k \in 1..n, g[k - 1] = h[k - 1] PROVE g[k] = h[k]
    <3>1. g[k] = g[k - 1] \o seqs[k]
      BY <1>2 DEF Flattens, n
    <3>2. h[k] = h[k - 1] \o seqs[k]
      BY <1>1, <1>3 DEF Flattens
    <3> QED BY <2>2, <3>1, <3>2
  <2>3. n \in Nat
    BY <1>1
  <2>4. GoAlike(g, h, n)
    BY <2>1, <2>2 DEF GoAlike
  <2> QED BY <2>3, <2>4, SameRuns DEF Alike
<1>5. h[n + 1] = h[n] \o x
  <2>1. h[n + 1] = h[(n + 1) - 1] \o all[n + 1]
    BY <1>1, <1>3 DEF Flattens
  <2>2. (n + 1) - 1 = n
    BY <1>1
  <2> QED BY <1>1, <2>1, <2>2
<1>6. FlattenSeq(all) = FlattenSeq(seqs) \o x
  <2>1. n \in 0..n
    BY <1>1
  <2> QED BY <1>2, <1>3, <1>4, <1>5, <2>1
<1>7. FlattenSeq(<<>>) = <<>>
  BY DEF FlattenSeq
<1>8. FlattenSeq(seqs) \in Seq(S)
  <2> DEFINE B == {k \in Nat : k <= n => g[k] \in X}
  <2>1. 0 \in B
    <3>1. g[0] = <<>>
      BY <1>2 DEF Flattens
    <3>2. <<>> \in X
      BY DEF X
    <3> QED BY <3>1, <3>2
  <2>2. ASSUME NEW k \in Nat, k \in B PROVE k + 1 \in B
    <3> SUFFICES ASSUME k + 1 <= n PROVE g[k + 1] \in X
      OBVIOUS
    <3>1. k + 1 \in 1..n /\ (k + 1) - 1 = k /\ g[k] \in X
      BY <1>1, <2>2
    <3>2. g[k + 1] = g[k] \o seqs[k + 1] /\ seqs[k + 1] \in X
      <4>1. seqs[k + 1] \in X
        BY <1>0, <3>1 DEF n
      <4>2. g[k + 1] = g[(k + 1) - 1] \o seqs[k + 1]
        BY <1>2, <3>1 DEF Flattens, n
      <4> QED BY <3>1, <4>1, <4>2
    <3> QED BY <3>1, <3>2, ConcatProperties DEF X
  <2>3. n \in B
    <3> HIDE DEF B
    <3> QED BY <1>1, <2>1, <2>2, NatByStep
  <2> QED BY <1>1, <1>2, <2>3 DEF X
<1> QED BY <1>6, <1>7, <1>8 DEF all

-------------------------------------------------------------------------------
(* Sums. *)

\* How MapThenSumSet adds: always the element it chooses first.
Sums(h, S, f) == h = [s \in SUBSET S |->
    IF s = {} THEN 0 ELSE f[CHOOSE x \in s : TRUE] + h[s \ {CHOOSE x \in s : TRUE}]]

\* There is such a function.
LEMMA SumExists ==
    ASSUME NEW S, IsFiniteSet(S), NEW f \in [S -> Int]
    PROVE  \E h \in [SUBSET S -> Int] : Sums(h, S, f)
<1> DEFINE V == Int
           ch == [s \in SUBSET S |-> CHOOSE x \in s : TRUE]
           F == [q \in S \X V |-> f[q[1]] + q[2]]
<1>1. Chooses(ch, S) /\ 0 \in V
  BY DEF Chooses
<1>2. F \in [S \X V -> V]
  OBVIOUS
<1>3. PICK h \in [SUBSET S -> V] : Iterates(h, S, 0, ch, F)
  <2> HIDE DEF F, V, ch
  <2> QED BY <1>1, <1>2, IterationExists
<1>4. ASSUME NEW s \in SUBSET S, s # {}
      PROVE  /\ ch[s] = CHOOSE x \in s : TRUE
             /\ F[<<ch[s], h[s \ {ch[s]}]>>] = f[ch[s]] + h[s \ {ch[s]}]
  <2>1. ch[s] = CHOOSE x \in s : TRUE
    OBVIOUS
  <2>2. ch[s] \in S /\ h[s \ {ch[s]}] \in V
    <3>1. ch[s] \in S /\ s \ {ch[s]} \in SUBSET S
      BY <1>1, <1>4 DEF Chooses
    <3> HIDE DEF ch, V
    <3> QED BY <3>1
  <2> HIDE DEF ch
  <2> QED BY <2>1, <2>2
<1> HIDE DEF F, V
<1>5. Sums(h, S, f)
  <2>1. ASSUME NEW s \in SUBSET S
        PROVE  (IF s = {} THEN 0 ELSE F[<<ch[s], h[s \ {ch[s]}]>>])
               = IF s = {} THEN 0 ELSE f[CHOOSE x \in s : TRUE] + h[s \ {CHOOSE x \in s : TRUE}]
    BY <1>4
  <2> HIDE DEF ch
  <2> QED BY <1>3, <2>1 DEF Sums, Iterates
<1> QED BY <1>3, <1>5 DEF V

\* The order does not matter.
LEMMA AnyOrder ==
    ASSUME NEW S, IsFiniteSet(S), NEW f \in [S -> Int], NEW h \in [SUBSET S -> Int], Sums(h, S, f)
    PROVE  h[{}] = 0 /\ \A s \in SUBSET S : \A x \in s : h[s] = f[x] + h[s \ {x}]
<1>0. h[{}] = 0
  BY DEF Sums
<1> DEFINE B == {s \in SUBSET S : \E x \in s : h[s] # f[x] + h[s \ {x}]}
<1>1. SUFFICES ASSUME B # {} PROVE FALSE
  BY <1>0
<1>2. PICK s \in B : \A t \in B : t \subseteq s => t = s
  <2>1. B \in SUBSET SUBSET S
    OBVIOUS
  <2> HIDE DEF B
  <2> QED BY <1>1, <2>1, SmallestSet
<1>3. s \in SUBSET S
  OBVIOUS
<1>4. PICK x \in s : h[s] # f[x] + h[s \ {x}]
  OBVIOUS
<1> DEFINE c == CHOOSE y \in s : TRUE
<1>5. c \in s /\ c \in S /\ x \in S
  BY <1>3, <1>4
<1>6. h[s] = f[c] + h[s \ {c}]
  BY <1>3, <1>4 DEF Sums
<1> HIDE DEF c
<1>7. x # c
  BY <1>4, <1>6
<1>8. s \ {c} \in SUBSET S /\ s \ {x} \in SUBSET S /\ s \ {c} # s /\ s \ {x} # s /\ s \ {c} \notin B /\ s \ {x} \notin B
  <2>1. s \ {c} \in SUBSET S /\ s \ {x} \in SUBSET S /\ s \ {c} # s /\ s \ {x} # s
    BY <1>3, <1>4, <1>5
  <2> HIDE DEF B
  <2> QED BY <1>2, <2>1
<1>9. h[s \ {c}] = f[x] + h[(s \ {c}) \ {x}] /\ h[s \ {x}] = f[c] + h[(s \ {x}) \ {c}]
  BY <1>4, <1>5, <1>7, <1>8
<1>10. (s \ {c}) \ {x} = (s \ {x}) \ {c} /\ (s \ {c}) \ {x} \in SUBSET S
  BY <1>3
<1>11. h[(s \ {c}) \ {x}] \in Int /\ f[x] \in Int /\ f[c] \in Int
  BY <1>5, <1>10
<1> DEFINE a == f[c]
           b == f[x]
           r == h[(s \ {c}) \ {x}]
           p == h[s \ {c}]
           q == h[s \ {x}]
<1>12. p = b + r /\ q = a + r /\ h[s] = a + p /\ h[s] # b + q /\ a \in Int /\ b \in Int /\ r \in Int
  <2> HIDE DEF B
  <2> QED BY <1>4, <1>6, <1>9, <1>10, <1>11
<1> HIDE DEF B, a, b, r, p, q
<1> QED BY <1>12

\* So MapThenSumSet adds.
SumOver(f, S) == MapThenSumSet(LAMBDA i : f[i], S)
Adds(h, f, S) == /\ SumOver(f, S) = h[S] /\ h[{}] = 0
                 /\ \A s \in SUBSET S : \A x \in s : h[s] = f[x] + h[s \ {x}]

\* MapThenSumSet comes to such a function.
LEMMA SumAdds ==
    ASSUME NEW S, IsFiniteSet(S), NEW f \in [S -> Int]
    PROVE  \E h \in [SUBSET S -> Int] : Adds(h, f, S)
<1> DEFINE iter == CHOOSE h : Sums(h, S, f)
<1>2. PICK h \in [SUBSET S -> Int] : Sums(h, S, f)
  BY SumExists
<1>3. Sums(iter, S, f)
  BY <1>2
<1>4. iter \in [SUBSET S -> Int]
  <2> DEFINE B == {s \in SUBSET S : iter[s] \notin Int}
  <2>1. B = {}
    <3> SUFFICES ASSUME B # {} PROVE FALSE
      OBVIOUS
    <3> HIDE DEF iter
    <3>1. PICK s \in B : \A t \in B : t \subseteq s => t = s
      <4>1. B \in SUBSET SUBSET S
        OBVIOUS
      <4> HIDE DEF B
      <4> QED BY <4>1, SmallestSet
    <3> DEFINE c == CHOOSE y \in s : TRUE
    <3>2. s \in SUBSET S /\ s # {} /\ c \in s
      BY <1>3, <3>1 DEF Sums
    <3>3. iter[s] = f[c] + iter[s \ {c}]
      BY <1>3, <3>2 DEF Sums
    <3> HIDE DEF c
    <3>4. s \ {c} \in SUBSET S /\ s \ {c} # s /\ c \in S
      BY <3>2
    <3>5. s \ {c} \notin B
      <4> HIDE DEF B
      <4> QED BY <3>1, <3>4
    <3>6. iter[s \ {c}] \in Int /\ f[c] \in Int
      BY <3>4, <3>5
    <3> QED BY <3>1, <3>3, <3>6
  <2> HIDE DEF iter
  <2> QED BY <1>3, <2>1 DEF Sums
<1>5. SumOver(f, S) = iter[S]
  BY DEF SumOver, MapThenSumSet, MapThenFoldSet, Sums
<1> HIDE DEF iter
<1>6. iter[{}] = 0 /\ \A s \in SUBSET S : \A x \in s : iter[s] = f[x] + iter[s \ {x}]
  BY <1>3, <1>4, AnyOrder
<1> QED BY <1>4, <1>5, <1>6 DEF Adds

\* A sum over 1..n runs from 1 to n.
RunningSum(g, f, n) == /\ g[0] = 0 /\ SumOver(f, 1..n) = g[n]
                       /\ \A k \in 1..n : g[k] = g[k - 1] + f[k] /\ g[k] \in Int

LEMMA SumRuns ==
    ASSUME NEW n \in Nat, NEW f \in [1..n -> Int]
    PROVE  \E g : RunningSum(g, f, n)
<1> DEFINE S == 1..n
<1>1. IsFiniteSet(S) /\ f \in [S -> Int]
  BY FS_Interval
<1>2. PICK iter \in [SUBSET S -> Int] : Adds(iter, f, S)
  <2> HIDE DEF S
  <2> QED BY <1>1, SumAdds
<1>6. iter[{}] = 0 /\ \A s \in SUBSET S : \A x \in s : iter[s] = f[x] + iter[s \ {x}]
  BY <1>2 DEF Adds
<1>5. SumOver(f, 1..n) = iter[S]
  BY <1>2 DEF Adds
<1> DEFINE g == [k \in 0..n |-> iter[1..k]]
<1>7. g[0] = 0 /\ g[n] = iter[S]
  <2>1. 1..0 = {}
    OBVIOUS
  <2> QED BY <1>6, <2>1
<1>8. ASSUME NEW k \in 1..n PROVE g[k] = g[k - 1] + f[k] /\ g[k] \in Int
  <2>1. k \in Nat /\ k # 0 /\ k \in 0..n /\ k - 1 \in 0..n
    OBVIOUS
  <2>2. 1..k \in SUBSET S /\ 1..(k - 1) \in SUBSET S /\ k \in 1..k /\ (1..k) \ {k} = 1..(k - 1)
    BY <2>1
  <2> HIDE DEF S
  <2>3. g[k] = iter[1..k] /\ g[k - 1] = iter[1..(k - 1)]
    BY <2>1
  <2>4. iter[1..k] = f[k] + iter[1..(k - 1)] /\ iter[1..k] \in Int /\ iter[1..(k - 1)] \in Int
    <3> DEFINE r == 1..k
               q == 1..(k - 1)
    <3>1. r \in SUBSET S /\ q \in SUBSET S /\ k \in r /\ r \ {k} = q
      BY <2>2
    <3> HIDE DEF r, q
    <3>2. iter[r] = f[k] + iter[r \ {k}]
      BY <1>6, <3>1
    <3> QED BY <3>1, <3>2 DEF r, q
  <2> DEFINE a == iter[1..k]
             b == iter[1..(k - 1)]
             c == f[k]
  <2>5. c \in Int /\ a \in Int /\ b \in Int /\ a = c + b /\ g[k] = a /\ g[k - 1] = b
    BY <2>3, <2>4 DEF S
  <2> HIDE DEF g, a, b
  <2> QED BY <2>5
<1> HIDE DEF g
<1> QED BY <1>5, <1>7, <1>8 DEF RunningSum

\* A sum depends on its terms only.
LEMMA SameSum ==
    ASSUME NEW S, NEW f, NEW e, \A x \in S : f[x] = e[x]
    PROVE  SumOver(f, S) = SumOver(e, S)
<1> DEFINE Is(h, t) == h = [s \in SUBSET S |->
               IF s = {} THEN 0 ELSE t[CHOOSE x \in s : TRUE] + h[s \ {CHOOSE x \in s : TRUE}]]
<1>1. \A s \in SUBSET S : s # {} => f[CHOOSE x \in s : TRUE] = e[CHOOSE x \in s : TRUE]
  OBVIOUS
<1>2. ASSUME NEW h PROVE Is(h, f) <=> Is(h, e)
  BY <1>1
<1>3. (CHOOSE h : Is(h, f)) = (CHOOSE h : Is(h, e))
  <2> HIDE DEF Is
  <2> QED BY <1>2
<1> QED BY <1>3 DEF SumOver, MapThenSumSet, MapThenFoldSet

-------------------------------------------------------------------------------
(* Inputs. *)

\* An input is of some kind, and made of the items of that kind.
InputOK == kind \in Kinds /\ input \in Seq(Alphabet[kind])

\* A behavior grows an input of one kind.
THEOREM InputsAreOfAKind == GrowSpec => []InputOK
<1>1. GrowInit => InputOK
  BY DEF GrowInit, InputOK
<1>2. InputOK /\ [Grow]_<<kind, input>> => InputOK'
  <2> SUFFICES ASSUME InputOK, [Grow]_<<kind, input>> PROVE InputOK'
    OBVIOUS
  <2>1. CASE Grow
    <3>1. PICK item \in Alphabet[kind] : input' = Append(input, item)
      BY <2>1 DEF Grow
    <3>2. kind' = kind
      BY <2>1 DEF Grow
    <3> QED BY <3>1, <3>2 DEF InputOK
  <2>2. CASE UNCHANGED <<kind, input>>
    BY <2>2 DEF InputOK
  <2> QED BY <2>1, <2>2
<1> QED BY <1>1, <1>2, PTL DEF GrowSpec

-------------------------------------------------------------------------------
(* Routes. *)

\* The names of the API's prefixes, and every segment of a route.
ApiNames == {"analysis", "brain", "eval", "insights", "mine", "optimize"}
Segments == ApiNames \cup {"api", "ingest", "health", "ready", "flavors", "conversations", "id", "transcript", "file",
                           "files", "manifest", "summaries", "progress", "runs", "sessions", "drilldown", "summarize"}

\* A route is a method and a path of one to five segments; "id" is the fourth
\* of five; and below api is ingest, or a prefix the API's guard knows.
WellFormed(r) ==
    /\ r = Serving!Route(r.method, r.path) /\ r.method \in {"GET", "POST", "DELETE"}
    /\ r.path \in Seq(Segments) /\ Len(r.path) \in 1..5
    /\ \A i \in 1..Len(r.path) : r.path[i] = "id" <=> (Len(r.path) = 5 /\ i = 4)
    /\ r.path[1] = "api" => Len(r.path) >= 2 /\ r.path[2] \in ApiNames \cup {"ingest"}

\* The path of a route without "id".
LEMMA PlainPath ==
    ASSUME NEW m \in {"GET", "POST", "DELETE"}, NEW p \in Seq(Segments), Len(p) \in 1..4,
           \A i \in 1..Len(p) : p[i] # "id", p[1] = "api" => Len(p) >= 2 /\ p[2] \in ApiNames \cup {"ingest"}
    PROVE  WellFormed(Serving!Route(m, p))
<1> DEFINE r == Serving!Route(m, p)
<1>1. r.method = m /\ r.path = p /\ r = Serving!Route(r.method, r.path)
  BY DEF Serving!Route
<1> HIDE DEF r
<1>2. Len(p) \in 1..5 /\ Len(p) # 5
  <2>1. \A n \in 1..4 : n \in 1..5 /\ n # 5
    OBVIOUS
  <2> QED BY ONLY <2>1, Len(p) \in 1..4
<1> QED BY <1>1, <1>2 DEF WellFormed, r

\* The path of a route of one conversation.
LEMMA PathWithId ==
    ASSUME NEW m \in {"GET", "POST", "DELETE"}, NEW a \in ApiNames, NEW c \in Segments \ {"id"}
    PROVE  WellFormed(Serving!Route(m, <<"api", a, "conversations", "id", c>>))
<1> DEFINE p == <<"api", a, "conversations", "id", c>>
           r == Serving!Route(m, p)
<1>0. a \in Segments /\ a # "id"
  BY DEF Segments, ApiNames
<1>1. /\ p \in Seq(Segments) /\ Len(p) = 5
      /\ p[1] = "api" /\ p[2] = a /\ p[3] = "conversations" /\ p[4] = "id" /\ p[5] = c
  BY <1>0 DEF Segments
<1>2. r.method = m /\ r.path = p /\ r = Serving!Route(r.method, r.path)
  BY DEF Serving!Route
<1> HIDE DEF p, r
<1>3. \A i \in 1..5 : p[i] = "id" <=> i = 4
  <2> SUFFICES ASSUME NEW i \in 1..5 PROVE p[i] = "id" <=> i = 4
    OBVIOUS
  <2>1. i \in {1, 2, 3, 4, 5}
    OBVIOUS
  <2> QED BY <1>0, <1>1, <2>1
<1>4. p[1] = "api" => Len(p) >= 2 /\ p[2] \in ApiNames \cup {"ingest"}
  BY <1>1
<1>5. Len(p) \in 1..5
  BY <1>1
<1>6. WellFormed(r)
  BY <1>1, <1>2, <1>3, <1>4, <1>5 DEF WellFormed
<1> QED BY <1>6 DEF r, p

\* Every route of registerRoutes is well formed.
LEMMA RoutesAreWellFormed == \A r \in Serving!Routes : WellFormed(r)
<1> DEFINE Methods == {"GET", "POST", "DELETE"}
           Lasts == {"flavors", "conversations", "file", "files", "manifest", "runs", "sessions", "drilldown", "summaries"}
<1>1. ASSUME NEW m \in Methods PROVE WellFormed(Serving!Route(m, <<"health">>))
  <2>1. <<"health">> \in Seq(Segments) /\ Len(<<"health">>) = 1 /\ <<"health">>[1] = "health"
    BY DEF Segments
  <2> DEFINE p == <<"health">>
  <2> HIDE DEF p
  <2>2. p \in Seq(Segments) /\ Len(p) = 1 /\ p[1] = "health" /\ \A i \in 1..1 : i = 1
    BY <2>1 DEF p
  <2>3. WellFormed(Serving!Route(m, p))
    BY <2>2, PlainPath
  <2> QED BY <2>3 DEF p
<1>2. ASSUME NEW m \in Methods, NEW a, NEW b, <<a, b>> = <<"health", "ready">> \/ (a = "api" /\ b \in ApiNames)
      PROVE  WellFormed(Serving!Route(m, <<a, b>>))
  <2>1. a \in Segments /\ b \in Segments /\ a # "id" /\ b # "id" /\ (a = "api" => b \in ApiNames)
    BY <1>2 DEF Segments, ApiNames
  <2> DEFINE p == <<a, b>>
  <2>2. p \in Seq(Segments) /\ Len(p) = 2 /\ p[1] = a /\ p[2] = b
    BY <2>1
  <2> HIDE DEF p
  <2>3. \A i \in 1..2 : i = 1 \/ i = 2
    OBVIOUS
  <2>4. WellFormed(Serving!Route(m, p))
    BY <2>1, <2>2, <2>3, PlainPath
  <2> QED BY <2>4 DEF p
<1>3. ASSUME NEW m \in Methods, NEW a \in ApiNames \cup {"ingest"}, NEW b \in Lasts
      PROVE  WellFormed(Serving!Route(m, <<"api", a, b>>))
  <2>1. a \in Segments /\ b \in Segments /\ a # "id" /\ b # "id" /\ "api" \in Segments
    BY DEF Segments, ApiNames
  <2> DEFINE p == <<"api", a, b>>
  <2>2. p \in Seq(Segments) /\ Len(p) = 3 /\ p[1] = "api" /\ p[2] = a /\ p[3] = b
    BY <2>1
  <2> HIDE DEF p
  <2>3. \A i \in 1..3 : i = 1 \/ i = 2 \/ i = 3
    OBVIOUS
  <2>4. WellFormed(Serving!Route(m, p))
    BY <2>1, <2>2, <2>3, PlainPath
  <2> QED BY <2>4 DEF p
<1>4. ASSUME NEW m \in Methods
      PROVE  WellFormed(Serving!Route(m, <<"api", "ingest", "summaries", "manifest">>))
  <2> DEFINE p == <<"api", "ingest", "summaries", "manifest">>
  <2>2. /\ p \in Seq(Segments) /\ Len(p) = 4
        /\ p[1] = "api" /\ p[2] = "ingest" /\ p[3] = "summaries" /\ p[4] = "manifest"
    BY DEF Segments
  <2> HIDE DEF p
  <2>3. \A i \in 1..4 : i = 1 \/ i = 2 \/ i = 3 \/ i = 4
    OBVIOUS
  <2>4. WellFormed(Serving!Route(m, p))
    BY <2>2, <2>3, PlainPath
  <2> QED BY <2>4 DEF p
<1>5. ASSUME NEW m \in Methods, NEW a \in ApiNames, NEW b \in {"transcript", "progress", "summarize"}
      PROVE  WellFormed(Serving!Route(m, <<"api", a, "conversations", "id", b>>))
  <2>1. b \in Segments \ {"id"}
    BY DEF Segments
  <2> QED BY <2>1, PathWithId
<1> QED
  <2> SUFFICES ASSUME NEW r \in Serving!Routes PROVE WellFormed(r)
    OBVIOUS
  <2>1. CASE r \in {Serving!Route("GET", p) : p \in {
        <<"health">>, <<"health", "ready">>,
        <<"api", "brain", "flavors">>, <<"api", "brain", "conversations">>,
        <<"api", "brain", "conversations", "id", "transcript">>,
        <<"api", "brain", "file">>, <<"api", "brain", "files">>,
        <<"api", "ingest", "manifest">>, <<"api", "ingest", "summaries", "manifest">>,
        <<"api", "analysis", "conversations", "id", "progress">>,
        <<"api", "eval">>, <<"api", "eval", "runs">>,
        <<"api", "insights">>, <<"api", "insights", "sessions">>, <<"api", "insights", "drilldown">>,
        <<"api", "mine">>, <<"api", "optimize">>}}
    BY <1>1, <1>2, <1>3, <1>4, <1>5, <2>1 DEF ApiNames
  <2>2. CASE r \in {Serving!Route("POST", p) : p \in {
        <<"api", "ingest", "sessions">>, <<"api", "ingest", "summaries">>,
        <<"api", "analysis", "conversations", "id", "summarize">>,
        <<"api", "eval", "runs">>, <<"api", "optimize">>}} \cup {Serving!Route("DELETE", <<"api", "eval", "runs">>)}
    BY <1>2, <1>3, <1>5, <2>2 DEF ApiNames
  <2> QED BY <2>1, <2>2 DEF Serving!Routes

\* Two routes that serve one request are the same route.
LEMMA OneRouteServes ==
    ASSUME NEW method \in {"GET", "HEAD", "POST", "DELETE"}, NEW path \in Seq(STRING),
           NEW r \in Serving!Dispatch(method, path), NEW s \in Serving!Dispatch(method, path)
    PROVE  r = s
<1>1. WellFormed(r) /\ WellFormed(s) /\ Serving!Serves(r, method, path) /\ Serving!Serves(s, method, path)
  BY RoutesAreWellFormed DEF Serving!Dispatch
<1>2. r.method = s.method
  BY <1>1 DEF WellFormed, Serving!Serves
<1>3. /\ r.path \in Seq(Segments) /\ s.path \in Seq(Segments) /\ Len(r.path) = Len(path) /\ Len(s.path) = Len(path)
      /\ DOMAIN path = 1..Len(path)
  <2>1. r.path \in Seq(Segments) /\ s.path \in Seq(Segments)
    BY <1>1 DEF WellFormed
  <2>2. Len(r.path) = Len(path) /\ Len(s.path) = Len(path)
    BY <1>1 DEF Serving!Serves
  <2> QED BY <2>1, <2>2
<1>4. ASSUME NEW i \in 1..Len(path) PROVE r.path[i] = s.path[i]
  <2>1. r.path[i] \in {path[i], "id"} /\ s.path[i] \in {path[i], "id"}
    BY <1>1, <1>3 DEF Serving!Serves
  <2>2. r.path[i] = "id" <=> s.path[i] = "id"
    BY <1>1, <1>3 DEF WellFormed
  <2> QED BY <2>1, <2>2
<1>5. r.path = s.path
  BY <1>3, <1>4, SeqEqual
<1> QED BY <1>1, <1>2, <1>5 DEF WellFormed

\* The first two items of a sequence.
LEMMA FirstTwo ==
    ASSUME NEW S, NEW p \in Seq(S), Len(p) >= 2
    PROVE  SubSeq(p, 1, 2) = <<p[1], p[2]>>
<1>1. Len(p) \in Nat /\ p[1] \in S /\ p[2] \in S
  OBVIOUS
<1>2. SubSeq(p, 1, 2) \in Seq(S) /\ Len(SubSeq(p, 1, 2)) = 2 /\ SubSeq(p, 1, 2)[1] = p[1] /\ SubSeq(p, 1, 2)[2] = p[2]
  BY <1>1
<1>3. <<p[1], p[2]>> \in Seq(S) /\ Len(<<p[1], p[2]>>) = 2
  BY <1>1
<1>4. \A i \in 1..2 : SubSeq(p, 1, 2)[i] = <<p[1], p[2]>>[i]
  BY <1>2
<1> QED BY <1>2, <1>3, <1>4, SeqEqual

\* Behind one guard exactly is what is below api.
LEMMA ApiIsBehindAGuard ==
    ASSUME NEW method \in {"GET", "HEAD", "POST", "DELETE"}, NEW path \in Seq(STRING),
           NEW r \in Serving!Dispatch(method, path)
    PROVE  (Head(path) = "api") = (Serving!isIngestPath(path) \/ Serving!isApiPath(path))
<1>1. WellFormed(r) /\ Serving!Serves(r, method, path)
  BY RoutesAreWellFormed DEF Serving!Dispatch
<1>2. /\ Len(path) \in 1..5 /\ DOMAIN path = 1..Len(path) /\ Len(r.path) = Len(path) /\ Head(path) = path[1]
      /\ r.path[1] = path[1] /\ (Len(path) >= 2 => r.path[2] = path[2])
  <2>1. Len(r.path) = Len(path) /\ Len(r.path) \in 1..5
    BY <1>1 DEF WellFormed, Serving!Serves
  <2>2. DOMAIN path = 1..Len(path) /\ Head(path) = path[1]
    BY <2>1
  <2>3. \A i \in 1..Len(path) : r.path[i] = path[i] \/ r.path[i] = "id"
    BY <1>1, <2>2 DEF Serving!Serves
  <2>4. \A i \in 1..Len(path) : i # 4 => r.path[i] # "id"
    BY <1>1, <2>1 DEF WellFormed
  <2> QED BY <2>1, <2>2, <2>3, <2>4
<1>3. path[1] = "api" => Len(path) >= 2 /\ path[2] \in ApiNames \cup {"ingest"}
  BY <1>1, <1>2 DEF WellFormed
<1>4. ASSUME NEW a PROVE Serving!IsPrefix(<<"api", a>>, path) <=> Len(path) >= 2 /\ path[1] = "api" /\ path[2] = a
  <2>1. <<"api", a>> \in Seq({"api", a}) /\ Len(<<"api", a>>) = 2 /\ <<"api", a>>[1] = "api" /\ <<"api", a>>[2] = a
    OBVIOUS
  <2>2. SubSeq(<<"api", a>>, 1, 2) = <<"api", a>>
    <3> DEFINE q == <<"api", a>>
               S == {"api", a}
    <3>1. q \in Seq(S) /\ Len(q) >= 2
      BY <2>1
    <3> HIDE DEF q, S
    <3>2. SubSeq(q, 1, 2) = <<q[1], q[2]>>
      BY <3>1, FirstTwo
    <3> QED BY <2>1, <3>2 DEF q
  <2>3. Len(path) >= 2 => SubSeq(path, 1, 2) = <<path[1], path[2]>>
    BY <1>2, FirstTwo
  <2>4. <<"api", a>> = <<path[1], path[2]>> <=> path[1] = "api" /\ path[2] = a
    OBVIOUS
  <2> QED BY <1>2, <2>1, <2>2, <2>3, <2>4 DEF Serving!IsPrefix
<1>5. Serving!isIngestPath(path) <=> path[1] = "api" /\ Len(path) >= 2 /\ path[2] = "ingest"
  BY <1>4 DEF Serving!isIngestPath
<1>6. Serving!isApiPath(path) <=> path[1] = "api" /\ Len(path) >= 2 /\ path[2] \in ApiNames
  <2>1. (\E prefix \in Serving!ApiPrefixes : Serving!IsPrefix(prefix, path))
        <=> \E a \in ApiNames : Serving!IsPrefix(<<"api", a>>, path)
    BY DEF Serving!ApiPrefixes, ApiNames
  <2>2. (\E a \in ApiNames : Serving!IsPrefix(<<"api", a>>, path))
        <=> path[1] = "api" /\ Len(path) >= 2 /\ path[2] \in ApiNames
    BY <1>4 DEF ApiNames
  <2>3. "ingest" \notin ApiNames
    BY DEF ApiNames
  <2> QED BY <1>5, <2>1, <2>2, <2>3 DEF Serving!isApiPath
<1> QED BY <1>2, <1>3, <1>5, <1>6

\* What a guard answers is what the posture says.
LEMMA GuardsKeepThePosture ==
    ASSUME NEW path, NEW mine \in Configs, NEW other \in Configs, NEW header \in Headers, NEW loopback \in BOOLEAN
    PROVE  LET ingest == Serving!isIngestPath(path)
               status == IF ingest THEN Serving!ServeHTTP(path, header, other, mine)
                         ELSE Serving!ServeHTTP(path, header, mine, other)
               posture == IF ingest THEN Serving!ClassifyIngestPosture(mine)
                          ELSE Serving!ClassifyApiPosture(mine, loopback)
               knows == header.bearer /\ Trimmed[header.presented] = Trimmed[mine.token]
           IN  ingest \/ Serving!isApiPath(path) =>
                  status = CASE posture = "AUTHENTICATED" -> IF knows THEN 0 ELSE 401
                             [] posture = "MISCONFIGURED" -> 503
                             [] OTHER -> 0
<1> DEFINE posture(p) == CASE p = "AUTHENTICATED" -> IF header.bearer /\ Trimmed[header.presented] = Trimmed[mine.token]
                                                     THEN 0 ELSE 401
                           [] p = "MISCONFIGURED" -> 503 [] OTHER -> 0
<1>1. header.bearer \in BOOLEAN /\ mine.requireAuth \in BOOLEAN
  BY DEF Headers, Configs
<1>2. Serving!Guard(mine, header) = posture(Serving!ClassifyIngestPosture(mine))
  BY <1>1 DEF Serving!Guard, Serving!ClassifyIngestPosture, Serving!HasToken, Serving!MatchesBearerToken
<1>3. Serving!Guard(mine, header) = posture(Serving!ClassifyApiPosture(mine, loopback))
  BY <1>1 DEF Serving!Guard, Serving!ClassifyApiPosture, Serving!HasToken, Serving!MatchesBearerToken
<1> QED BY <1>2, <1>3 DEF Serving!ServeHTTP

\* Every request is guarded as its path and the posture say.
LEMMA EveryRouteIsGuarded ==
    ASSUME kind = "route" => input \in Seq(Seq(STRING))
    PROVE  RoutesAreGuarded
<1> SUFFICES ASSUME kind = "route", NEW path \in ToSet(input)
             PROVE  /\ \A method \in {"GET", "HEAD", "POST", "DELETE"} :
                          LET routes == Serving!Dispatch(method, path) IN
                          /\ Cardinality(routes) <= 1
                          /\ routes # {} => (Head(path) = "api") = (Serving!isIngestPath(path) \/ Serving!isApiPath(path))
                    /\ ~(Serving!isIngestPath(path) /\ Serving!isApiPath(path))
  BY GuardsKeepThePosture DEF RoutesAreGuarded
<1>1. path \in Seq(STRING)
  BY DEF ToSet
<1>2. ASSUME NEW method \in {"GET", "HEAD", "POST", "DELETE"}
      PROVE  LET routes == Serving!Dispatch(method, path) IN
             /\ Cardinality(routes) <= 1
             /\ routes # {} => (Head(path) = "api") = (Serving!isIngestPath(path) \/ Serving!isApiPath(path))
  <2> DEFINE routes == Serving!Dispatch(method, path)
  <2>1. CASE routes = {}
    BY <2>1, FS_EmptySet
  <2>2. CASE routes # {}
    <3>1. PICK r : r \in routes
      BY <2>2
    <3>2. routes = {r}
      BY <1>1, <3>1, OneRouteServes
    <3>3. Cardinality(routes) = 1
      BY <3>2, FS_Singleton
    <3>4. (Head(path) = "api") = (Serving!isIngestPath(path) \/ Serving!isApiPath(path))
      BY <1>1, <3>1, ApiIsBehindAGuard
    <3> QED BY <3>3, <3>4
  <2> QED BY <2>1, <2>2
<1> QED BY <1>2 DEF Serving!isApiPath

-------------------------------------------------------------------------------
(* Pages. *)

\* An operator of an instance is the one that is extended.
LEMMA SameCardinality == \A S : Serving!Cardinality(S) = Cardinality(S)
  BY DEF Serving!Cardinality, Cardinality

\* The items of a strict total order that are before an item.
Below(L, S, s) == {r \in S : <<r, s>> \in L}
Orders(L, S) ==
    /\ \A a \in S : <<a, a>> \notin L
    /\ \A a, b, c \in S : <<a, b>> \in L /\ <<b, c>> \in L => <<a, c>> \in L
    /\ \A a, b \in S : a # b => <<a, b>> \in L \/ <<b, a>> \in L

\* Each has a number of its own, and every number there is.
LEMMA Ranks ==
    ASSUME NEW S, IsFiniteSet(S), NEW L, Orders(L, S)
    PROVE  /\ \A s \in S : Cardinality(Below(L, S, s)) + 1 \in 1..Cardinality(S)
           /\ \A r, s \in S : <<r, s>> \in L => Cardinality(Below(L, S, r)) < Cardinality(Below(L, S, s))
           /\ \A n \in 1..Cardinality(S) : \E s \in S : Cardinality(Below(L, S, s)) + 1 = n
<1> DEFINE rank == [s \in S |-> Cardinality(Below(L, S, s)) + 1]
           N == 1..Cardinality(S)
<1>1. Cardinality(S) \in Nat /\ IsFiniteSet(N) /\ Cardinality(N) = Cardinality(S)
  BY FS_CardinalityType, FS_Interval
<1>2. ASSUME NEW s \in S
      PROVE  /\ IsFiniteSet(Below(L, S, s)) /\ Cardinality(Below(L, S, s)) \in Nat
             /\ Cardinality(Below(L, S, s)) < Cardinality(S)
  <2>1. Below(L, S, s) \in SUBSET S /\ s \notin Below(L, S, s)
    BY DEF Below, Orders
  <2>2. IsFiniteSet(Below(L, S, s)) /\ Cardinality(Below(L, S, s)) <= Cardinality(S)
        /\ (Cardinality(S) = Cardinality(Below(L, S, s)) => S = Below(L, S, s))
    BY <2>1, FS_Subset
  <2>3. Cardinality(Below(L, S, s)) \in Nat
    BY <2>2, FS_CardinalityType
  <2> QED BY <1>1, <2>1, <2>2, <2>3
<1>3. ASSUME NEW r \in S, NEW s \in S, <<r, s>> \in L
      PROVE  Cardinality(Below(L, S, r)) < Cardinality(Below(L, S, s))
  <2>1. Below(L, S, r) \in SUBSET Below(L, S, s) /\ r \in Below(L, S, s) /\ r \notin Below(L, S, r)
    BY <1>3 DEF Below, Orders
  <2>2. Cardinality(Below(L, S, r)) <= Cardinality(Below(L, S, s))
        /\ (Cardinality(Below(L, S, s)) = Cardinality(Below(L, S, r)) => Below(L, S, s) = Below(L, S, r))
    BY <1>2, <2>1, FS_Subset
  <2> QED BY <1>2, <2>1, <2>2
<1>4. \A s \in S : rank[s] \in N
  BY <1>1, <1>2
<1>5. \A r, s \in S : rank[r] = rank[s] => r = s
  <2> SUFFICES ASSUME NEW r \in S, NEW s \in S, r # s PROVE rank[r] # rank[s]
    OBVIOUS
  <2>1. <<r, s>> \in L \/ <<s, r>> \in L
    BY DEF Orders
  <2> QED BY <1>2, <1>3, <2>1
<1>6. rank \in Injection(S, N)
  <2>1. rank \in [S -> N]
    BY <1>4
  <2> HIDE DEF N
  <2> QED BY <1>5, <2>1 DEF Injection, IsInjective
<1>7. rank \in Surjection(S, N)
  <2> HIDE DEF rank, N
  <2> QED BY <1>1, <1>6, FS_Injection
<1>8. \A n \in N : \E s \in S : rank[s] = n
  <2> HIDE DEF N
  <2> QED BY <1>7 DEF Surjection
<1> QED BY <1>3, <1>4, <1>8

\* The sessions of an input, and how they are listed.
Listed(w) == {[id |-> i, updated |-> w[i]] : i \in DOMAIN w}

\* There are as many sessions as the input has numbers.
LEMMA SessionsAreFinite ==
    ASSUME NEW w \in Seq(Int)
    PROVE  IsFiniteSet(Listed(w)) /\ Cardinality(Listed(w)) = Len(w)
<1> DEFINE f == [i \in 1..Len(w) |-> [id |-> i, updated |-> w[i]]]
           N == 1..Len(w)
<1>1. Len(w) \in Nat /\ DOMAIN w = N /\ IsFiniteSet(N) /\ Cardinality(N) = Len(w)
  <2>1. Len(w) \in Nat /\ DOMAIN w = N
    OBVIOUS
  <2> QED BY <2>1, FS_Interval
<1>2. \A i \in N : f[i] \in Listed(w)
  BY <1>1 DEF Listed
<1>3. \A s \in Listed(w) : \E i \in N : f[i] = s
  BY <1>1 DEF Listed
<1>4. \A i, j \in N : f[i] = f[j] => i = j
  OBVIOUS
<1>5. f \in Surjection(N, Listed(w)) /\ f \in Injection(N, Listed(w))
  <2>1. f \in [N -> Listed(w)]
    BY <1>2
  <2> HIDE DEF f, N
  <2> QED BY <1>3, <1>4, <2>1 DEF Surjection, Injection, IsInjective
<1> HIDE DEF f, N
<1> QED BY <1>1, <1>5, FS_Surjection

\* The rows of ListConversations are the sessions, each once, newest first.
LEMMA NewestFirst ==
    ASSUME NEW w \in Seq(Int)
    PROVE  LET newest == Serving!Newest(Listed(w)) IN
           /\ newest \in Seq(Listed(w)) /\ Len(newest) = Len(w) /\ ToSet(newest) = Listed(w)
           /\ \A i \in 2..Len(newest) : newest[i].updated <= newest[i - 1].updated
<1> DEFINE S == Listed(w)
           n == Len(w)
           L == {p \in S \X S : Serving!Before(p[1], p[2])}
           newest == Serving!Newest(S)
<1>1. n \in Nat /\ IsFiniteSet(S) /\ Cardinality(S) = n
  BY SessionsAreFinite
<1>2. \A s \in S : s.id \in Int /\ s.updated \in Int
  BY DEF Listed
<1>3. \A r, s \in S : r.id = s.id => r = s
  BY DEF Listed
<1>4. \A r, s : <<r, s>> \in L <=> r \in S /\ s \in S /\ (r.updated > s.updated \/ (r.updated = s.updated /\ r.id < s.id))
  BY DEF Serving!Before
<1> HIDE DEF S, n, L
<1>5. Orders(L, S)
  <2>1. \A a \in S : <<a, a>> \notin L
    BY <1>2, <1>4
  <2>2. \A a, b, c \in S : <<a, b>> \in L /\ <<b, c>> \in L => <<a, c>> \in L
    BY <1>2, <1>4
  <2>3. \A a, b \in S : a # b => <<a, b>> \in L \/ <<b, a>> \in L
    BY <1>2, <1>3, <1>4
  <2> QED BY <2>1, <2>2, <2>3 DEF Orders
<1>6. \A s \in S : Below(L, S, s) = {r \in S : Serving!Before(r, s)}
  BY DEF Below, L
<1>7. newest = [k \in 1..Serving!Cardinality(S) |->
                   CHOOSE s \in S : Serving!Cardinality({r \in S : Serving!Before(r, s)}) = k - 1]
  BY DEF Serving!Newest
<1>8. /\ \A s \in S : Cardinality(Below(L, S, s)) + 1 \in 1..n
      /\ \A r, s \in S : <<r, s>> \in L => Cardinality(Below(L, S, r)) < Cardinality(Below(L, S, s))
      /\ \A k \in 1..n : \E s \in S : Cardinality(Below(L, S, s)) + 1 = k
  BY <1>1, <1>5, Ranks
<1>9. \A s \in S : Cardinality(Below(L, S, s)) \in Nat
  <2> SUFFICES ASSUME NEW s \in S PROVE Cardinality(Below(L, S, s)) \in Nat
    OBVIOUS
  <2>1. Below(L, S, s) \in SUBSET S
    BY DEF Below
  <2> QED BY <1>1, <2>1, FS_Subset, FS_CardinalityType
<1>10. \A k \in 1..n : newest[k] \in S /\ Cardinality(Below(L, S, newest[k])) = k - 1
  <2> SUFFICES ASSUME NEW k \in 1..n PROVE newest[k] \in S /\ Cardinality(Below(L, S, newest[k])) = k - 1
    OBVIOUS
  <2>1. \E s \in S : Serving!Cardinality({r \in S : Serving!Before(r, s)}) = k - 1
    <3>1. PICK s \in S : Cardinality(Below(L, S, s)) + 1 = k
      BY <1>8
    <3>2. Cardinality(Below(L, S, s)) = k - 1
      BY <1>9, <3>1
    <3> QED BY <1>6, <3>2, SameCardinality
  <2> HIDE DEF newest
  <2>2. newest[k] \in S /\ Cardinality({r \in S : Serving!Before(r, newest[k])}) = k - 1
    <3>1. newest[k] = CHOOSE s \in S : Serving!Cardinality({r \in S : Serving!Before(r, s)}) = k - 1
      BY <1>1, <1>7, SameCardinality
    <3> QED BY <2>1, <3>1, SameCardinality
  <2> QED BY <1>6, <2>2
<1> HIDE DEF newest
<1>11. newest \in Seq(S) /\ Len(newest) = n /\ DOMAIN newest = 1..n
  <2>1. newest \in [1..n -> S]
    <3>1. newest = [k \in 1..n |-> newest[k]]
      <4> DEFINE nth(k) == CHOOSE s \in S : Serving!Cardinality({r \in S : Serving!Before(r, s)}) = k - 1
      <4>1. newest = [k \in 1..Serving!Cardinality(S) |-> nth(k)]
        BY <1>7
      <4> HIDE DEF nth
      <4>2. newest = [k \in 1..n |-> nth(k)]
        BY <1>1, <4>1, SameCardinality
      <4> QED BY <4>2
    <3> QED BY <1>10, <3>1
  <2> QED BY <1>1, <2>1, SeqDef
<1>12. ToSet(newest) = S
  <2>1. \A s \in S : \E k \in 1..n : newest[k] = s
    <3> SUFFICES ASSUME NEW s \in S PROVE \E k \in 1..n : newest[k] = s
      OBVIOUS
    <3> DEFINE k == Cardinality(Below(L, S, s)) + 1
    <3>1. k \in 1..n /\ k - 1 = Cardinality(Below(L, S, s))
      BY <1>8, <1>9
    <3>2. newest[k] \in S /\ Cardinality(Below(L, S, newest[k])) = Cardinality(Below(L, S, s))
      BY <1>10, <3>1
    <3> HIDE DEF k
    <3>3. newest[k] = s
      <4> DEFINE r == newest[k]
      <4>1. r \in S /\ Cardinality(Below(L, S, r)) = Cardinality(Below(L, S, s))
        BY <3>2
      <4> HIDE DEF r
      <4>2. r # s => <<r, s>> \in L \/ <<s, r>> \in L
        BY <1>5, <4>1 DEF Orders
      <4>3. r = s
        BY <1>8, <1>9, <4>1, <4>2
      <4> QED BY <4>3 DEF r
    <3> QED BY <3>1, <3>3
  <2> QED BY <1>10, <1>11, <2>1 DEF ToSet
<1>13. ASSUME NEW i \in 2..Len(newest) PROVE newest[i].updated <= newest[i - 1].updated
  <2>1. i \in 1..n /\ i - 1 \in 1..n
    BY <1>1, <1>11
  <2> DEFINE a == newest[i - 1]
             b == newest[i]
  <2>2. a \in S /\ b \in S /\ Cardinality(Below(L, S, a)) = (i - 1) - 1 /\ Cardinality(Below(L, S, b)) = i - 1
    BY <1>10, <2>1
  <2> HIDE DEF a, b
  <2>3. ~(<<b, a>> \in L)
    BY <1>8, <2>1, <2>2
  <2>4. b.updated <= a.updated
    BY <1>2, <1>4, <2>2, <2>3
  <2> QED BY <2>4 DEF a, b
<1> QED BY <1>11, <1>12, <1>13 DEF S, n, newest

\* Two sequences, one after the other.
LEMMA OfTwo ==
    ASSUME NEW a \in Int, NEW b \in Int
    PROVE  Max({a, b}) = (IF a >= b THEN a ELSE b) /\ Min({a, b}) = (IF a <= b THEN a ELSE b)
<1>1. \E x \in {a, b} : \A y \in {a, b} : x >= y
  OBVIOUS
<1>2. \E x \in {a, b} : \A y \in {a, b} : x <= y
  OBVIOUS
<1>3. Max({a, b}) \in {a, b} /\ \A y \in {a, b} : Max({a, b}) >= y
  BY <1>1 DEF Max
<1>4. Min({a, b}) \in {a, b} /\ \A y \in {a, b} : Min({a, b}) <= y
  BY <1>2 DEF Min
<1> QED BY <1>3, <1>4

\* The page of a request.
LEMMA PageIs ==
    ASSUME NEW S, NEW asked \in {Blank} \cup Int
    PROVE  \E limit \in 1..MaxLimit : \A offset \in Int :
              LET from == IF offset < 0 THEN 0 ELSE offset IN
              Serving!handleListConversations(S, asked, offset)
                 = [items |-> Serving!ListConversations(S, limit, from), total |-> Cardinality(S),
                    limit |-> limit, offset |-> from]
<1> DEFINE want == IF asked = Blank THEN DefaultLimit ELSE asked
           limit == Serving!clamp(want, 1, MaxLimit)
<1>1. \A s : Serving!Max(s) = Max(s) /\ Serving!Min(s) = Min(s)
  BY DEF Serving!Max, Serving!Min, Max, Min
<1>2. want \in Int /\ MaxLimit \in Int /\ MaxLimit >= 1
  BY Requests
<1> HIDE DEF want
<1>3. limit \in 1..MaxLimit
  <2>1. Min({MaxLimit, want}) = IF MaxLimit <= want THEN MaxLimit ELSE want
    BY <1>2, OfTwo
  <2>2. Min({MaxLimit, want}) \in Int /\ Min({MaxLimit, want}) <= MaxLimit
    BY <1>2, <2>1
  <2>3. limit = Max({1, Min({MaxLimit, want})})
    BY <1>1 DEF Serving!clamp
  <2>4. limit = IF 1 >= Min({MaxLimit, want}) THEN 1 ELSE Min({MaxLimit, want})
    BY <2>2, <2>3, OfTwo
  <2> QED BY <1>2, <2>2, <2>4
<1>4. ASSUME NEW offset \in Int
      PROVE  Serving!Max({0, IF offset = Blank THEN 0 ELSE offset}) = IF offset < 0 THEN 0 ELSE offset
  <2>1. offset # Blank
    BY Requests
  <2>2. Max({0, offset}) = IF 0 >= offset THEN 0 ELSE offset
    BY OfTwo
  <2> QED BY <1>1, <2>1, <2>2
<1>5. ASSUME NEW offset \in Int
      PROVE  LET from == IF offset < 0 THEN 0 ELSE offset IN
             Serving!handleListConversations(S, asked, offset)
                = [items |-> Serving!ListConversations(S, limit, from), total |-> Cardinality(S),
                   limit |-> limit, offset |-> from]
  <2>1. Serving!clamp(IF asked = Blank THEN DefaultLimit ELSE asked, 1, MaxLimit) = limit
    BY DEF want
  <2> HIDE DEF limit
  <2> QED BY <1>4, <2>1, SameCardinality DEF Serving!handleListConversations
<1> HIDE DEF limit
<1> QED BY <1>3, <1>5

\* A beginning of a sequence, and what follows it.
LEMMA Halves ==
    ASSUME NEW S, NEW s \in Seq(S), NEW a \in Nat, NEW b \in Nat, a <= b, b <= Len(s)
    PROVE  SubSeq(s, 1, a) \o SubSeq(s, a + 1, b) = SubSeq(s, 1, b)
<1>1. Len(s) \in Nat /\ \A i \in 1..Len(s) : s[i] \in S
  OBVIOUS
<1>2. /\ SubSeq(s, 1, a) \in Seq(S) /\ Len(SubSeq(s, 1, a)) = a
      /\ \A i \in 1..a : SubSeq(s, 1, a)[i] = s[i]
  <2>1. a \in 0..Len(s)
    BY <1>1
  <2> QED BY <2>1, Beginning
<1>3. /\ SubSeq(s, 1, b) \in Seq(S) /\ Len(SubSeq(s, 1, b)) = b
      /\ \A i \in 1..b : SubSeq(s, 1, b)[i] = s[i]
  <2>1. b \in 0..Len(s)
    BY <1>1
  <2> QED BY <2>1, Beginning
<1>4. /\ SubSeq(s, a + 1, b) \in Seq(S) /\ Len(SubSeq(s, a + 1, b)) = b - a
      /\ \A i \in 1..(b - a) : SubSeq(s, a + 1, b)[i] = s[a + i]
  <2>1. \A i \in (a + 1)..b : s[i] \in S
    BY <1>1
  <2> DEFINE y == SubSeq(s, a + 1, b)
  <2>2. /\ y \in Seq(S) /\ Len(y) = IF a + 1 <= b THEN b - (a + 1) + 1 ELSE 0
        /\ \A i \in 1..(b - (a + 1) + 1) : y[i] = s[(a + 1) + i - 1]
    BY <2>1, SubSeqProperties, a + 1 \in Int
  <2> HIDE DEF y
  <2>3. b - (a + 1) + 1 = b - a
    OBVIOUS
  <2>4. Len(y) = b - a
    BY <2>2, <2>3
  <2>5. ASSUME NEW i \in 1..(b - a) PROVE y[i] = s[a + i]
    <3>1. (a + 1) + i - 1 = a + i
      OBVIOUS
    <3> QED BY <2>2, <2>3, <3>1
  <2> QED BY <2>2, <2>4, <2>5 DEF y
<1> DEFINE x == SubSeq(s, 1, a)
           y == SubSeq(s, a + 1, b)
           z == SubSeq(s, 1, b)
<1> HIDE DEF x, y, z
<1>5. /\ x \in Seq(S) /\ y \in Seq(S) /\ z \in Seq(S) /\ Len(x) = a /\ Len(y) = b - a /\ Len(z) = b
      /\ \A i \in 1..a : x[i] = z[i]
      /\ \A i \in 1..(b - a) : y[i] = z[a + i]
  BY <1>2, <1>3, <1>4 DEF x, y, z
<1>6. x \o y \in Seq(S) /\ Len(x \o y) = b
      /\ \A i \in 1..b : (x \o y)[i] = IF i <= a THEN x[i] ELSE y[i - a]
  <2>1. /\ x \o y \in Seq(S) /\ Len(x \o y) = Len(x) + Len(y)
        /\ \A i \in 1..(Len(x) + Len(y)) : (x \o y)[i] = IF i <= Len(x) THEN x[i] ELSE y[i - Len(x)]
    BY <1>5, ConcatProperties
  <2>2. Len(x) + Len(y) = b
    BY <1>5
  <2> QED BY <1>5, <2>1, <2>2
<1>7. ASSUME NEW i \in 1..b PROVE (x \o y)[i] = z[i]
  <2>1. CASE i <= a
    BY <1>5, <1>6, <2>1
  <2>2. CASE ~(i <= a)
    <3>1. i - a \in 1..(b - a) /\ a + (i - a) = i
      BY <2>2
    <3> QED BY <1>5, <1>6, <2>2, <3>1
  <2> QED BY <2>1, <2>2
<1>8. x \o y = z
  BY <1>5, <1>6, <1>7, SeqEqual
<1> QED BY <1>8 DEF x, y, z

\* The pages up to the k-th are a beginning of the list.
LEMMA PagesRun ==
    ASSUME NEW S, NEW list \in Seq(S), NEW limit \in Nat \ {0}, NEW count \in Nat, NEW pages \in Seq(Seq(S)),
           Len(pages) = count, count * limit >= Len(list),
           \A k \in 1..count : pages[k] = SubSeq(list, (k - 1) * limit + 1, Min({(k - 1) * limit + limit, Len(list)}))
    PROVE  FlattenSeq(pages) = list
<1> DEFINE n == Len(list)
           upTo(k) == Min({k * limit, n})
<1>1. PICK g : Flattens(g, pages) /\ FlattenSeq(pages) = g[count]
  BY FlattenRuns
<1>2. n \in Nat /\ count \in Nat /\ limit \in Nat /\ limit # 0
  OBVIOUS
<1>3. ASSUME NEW k \in Nat
      PROVE  /\ k * limit \in Nat /\ (k + 1) * limit = k * limit + limit
             /\ upTo(k) \in Nat /\ upTo(k) <= n /\ upTo(k) <= k * limit
             /\ (k * limit <= n => upTo(k) = k * limit) /\ (k * limit >= n => upTo(k) = n)
  <2>1. k * limit \in Nat /\ (k + 1) * limit = k * limit + limit
    BY <1>2
  <2> DEFINE kl == k * limit
  <2>2. kl \in Int /\ n \in Int
    BY <1>2, <2>1
  <2> HIDE DEF kl, n
  <2>3. Min({kl, n}) = IF kl <= n THEN kl ELSE n
    BY <2>2, OfTwo
  <2> QED BY <1>2, <2>1, <2>3 DEF kl
<1> HIDE DEF n, upTo
<1> DEFINE B == {k \in Nat : k <= count => g[k] = SubSeq(list, 1, upTo(k))}
<1>4. 0 \in B
  <2>1. 0 * limit = 0
    BY <1>2
  <2>2. upTo(0) = 0
    <3>1. 0 \in Nat /\ 0 * limit <= n
      BY <1>2, <2>1
    <3> QED BY <1>3, <2>1, <3>1
  <2>3. SubSeq(list, 1, 0) = <<>>
    OBVIOUS
  <2> QED BY <1>1, <2>2, <2>3 DEF Flattens
<1>5. ASSUME NEW k \in Nat, k \in B PROVE k + 1 \in B
  <2> SUFFICES ASSUME k + 1 <= count PROVE g[k + 1] = SubSeq(list, 1, upTo(k + 1))
    OBVIOUS
  <2>1. g[k] = SubSeq(list, 1, upTo(k)) /\ k + 1 \in 1..count /\ (k + 1) - 1 = k
    BY <1>2, <1>5
  <2>2. g[k + 1] = g[k] \o pages[k + 1]
    BY <1>1, <2>1 DEF Flattens
  <2> DEFINE a == k * limit
  <2>3. /\ a \in Nat /\ a + limit = (k + 1) * limit /\ pages[k + 1] = SubSeq(list, a + 1, upTo(k + 1))
        /\ upTo(k) \in Nat /\ upTo(k + 1) \in Nat /\ upTo(k) <= n /\ upTo(k + 1) <= n
    <3>1. pages[k + 1] = SubSeq(list, a + 1, Min({a + limit, n}))
      BY <2>1 DEF n
    <3>2. k + 1 \in Nat /\ a \in Nat /\ a + limit = (k + 1) * limit
      BY <1>3
    <3>3. pages[k + 1] = SubSeq(list, a + 1, upTo(k + 1))
      BY <3>1, <3>2 DEF upTo
    <3> QED BY <1>3, <3>2, <3>3
  <2>6. /\ (a <= n => upTo(k) = a) /\ (a >= n => upTo(k) = n)
        /\ (a + limit <= n => upTo(k + 1) = a + limit) /\ (a + limit >= n => upTo(k + 1) = n)
    BY <1>3, <2>3
  <2>4. CASE a <= n
    <3> HIDE DEF a
    <3>1. upTo(k) = a
      BY <2>4, <2>6
    <3>2. a <= upTo(k + 1)
      BY <1>2, <2>3, <2>4, <2>6
    <3>3. SubSeq(list, 1, a) \o SubSeq(list, a + 1, upTo(k + 1)) = SubSeq(list, 1, upTo(k + 1))
      BY <1>2, <2>3, <2>4, <3>2, Halves DEF n
    <3> QED BY <2>1, <2>2, <2>3, <3>1, <3>3
  <2>5. CASE a > n
    <3> HIDE DEF a
    <3>1. upTo(k) = n /\ upTo(k + 1) = n
      BY <1>2, <2>3, <2>5, <2>6
    <3>2. SubSeq(list, a + 1, n) = <<>>
      BY <1>2, <2>3, <2>5
    <3>3. SubSeq(list, 1, n) \in Seq(S)
      BY <1>2 DEF n
    <3>4. SubSeq(list, 1, n) \o <<>> = SubSeq(list, 1, n)
      BY <3>3
    <3> QED BY <2>1, <2>2, <2>3, <3>1, <3>2, <3>4
  <2>7. a <= n \/ a > n
    <3> HIDE DEF a
    <3> QED BY <1>2, <2>3
  <2> QED BY <2>4, <2>5, <2>7
<1>6. count \in B
  <2> HIDE DEF B
  <2> QED BY <1>2, <1>4, <1>5, NatByStep
<1>7. upTo(count) = n
  BY <1>2, <1>3 DEF n
<1>8. SubSeq(list, 1, n) = list
  BY DEF n
<1> QED BY <1>1, <1>2, <1>6, <1>7, <1>8

\* A client that goes on sees every session once.
LEMMA PagesShowEverySession ==
    ASSUME kind = "list" => input \in Seq(Int)
    PROVE  PagesCoverTheList
<1> SUFFICES ASSUME kind = "list", NEW asked \in {Blank, -1, 0, 1, 2, 9}
             PROVE  LET sessions == {[id |-> i, updated |-> input[i]] : i \in DOMAIN input}
                        page(k, limit) == Serving!handleListConversations(sessions, asked, k * limit)
                        limit == page(0, 0).limit
                        seen == FlattenSeq([k \in 1..((Len(input) + limit - 1) \div limit) |-> page(k - 1, limit).items])
                    IN  /\ ToSet(seen) = sessions /\ Len(seen) = page(0, limit).total
                        /\ \A i \in 2..Len(seen) : seen[i].updated <= seen[i - 1].updated
                        /\ Serving!handleListConversations(sessions, asked, -1) = page(0, limit)
  BY DEF PagesCoverTheList
<1> DEFINE S == Listed(input)
           n == Len(input)
           page(k, l) == Serving!handleListConversations(S, asked, k * l)
           limit == page(0, 0).limit
           count == (n + limit - 1) \div limit
           pages == [k \in 1..count |-> page(k - 1, limit).items]
           list == Serving!Newest(S)
<1>1. S = {[id |-> i, updated |-> input[i]] : i \in DOMAIN input}
  BY DEF Listed
<1>2. /\ list \in Seq(S) /\ Len(list) = n /\ ToSet(list) = S
      /\ \A i \in 2..Len(list) : list[i].updated <= list[i - 1].updated
  BY NewestFirst
<1>3. Cardinality(S) = n /\ n \in Nat
  BY SessionsAreFinite
<1>0. asked \in {Blank} \cup Int
  OBVIOUS
<1>4. PICK l \in 1..MaxLimit : \A offset \in Int :
              LET from == IF offset < 0 THEN 0 ELSE offset IN
              Serving!handleListConversations(S, asked, offset)
                 = [items |-> Serving!ListConversations(S, l, from), total |-> Cardinality(S),
                    limit |-> l, offset |-> from]
  BY <1>0, PageIs
<1> HIDE DEF S, list, n
<1>5. \A k \in Nat : page(k, l) = [items |-> Serving!ListConversations(S, l, k * l), total |-> n,
                                    limit |-> l, offset |-> k * l]
  <2> SUFFICES ASSUME NEW k \in Nat
               PROVE  page(k, l) = [items |-> Serving!ListConversations(S, l, k * l), total |-> n,
                                    limit |-> l, offset |-> k * l]
    OBVIOUS
  <2>1. k * l \in Int /\ ~(k * l < 0)
    BY Requests
  <2> QED BY <1>3, <1>4, <2>1
<1>6. limit = l /\ Serving!handleListConversations(S, asked, -1) = page(0, l)
  <2>1. 0 * 0 = 0 /\ 0 * l = 0
    BY Requests
  <2> QED BY <1>4, <2>1
<1> HIDE DEF page, limit
<1>7. l \in Nat \ {0} /\ count \in Nat /\ count * l >= n
  <2>1. l \in Nat /\ l # 0 /\ l > 0
    BY Requests
  <2> DEFINE m == n + l - 1
  <2>2. m \in Nat
    BY <1>3, <2>1
  <2> HIDE DEF m
  <2>3. m \div l \in Nat /\ m < (m \div l) * l + l
    BY <2>1, <2>2
  <2>4. (m \div l) * l \in Nat
    BY <2>1, <2>3
  <2>5. (m \div l) * l >= n
    BY <1>3, <2>1, <2>3, <2>4 DEF m
  <2>6. count = m \div l
    BY <1>6 DEF m
  <2> QED BY <2>1, <2>3, <2>5, <2>6
<1>8. /\ pages \in Seq(Seq(S)) /\ Len(pages) = count
      /\ \A k \in 1..count : pages[k] = SubSeq(list, (k - 1) * l + 1, Min({(k - 1) * l + l, Len(list)}))
  <2>1. ASSUME NEW k \in 1..count
        PROVE  /\ page(k - 1, limit).items = SubSeq(list, (k - 1) * l + 1, Min({(k - 1) * l + l, Len(list)}))
               /\ page(k - 1, limit).items \in Seq(S)
    <3>1. k - 1 \in Nat
      BY <1>7
    <3>2. page(k - 1, limit).items = Serving!ListConversations(S, l, (k - 1) * l)
      BY <1>5, <1>6, <3>1
    <3> DEFINE a == (k - 1) * l
    <3>3. a \in Nat /\ a + l \in Int /\ Len(list) \in Int
      BY <1>7, <1>2, <1>3, <3>1
    <3> HIDE DEF a
    <3>4. Serving!Min({a + l, Len(list)}) = Min({a + l, Len(list)})
      BY DEF Serving!Min, Min
    <3>5. Serving!ListConversations(S, l, a) = SubSeq(list, a + 1, Min({a + l, Len(list)}))
      BY <3>4 DEF Serving!ListConversations, list
    <3>6. Min({a + l, Len(list)}) \in Int /\ Min({a + l, Len(list)}) <= Len(list)
      <4>1. \A x, y \in Int : Min({x, y}) \in Int /\ Min({x, y}) <= y
        <5> SUFFICES ASSUME NEW x \in Int, NEW y \in Int PROVE Min({x, y}) \in Int /\ Min({x, y}) <= y
          OBVIOUS
        <5>1. Min({x, y}) = IF x <= y THEN x ELSE y
          BY OfTwo
        <5> QED BY <5>1
      <4> QED BY <3>3, <4>1
    <3> DEFINE b == Min({a + l, Len(list)})
    <3> HIDE DEF b
    <3>7. b \in Int /\ b <= Len(list)
      BY <3>6 DEF b
    <3>8. SubSeq(list, a + 1, b) \in Seq(S)
      <4>1. \A i \in (a + 1)..b : list[i] \in S
        BY <1>2, <3>3, <3>7
      <4>2. a + 1 \in Int
        BY <3>3
      <4> QED BY <3>7, <4>1, <4>2, SubSeqProperties
    <3> QED BY <3>2, <3>5, <3>8 DEF a, b
  <2> DEFINE X == Seq(S)
  <2>2. pages \in [1..count -> X]
    BY <2>1
  <2> HIDE DEF X, count
  <2>3. pages \in Seq(X) /\ Len(pages) = count
    BY <1>7, <2>2, SeqDef
  <2> QED BY <2>1, <2>3 DEF X
<1> HIDE DEF count, pages
<1>9. FlattenSeq(pages) = list
  BY <1>2, <1>7, <1>8, PagesRun
<1>10. page(0, limit).total = n
  BY <1>5, <1>6
<1>11. Serving!handleListConversations(S, asked, -1) = page(0, limit)
  BY <1>6
<1> QED BY <1>1, <1>2, <1>9, <1>10, <1>11 DEF page, limit, count, pages, n

-------------------------------------------------------------------------------
(* Preview. *)

\* What a path is.
Path == Seq(Alphabet["path"])

\* Clean, one segment after the other.
LEMMA CleanRuns ==
    ASSUME NEW path \in Path
    PROVE  \E g : /\ g[0] = <<>> /\ Serving!Clean(path) = g[Len(path)]
                  /\ \A k \in 1..Len(path) : g[k] = Serving!Walk(g[k - 1], path[k])
<1> DEFINE N == Alphabet["path"]
           It(h) == h = [r \in SUBSET DOMAIN path |->
                            IF r = {} THEN <<>> ELSE Serving!Walk(h[r \ {Max(r)}], path[Max(r)])]
           F == [q \in Seq(N) \X N |-> Serving!Walk(q[1], q[2])]
           iter == CHOOSE h : It(h)
           n == Len(path)
<1>1. n \in Nat /\ DOMAIN path = 1..n /\ path \in Seq(N) /\ <<>> \in Seq(N)
  BY DEF Path
<1>2. F \in [Seq(N) \X N -> Seq(N)]
  <2>1. ASSUME NEW p \in Seq(N), NEW name \in N PROVE Serving!Walk(p, name) \in Seq(N)
    <3> HIDE DEF N
    <3>1. Append(p, name) \in Seq(N)
      OBVIOUS
    <3>2. p # <<>> => SubSeq(p, 1, Len(p) - 1) \in Seq(N)
      OBVIOUS
    <3> QED BY <3>1, <3>2 DEF Serving!Walk, Serving!Front
  <2> QED BY <2>1
<1>3. \E h : It(h)
  <2>1. PICK h \in [SUBSET DOMAIN path -> Seq(N)] : Folds(h, path, <<>>, F)
    <3> HIDE DEF F, N
    <3> QED BY <1>1, <1>2, FoldIteration
  <2>2. ASSUME NEW r \in SUBSET DOMAIN path, r # {}
        PROVE  F[<<h[r \ {Max(r)}], path[Max(r)]>>] = Serving!Walk(h[r \ {Max(r)}], path[Max(r)])
    <3>1. Max(r) \in 1..n
      BY <1>1, <2>2, GreatestOfPart
    <3>2. path[Max(r)] \in N /\ h[r \ {Max(r)}] \in Seq(N)
      BY <1>1, <3>1
    <3> HIDE DEF N
    <3> QED BY <3>2
  <2>3. It(h)
    BY <2>1, <2>2 DEF Folds
  <2> QED BY <2>3
<1>4. It(iter)
  BY <1>3
<1>5. Serving!Clean(path) = iter[DOMAIN path]
  BY DEF Serving!Clean, Serving!FoldLeft, Serving!MapThenFoldSet, Max, Serving!Max
<1>6. iter[1..0] = <<>> /\ \A k \in 1..n : iter[1..k] = Serving!Walk(iter[1..(k - 1)], path[k])
  <2> HIDE DEF iter, n
  <2>1. iter[1..0] = <<>>
    BY <1>1, <1>4
  <2>2. ASSUME NEW k \in 1..n PROVE iter[1..k] = Serving!Walk(iter[1..(k - 1)], path[k])
    <3>1. 1..k \in SUBSET DOMAIN path /\ 1..k # {} /\ Max(1..k) = k /\ (1..k) \ {k} = 1..(k - 1)
      BY <1>1, UpTo
    <3> QED BY <1>4, <3>1
  <2> QED BY <2>1, <2>2
<1> DEFINE g == [k \in 0..n |-> iter[1..k]]
<1>7. /\ g[0] = <<>> /\ Serving!Clean(path) = g[n]
      /\ \A k \in 1..n : g[k] = Serving!Walk(g[k - 1], path[k])
  <2> HIDE DEF iter, n
  <2> QED BY <1>1, <1>5, <1>6
<1> HIDE DEF g
<1> QED BY <1>7

\* EvalSymlinks, one segment after the other.
LEMMA FollowRuns ==
    ASSUME NEW path \in Path
    PROVE  \E g : /\ g[0] = <<>> /\ Serving!EvalSymlinks(path) = g[Len(path)]
                  /\ \A k \in 1..Len(path) : g[k] = Serving!Follow(g[k - 1], path[k])
<1> DEFINE N == Alphabet["path"]
           It(h) == h = [r \in SUBSET DOMAIN path |->
                            IF r = {} THEN <<>> ELSE Serving!Follow(h[r \ {Max(r)}], path[Max(r)])]
           F == [q \in Seq(N) \X N |-> Serving!Follow(q[1], q[2])]
           iter == CHOOSE h : It(h)
           n == Len(path)
<1>1. n \in Nat /\ DOMAIN path = 1..n /\ path \in Seq(N) /\ <<>> \in Seq(N)
  BY DEF Path
<1>2. F \in [Seq(N) \X N -> Seq(N)]
  <2>1. ASSUME NEW p \in Seq(N), NEW name \in N PROVE Serving!Follow(p, name) \in Seq(N)
    <3>1. Append(p, name) \in Seq(N)
      <4> HIDE DEF N
      <4> QED OBVIOUS
    <3> QED BY <3>1, FileSystem DEF Serving!Follow
  <2> QED BY <2>1
<1>3. \E h : It(h)
  <2>1. PICK h \in [SUBSET DOMAIN path -> Seq(N)] : Folds(h, path, <<>>, F)
    <3> HIDE DEF F, N
    <3> QED BY <1>1, <1>2, FoldIteration
  <2>2. ASSUME NEW r \in SUBSET DOMAIN path, r # {}
        PROVE  F[<<h[r \ {Max(r)}], path[Max(r)]>>] = Serving!Follow(h[r \ {Max(r)}], path[Max(r)])
    <3>1. Max(r) \in 1..n
      BY <1>1, <2>2, GreatestOfPart
    <3>2. path[Max(r)] \in N /\ h[r \ {Max(r)}] \in Seq(N)
      BY <1>1, <3>1
    <3> HIDE DEF N
    <3> QED BY <3>2
  <2>3. It(h)
    BY <2>1, <2>2 DEF Folds
  <2> QED BY <2>3
<1>4. It(iter)
  BY <1>3
<1>5. Serving!EvalSymlinks(path) = iter[DOMAIN path]
  BY DEF Serving!EvalSymlinks, Serving!FoldLeft, Serving!MapThenFoldSet, Max, Serving!Max
<1>6. iter[1..0] = <<>> /\ \A k \in 1..n : iter[1..k] = Serving!Follow(iter[1..(k - 1)], path[k])
  <2> HIDE DEF iter, n
  <2>1. iter[1..0] = <<>>
    BY <1>1, <1>4
  <2>2. ASSUME NEW k \in 1..n PROVE iter[1..k] = Serving!Follow(iter[1..(k - 1)], path[k])
    <3>1. 1..k \in SUBSET DOMAIN path /\ 1..k # {} /\ Max(1..k) = k /\ (1..k) \ {k} = 1..(k - 1)
      BY <1>1, UpTo
    <3> QED BY <1>4, <3>1
  <2> QED BY <2>1, <2>2
<1> DEFINE g == [k \in 0..n |-> iter[1..k]]
<1>7. /\ g[0] = <<>> /\ Serving!EvalSymlinks(path) = g[n]
      /\ \A k \in 1..n : g[k] = Serving!Follow(g[k - 1], path[k])
  <2> HIDE DEF iter, n
  <2> QED BY <1>1, <1>5, <1>6
<1> HIDE DEF g
<1> QED BY <1>7

\* A path without "." and "..", and one no beginning of which is a link.
NoDots(p) == \A i \in DOMAIN p : p[i] \notin {".", ".."}
Resolved(p) == \A k \in DOMAIN p : SubSeq(p, 1, k) \notin DOMAIN Target

\* Cleaned of its dots, a path has none.
LEMMA CleanHasNoDots ==
    ASSUME NEW path \in Path
    PROVE  Serving!Clean(path) \in Path /\ NoDots(Serving!Clean(path))
<1>1. PICK g : /\ g[0] = <<>> /\ Serving!Clean(path) = g[Len(path)]
               /\ \A k \in 1..Len(path) : g[k] = Serving!Walk(g[k - 1], path[k])
  BY CleanRuns
<1> DEFINE B == {k \in Nat : k <= Len(path) => g[k] \in Path /\ NoDots(g[k])}
<1>2. 0 \in B
  <2>1. <<>> \in Path /\ NoDots(<<>>)
    BY DEF Path, NoDots
  <2> QED BY <1>1, <2>1
<1>3. ASSUME NEW k \in Nat, k \in B PROVE k + 1 \in B
  <2> SUFFICES ASSUME k + 1 <= Len(path) PROVE g[k + 1] \in Path /\ NoDots(g[k + 1])
    OBVIOUS
  <2>1. Len(path) \in Nat /\ k + 1 \in 1..Len(path) /\ (k + 1) - 1 = k
    BY DEF Path
  <2>2. g[k + 1] = Serving!Walk(g[k], path[k + 1]) /\ path[k + 1] \in Alphabet["path"]
    BY <1>1, <2>1 DEF Path
  <2>3. g[k] \in Path /\ NoDots(g[k])
    BY <1>3, <2>1
  <2> DEFINE p == g[k]
             name == path[k + 1]
  <2> HIDE DEF p, name
  <2>4. p \in Path /\ NoDots(p) /\ name \in Alphabet["path"]
    BY <2>2, <2>3 DEF p, name
  <2>5. Serving!Walk(p, name) \in Path /\ NoDots(Serving!Walk(p, name))
    <3>1. CASE name = "."
      BY <2>4, <3>1 DEF Serving!Walk
    <3>2. CASE name = ".."
      <4>1. p # <<>> => SubSeq(p, 1, Len(p) - 1) \in Path /\ NoDots(SubSeq(p, 1, Len(p) - 1))
        <5> DEFINE q == SubSeq(p, 1, Len(p) - 1)
        <5>1. ASSUME p # <<>>
              PROVE  q \in Path /\ Len(q) = Len(p) - 1 /\ \A i \in 1..Len(q) : i \in DOMAIN p /\ q[i] = p[i]
          <6>1. Len(p) \in Nat /\ Len(p) # 0 /\ Len(p) - 1 \in 0..Len(p) /\ DOMAIN p = 1..Len(p)
            BY <2>4, <5>1 DEF Path
          <6>2. q \in Path /\ Len(q) = Len(p) - 1
            BY <2>4, <6>1, Beginning DEF Path
          <6>3. \A i \in 1..(Len(p) - 1) : i \in DOMAIN p /\ q[i] = p[i]
            BY <2>4, <6>1, Beginning DEF Path
          <6> HIDE DEF q
          <6> QED BY <6>2, <6>3
        <5>2. q \in Path => DOMAIN q = 1..Len(q)
          BY DEF Path
        <5> HIDE DEF q
        <5> QED BY <2>4, <5>1, <5>2 DEF NoDots, q
      <4> QED BY <2>4, <3>2, <4>1 DEF Serving!Walk, Serving!Front
    <3>3. CASE name # "." /\ name # ".."
      <4>1. Append(p, name) \in Path /\ NoDots(Append(p, name))
        BY <2>4, <3>3 DEF Path, NoDots
      <4> QED BY <3>3, <4>1 DEF Serving!Walk
    <3> QED BY <3>1, <3>2, <3>3
  <2> QED BY <2>2, <2>5 DEF p, name
<1>4. Len(path) \in Nat /\ Len(path) \in B
  <2>1. Len(path) \in Nat
    BY DEF Path
  <2> HIDE DEF B
  <2> QED BY <1>2, <1>3, <2>1, NatByStep
<1> QED BY <1>1, <1>4

\* A path without dots is clean.
LEMMA CleanKeeps ==
    ASSUME NEW path \in Path, NoDots(path)
    PROVE  Serving!Clean(path) = path
<1>1. PICK g : /\ g[0] = <<>> /\ Serving!Clean(path) = g[Len(path)]
               /\ \A k \in 1..Len(path) : g[k] = Serving!Walk(g[k - 1], path[k])
  BY CleanRuns
<1> DEFINE B == {k \in Nat : k <= Len(path) => g[k] = SubSeq(path, 1, k)}
<1>2. 0 \in B
  <2>1. SubSeq(path, 1, 0) = <<>>
    BY DEF Path
  <2> QED BY <1>1, <2>1
<1>3. ASSUME NEW k \in Nat, k \in B PROVE k + 1 \in B
  <2> SUFFICES ASSUME k + 1 <= Len(path) PROVE g[k + 1] = SubSeq(path, 1, k + 1)
    OBVIOUS
  <2>1. Len(path) \in Nat /\ k + 1 \in 1..Len(path) /\ (k + 1) - 1 = k /\ DOMAIN path = 1..Len(path)
    BY DEF Path
  <2>2. g[k + 1] = Serving!Walk(SubSeq(path, 1, k), path[k + 1])
    <3>1. g[k] = SubSeq(path, 1, k)
      BY <1>3, <2>1
    <3>2. g[k + 1] = Serving!Walk(g[(k + 1) - 1], path[k + 1])
      BY <1>1, <2>1
    <3> QED BY <2>1, <3>1, <3>2
  <2>3. path[k + 1] # "." /\ path[k + 1] # ".."
    BY <2>1 DEF NoDots
  <2>4. g[k + 1] = Append(SubSeq(path, 1, k), path[k + 1])
    BY <2>2, <2>3 DEF Serving!Walk
  <2>5. Append(SubSeq(path, 1, k), path[k + 1]) = SubSeq(path, 1, k + 1)
    BY <2>1 DEF Path
  <2> QED BY <2>4, <2>5
<1>4. Len(path) \in Nat /\ Len(path) \in B
  <2>1. Len(path) \in Nat
    BY DEF Path
  <2> HIDE DEF B
  <2> QED BY <1>2, <1>3, <2>1, NatByStep
<1>5. SubSeq(path, 1, Len(path)) = path
  BY DEF Path
<1> QED BY <1>1, <1>4, <1>5

\* A path without links, and one segment more that makes no link.
LEMMA ResolvedAppend ==
    ASSUME NEW p \in Path, Resolved(p), NEW name \in Alphabet["path"], Append(p, name) \notin DOMAIN Target
    PROVE  Resolved(Append(p, name))
<1> DEFINE at == Append(p, name)
<1>1. at \in Path /\ Len(at) = Len(p) + 1 /\ Len(p) \in Nat /\ DOMAIN p = 1..Len(p) /\ DOMAIN at = 1..Len(at)
  BY DEF Path
<1>2. ASSUME NEW k \in DOMAIN at PROVE SubSeq(at, 1, k) \notin DOMAIN Target
  <2>1. CASE k = Len(at)
    <3>1. SubSeq(at, 1, Len(at)) = at
      <4> HIDE DEF at
      <4> QED BY <1>1 DEF Path
    <3> QED BY <2>1, <3>1
  <2>2. CASE k # Len(at)
    <3>1. k \in DOMAIN p
      BY <1>1, <2>2
    <3>2. SubSeq(at, 1, k) = SubSeq(p, 1, k)
      BY <1>1, <3>1 DEF Path
    <3> QED BY <3>1, <3>2 DEF Resolved
  <2> QED BY <2>1, <2>2
<1> QED BY <1>2 DEF Resolved

\* Where a path leads is not named by way of a link, and without dots if the path was.
LEMMA LeadsToResolved ==
    ASSUME NEW path \in Path
    PROVE  /\ Serving!EvalSymlinks(path) \in Path /\ Resolved(Serving!EvalSymlinks(path))
           /\ NoDots(path) => NoDots(Serving!EvalSymlinks(path))
<1>1. PICK g : /\ g[0] = <<>> /\ Serving!EvalSymlinks(path) = g[Len(path)]
               /\ \A k \in 1..Len(path) : g[k] = Serving!Follow(g[k - 1], path[k])
  BY FollowRuns
<1> DEFINE Ok(p) == p \in Path /\ Resolved(p) /\ (NoDots(path) => NoDots(p))
           B == {k \in Nat : k <= Len(path) => Ok(g[k])}
<1>2. 0 \in B
  <2>1. Ok(<<>>)
    BY DEF Path, NoDots, Resolved
  <2> QED BY <1>1, <2>1
<1>3. ASSUME NEW k \in Nat, k \in B PROVE k + 1 \in B
  <2> SUFFICES ASSUME k + 1 <= Len(path) PROVE Ok(g[k + 1])
    OBVIOUS
  <2>1. Len(path) \in Nat /\ k + 1 \in 1..Len(path) /\ (k + 1) - 1 = k /\ DOMAIN path = 1..Len(path)
    BY DEF Path
  <2>2. g[k + 1] = Serving!Follow(g[k], path[k + 1]) /\ path[k + 1] \in Alphabet["path"]
    BY <1>1, <2>1 DEF Path
  <2>3. Ok(g[k])
    BY <1>3, <2>1
  <2> DEFINE p == g[k]
             name == path[k + 1]
  <2> HIDE DEF p, name
  <2>4. p \in Path /\ Resolved(p) /\ (NoDots(path) => NoDots(p) /\ name \notin {".", ".."})
        /\ name \in Alphabet["path"]
    BY <2>1, <2>2, <2>3 DEF p, name, NoDots
  <2>5. Ok(Serving!Follow(p, name))
    <3>1. CASE Append(p, name) \in DOMAIN Target
      BY <3>1, FileSystem DEF Serving!Follow, Resolved, NoDots, Path
    <3>2. CASE Append(p, name) \notin DOMAIN Target
      <4>1. Append(p, name) \in Path /\ (NoDots(path) => NoDots(Append(p, name)))
        BY <2>4 DEF Path, NoDots
      <4> QED BY <2>4, <3>2, <4>1, ResolvedAppend DEF Serving!Follow
    <3> QED BY <3>1, <3>2
  <2> QED BY <2>2, <2>5 DEF p, name
<1>4. Len(path) \in Nat /\ Len(path) \in B
  <2>1. Len(path) \in Nat
    BY DEF Path
  <2> HIDE DEF B
  <2> QED BY <1>2, <1>3, <2>1, NatByStep
<1> QED BY <1>1, <1>4

\* To append to the second of two paths is to append to both.
LEMMA PathAppendToConcat ==
    ASSUME NEW r \in Path, NEW s \in Path, NEW x \in Alphabet["path"]
    PROVE  Append(r \o s, x) = r \o Append(s, x)
<1> DEFINE N == Alphabet["path"]
<1>1. r \in Seq(N) /\ s \in Seq(N) /\ x \in N
  BY DEF Path
<1> HIDE DEF N
<1>2. r \o s \in Seq(N) /\ <<x>> \in Seq(N)
  BY <1>1, ConcatProperties
<1>3. Append(r \o s, x) = (r \o s) \o <<x>> /\ Append(s, x) = s \o <<x>>
  BY <1>1, <1>2, AppendIsConcat
<1> QED BY <1>1, <1>2, <1>3, ConcatAssociative

\* A path below the sandbox leads below what the sandbox leads to, if there are no links there.
LEMMA NoLinksBelow ==
    ASSUME NEW dir \in Path, NEW below \in Path, Resolved(Serving!EvalSymlinks(dir) \o below)
    PROVE  Serving!EvalSymlinks(dir \o below) = Serving!EvalSymlinks(dir) \o below
<1> DEFINE path == dir \o below
           root == Serving!EvalSymlinks(dir)
           m == Len(dir)
           n == Len(below)
<1>1. /\ m \in Nat /\ n \in Nat /\ path \in Path /\ Len(path) = m + n
      /\ \A k \in 1..m : path[k] = dir[k]
      /\ \A k \in 1..n : path[m + k] = below[k]
      /\ DOMAIN below = 1..n /\ \A k \in 1..n : below[k] \in Alphabet["path"]
  BY DEF Path
<1>2. PICK f : /\ f[0] = <<>> /\ root = f[m]
               /\ \A k \in 1..m : f[k] = Serving!Follow(f[k - 1], dir[k])
  BY FollowRuns
<1> HIDE DEF path
<1>3. PICK g : /\ g[0] = <<>> /\ Serving!EvalSymlinks(path) = g[m + n]
               /\ \A k \in 1..(m + n) : g[k] = Serving!Follow(g[k - 1], path[k])
  BY <1>1, FollowRuns
<1>4. root \in Path /\ Resolved(root \o below)
  BY LeadsToResolved
<1> HIDE DEF root, m, n
<1>5. g[m] = root
  <2> DEFINE B == {k \in Nat : k <= m => g[k] = f[k]}
  <2>1. 0 \in B
    BY <1>2, <1>3
  <2>2. ASSUME NEW k \in Nat, k \in B PROVE k + 1 \in B
    <3> SUFFICES ASSUME k + 1 <= m PROVE g[k + 1] = f[k + 1]
      OBVIOUS
    <3>1. k + 1 \in 1..m /\ k + 1 \in 1..(m + n) /\ (k + 1) - 1 = k /\ k <= m
      BY <1>1
    <3>2. g[k] = f[k] /\ path[k + 1] = dir[k + 1]
      BY <1>1, <2>2, <3>1
    <3>3. f[k + 1] = Serving!Follow(f[(k + 1) - 1], dir[k + 1]) /\ g[k + 1] = Serving!Follow(g[(k + 1) - 1], path[k + 1])
      BY <1>2, <1>3, <3>1
    <3> QED BY <3>1, <3>2, <3>3
  <2>3. m \in B
    <3> HIDE DEF B
    <3> QED BY <1>1, <2>1, <2>2, NatByStep
  <2> QED BY <1>1, <1>2, <2>3
<1> DEFINE B == {k \in Nat : k <= n => g[m + k] = root \o SubSeq(below, 1, k)}
<1>6. 0 \in B
  <2>1. SubSeq(below, 1, 0) = <<>> /\ root \o <<>> = root
    BY <1>4 DEF Path
  <2>2. m + 0 = m
    BY <1>1
  <2> QED BY <1>1, <1>5, <2>1, <2>2
<1>7. ASSUME NEW k \in Nat, k \in B PROVE k + 1 \in B
  <2> SUFFICES ASSUME k + 1 <= n PROVE g[m + (k + 1)] = root \o SubSeq(below, 1, k + 1)
    OBVIOUS
  <2>1. k + 1 \in 1..n /\ m + (k + 1) \in 1..(m + n) /\ (m + (k + 1)) - 1 = m + k /\ k <= n
    BY <1>1
  <2>2. g[m + k] = root \o SubSeq(below, 1, k) /\ path[m + (k + 1)] = below[k + 1]
    BY <1>1, <1>7, <2>1
  <2>3. g[m + (k + 1)] = Serving!Follow(g[(m + (k + 1)) - 1], path[m + (k + 1)])
    BY <1>3, <2>1
  <2>4. Append(root \o SubSeq(below, 1, k), below[k + 1]) = root \o SubSeq(below, 1, k + 1)
    <3> DEFINE a == SubSeq(below, 1, k)
               x == below[k + 1]
    <3>1. SubSeq(below, 1, k + 1) = Append(a, x) /\ a \in Path /\ x \in Alphabet["path"]
      <4>1. k \in 0..Len(below) /\ k < Len(below) /\ x \in Alphabet["path"]
        BY <1>1, <2>1 DEF n
      <4> QED BY <4>1, Beginning DEF Path
    <3> HIDE DEF a, x
    <3>2. Append(root \o a, x) = root \o Append(a, x)
      BY <1>4, <3>1, PathAppendToConcat
    <3> QED BY <3>1, <3>2 DEF a, x
  <2>5. root \o SubSeq(below, 1, k + 1) \notin DOMAIN Target
    <3>1. Len(root) \in Nat /\ Len(root) + (k + 1) \in DOMAIN (root \o below)
      BY <1>1, <1>4, <2>1 DEF Path, n
    <3>2. SubSeq(root \o below, 1, Len(root) + (k + 1)) = root \o SubSeq(below, 1, k + 1)
      BY <1>1, <1>4, <2>1, <3>1 DEF Path, n
    <3> QED BY <1>4, <3>1, <3>2 DEF Resolved
  <2> QED BY <2>1, <2>2, <2>3, <2>4, <2>5 DEF Serving!Follow
<1>8. n \in B
  <2> HIDE DEF B
  <2> QED BY <1>1, <1>6, <1>7, NatByStep
<1>9. SubSeq(below, 1, n) = below
  BY DEF Path, n
<1> QED BY <1>1, <1>3, <1>8, <1>9 DEF path, root

\* A sequence that begins with another: its rest.
LEMMA RestOfPath ==
    ASSUME NEW r \in Path, NEW p \in Path
    PROVE  /\ IsPrefix(r, p) => /\ SubSeq(p, Len(r) + 1, Len(p)) \in Path
                                /\ p = r \o SubSeq(p, Len(r) + 1, Len(p))
           /\ IsPrefix(r, r \o p) /\ SubSeq(r \o p, Len(r) + 1, Len(r \o p)) = p
           /\ r \o p \in Path
           /\ NoDots(r) /\ NoDots(p) => NoDots(r \o p)
           /\ NoDots(r \o p) => NoDots(p)
<1> DEFINE N == Alphabet["path"]
<1>1. r \in Seq(N) /\ p \in Seq(N) /\ Path = Seq(N)
  BY DEF Path
<1> HIDE DEF N
<1>2. /\ Len(r) \in Nat /\ Len(p) \in Nat /\ r \o p \in Seq(N) /\ Len(r \o p) = Len(r) + Len(p)
      /\ DOMAIN r = 1..Len(r) /\ DOMAIN p = 1..Len(p) /\ DOMAIN (r \o p) = 1..Len(r \o p)
      /\ \A i \in 1..Len(r) : (r \o p)[i] = r[i]
      /\ \A i \in 1..Len(p) : (r \o p)[Len(r) + i] = p[i]
  BY <1>1
<1>3. ASSUME IsPrefix(r, p)
      PROVE  /\ SubSeq(p, Len(r) + 1, Len(p)) \in Path
             /\ p = r \o SubSeq(p, Len(r) + 1, Len(p))
  <2>1. Len(r) <= Len(p) /\ SubSeq(r, 1, Len(r)) = SubSeq(p, 1, Len(r))
    BY <1>3 DEF IsPrefix
  <2>2. \A i \in 1..Len(r) : r[i] = p[i]
    <3> TAKE i \in 1..Len(r)
    <3>1. Len(r) \in 0..Len(r) /\ Len(r) \in 0..Len(p)
      BY <1>2, <2>1
    <3>2. SubSeq(r, 1, Len(r))[i] = r[i] /\ SubSeq(p, 1, Len(r))[i] = p[i]
      BY <1>1, <3>1, Beginning
    <3> QED BY <2>1, <3>2
  <2> DEFINE q == SubSeq(p, Len(r) + 1, Len(p))
  <2>3. q \in Seq(N) /\ Len(q) = Len(p) - Len(r) /\ \A i \in 1..Len(q) : q[i] = p[Len(r) + i]
    <3>1. Len(r) + 1 \in 1..(Len(p) + 1) /\ Len(p) \in Len(r)..Len(p) /\ (Len(r) + 1) - 1 = Len(r)
      BY <1>2, <2>1
    <3>2. /\ SubSeq(p, Len(r) + 1, Len(p)) \in Seq(N)
          /\ Len(SubSeq(p, Len(r) + 1, Len(p))) = Len(p) - (Len(r) + 1) + 1
          /\ \A i \in 1..(Len(p) - (Len(r) + 1) + 1) :
                SubSeq(p, Len(r) + 1, Len(p))[i] = p[(Len(r) + 1) + i - 1]
      BY <1>1, <3>1, SubSeqProperties
    <3>3. Len(p) - (Len(r) + 1) + 1 = Len(p) - Len(r)
          /\ \A i \in 1..(Len(p) - Len(r)) : (Len(r) + 1) + i - 1 = Len(r) + i
      BY <1>2
    <3> QED BY <3>2, <3>3
  <2>4. /\ r \o q \in Seq(N) /\ Len(r \o q) = Len(p)
        /\ \A i \in 1..Len(r) : (r \o q)[i] = r[i]
        /\ \A i \in 1..Len(q) : (r \o q)[Len(r) + i] = q[i]
    <3> HIDE DEF q
    <3>1. r \in Seq(N) /\ q \in Seq(N) /\ Len(r) + Len(q) = Len(p)
      BY <1>1, <1>2, <2>3
    <3> QED BY <3>1
  <2>5. \A i \in 1..Len(p) : (r \o q)[i] = p[i]
    <3> HIDE DEF q
    <3> TAKE i \in 1..Len(p)
    <3>0. i \in Int /\ 1 <= i /\ i <= Len(p) /\ Len(r) \in Nat
      BY <1>2
    <3>1. CASE i <= Len(r)
      BY <3>0, <3>1, <2>2, <2>4
    <3>2. CASE i > Len(r)
      <4>1. i - Len(r) \in 1..Len(q) /\ Len(r) + (i - Len(r)) = i
        BY <3>2, <1>2, <2>1, <2>3
      <4>2. (r \o q)[Len(r) + (i - Len(r))] = q[i - Len(r)]
        BY <4>1, <2>4
      <4>3. q[i - Len(r)] = p[Len(r) + (i - Len(r))]
        BY <4>1, <2>3
      <4> QED BY <4>1, <4>2, <4>3
    <3>3. i <= Len(r) \/ i > Len(r)
      BY <3>0
    <3> QED BY <3>1, <3>2, <3>3
  <2>6. p = r \o q
    <3> HIDE DEF q
    <3> QED BY <1>1, <2>4, <2>5, SeqEqual
  <2> QED BY <1>1, <2>3, <2>6
<1>4. IsPrefix(r, r \o p)
  <2>1. SubSeq(r, 1, Len(r)) = SubSeq(r \o p, 1, Len(r))
    BY <1>1, <1>2
  <2> QED BY <1>2, <2>1 DEF IsPrefix
<1>5. SubSeq(r \o p, Len(r) + 1, Len(r \o p)) = p
  BY <1>1, <1>2
<1>6. NoDots(r) /\ NoDots(p) => NoDots(r \o p)
  <2> SUFFICES ASSUME NoDots(r), NoDots(p), NEW i \in 1..(Len(r) + Len(p)) PROVE (r \o p)[i] \notin {".", ".."}
    BY <1>2 DEF NoDots
  <2>1. CASE i <= Len(r)
    BY <2>1, <1>2 DEF NoDots
  <2>2. CASE i > Len(r)
    <3>1. i - Len(r) \in 1..Len(p) /\ Len(r) + (i - Len(r)) = i
      BY <2>2, <1>2
    <3>2. (r \o p)[i] = p[i - Len(r)]
      BY <1>2, <3>1
    <3> QED BY <3>1, <3>2, <1>2 DEF NoDots
  <2> QED BY <2>1, <2>2, <1>2
<1>7. NoDots(r \o p) => NoDots(p)
  <2> SUFFICES ASSUME NoDots(r \o p), NEW i \in 1..Len(p) PROVE p[i] \notin {".", ".."}
    BY <1>2 DEF NoDots
  <2>1. Len(r) + i \in DOMAIN (r \o p) /\ (r \o p)[Len(r) + i] = p[i]
    BY <1>2
  <2> QED BY <2>1 DEF NoDots
<1> QED BY <1>1, <1>2, <1>3, <1>4, <1>5, <1>6, <1>7

\* What is previewed is inside the sandbox, and what is inside can be previewed.
LEMMA PreviewsStayInside ==
    ASSUME kind = "path" => input \in Path
    PROVE  PreviewStaysInside
<1> DEFINE file == Serving!Clean(input)
           at == Serving!EvalSymlinks(file)
           root == Serving!EvalSymlinks(GeminiDir)
           below == SubSeq(at, Len(root) + 1, Len(at))
           allowed == /\ at \in DOMAIN Nodes /\ Nodes[at] = "file" /\ IsPrefix(root, at)
                      /\ \A i \in DOMAIN below : below[i] \notin DotNames
                      /\ Len(below) = 1 => below[1] \notin JsonNames
<1> SUFFICES ASSUME kind = "path"
             PROVE  /\ Serving!Preview(input) = 200 => allowed
                    /\ allowed => Serving!Preview(GeminiDir \o below) = 200
  BY DEF PreviewStaysInside
<1>1. file \in Path /\ NoDots(file) /\ GeminiDir \in Path /\ NoDots(GeminiDir)
  BY CleanHasNoDots, FileSystem DEF Path, NoDots
<1>2. at \in Path /\ NoDots(at) /\ Resolved(at) /\ root \in Path /\ NoDots(root)
  <2> HIDE DEF file
  <2> QED BY <1>1, LeadsToResolved
<1>3. \A r, p : Serving!IsPrefix(r, p) = IsPrefix(r, p)
  BY DEF Serving!IsPrefix, IsPrefix
<1>4. \A p \in DOMAIN Nodes : Nodes[p] \in {"file", "directory"}
  BY FileSystem
<1>5. ASSUME Serving!Preview(input) = 200 PROVE allowed
  <2>1. /\ Serving!Exists(file) /\ Nodes[at] # "directory"
        /\ Serving!isWithinDir(at, root) /\ ~Serving!IsPreviewDenied(root, at)
    <3> HIDE DEF file, at, root
    <3> QED BY <1>5 DEF Serving!Preview, file, at, root
  <2>2. at \in DOMAIN Nodes /\ IsPrefix(root, at)
    <3> HIDE DEF file, root
    <3> QED BY <2>1, <1>3 DEF Serving!Exists, Serving!isWithinDir
  <2>3. /\ \A i \in DOMAIN below : below[i] \notin DotNames
        /\ Len(below) = 1 => below[1] \notin JsonNames
    <3> HIDE DEF at, root
    <3> QED BY <2>1 DEF Serving!IsPreviewDenied
  <2> HIDE DEF at, root, below
  <2> QED BY <2>1, <2>2, <2>3, <1>4
<1>6. ASSUME allowed PROVE Serving!Preview(GeminiDir \o below) = 200
  <2> DEFINE q == GeminiDir \o below
  <2>1. below \in Path /\ at = root \o below /\ NoDots(below)
    <3>1. IsPrefix(root, at)
      BY <1>6
    <3> HIDE DEF file, at, root
    <3>2. below \in Path /\ at = root \o below
      BY <1>2, <3>1, RestOfPath
    <3> HIDE DEF below
    <3>3. NoDots(root \o below) => NoDots(below)
      BY <1>2, <3>2, RestOfPath
    <3> QED BY <1>2, <3>2, <3>3
  <2> HIDE DEF file, at, root, below
  <2>2. /\ q \in Path /\ NoDots(q) /\ IsPrefix(GeminiDir, q)
        /\ SubSeq(q, Len(GeminiDir) + 1, Len(q)) = below
    BY <1>1, <2>1, RestOfPath
  <2> HIDE DEF q
  <2>3. Serving!Clean(q) = q
    BY <2>2, CleanKeeps
  <2>4. Serving!EvalSymlinks(q) = at
    BY <1>1, <1>2, <2>1, NoLinksBelow DEF q, root
  <2>5. below # <<>>
    <3> SUFFICES ASSUME below = <<>> PROVE FALSE
      OBVIOUS
    <3>1. at = root
      BY <2>1, <1>2 DEF Path
    <3>2. Nodes[root] = "directory"
      BY <1>6, <3>1, FileSystem DEF root, Serving!Exists
    <3> QED BY <1>6, <3>1, <3>2
  <2>6. ~Serving!IsPreviewDenied(GeminiDir, q) /\ Serving!isWithinDir(q, GeminiDir)
    BY <1>3, <1>6, <2>2, <2>5 DEF Serving!IsPreviewDenied, Serving!isWithinDir
  <2>7. ~Serving!IsPreviewDenied(root, at) /\ Serving!isWithinDir(at, root)
    BY <1>3, <1>6, <2>5 DEF Serving!IsPreviewDenied, Serving!isWithinDir, below
  <2>8. Serving!Exists(q) /\ Nodes[at] # "directory"
    BY <1>6, <2>4 DEF Serving!Exists
  <2> QED BY <2>3, <2>4, <2>6, <2>7, <2>8 DEF Serving!Preview, q, root
<1> QED BY <1>5, <1>6

-------------------------------------------------------------------------------

\* For every guard, token, list, limit, file system and path: what reaches a
\* route is what the logged posture says, a client that asks for page after page
\* sees every session once, newest first, and a preview shows what is inside the
\* sandbox and nothing else (internal/server).
THEOREM RequestsAreAnswered == GrowSpec => []RequestsAreServed
<1>1. ASSUME InputOK PROVE RequestsAreServed
  <2>1. kind = "route" => input \in Seq(Seq(STRING))
    <3> DEFINE A == Alphabet["route"]
               P == Seq(STRING)
    <3>1. A \in SUBSET P
      BY Requests
    <3>2. kind = "route" => input \in Seq(A)
      BY <1>1 DEF InputOK
    <3> HIDE DEF A, P
    <3>3. kind = "route" => input \in Seq(P)
      BY <3>1, <3>2
    <3> QED BY <3>3 DEF P
  <2>2. kind = "list" => input \in Seq(Int)
    <3> DEFINE A == Alphabet["list"]
    <3>1. A \in SUBSET Int
      BY Requests
    <3>2. kind = "list" => input \in Seq(A)
      BY <1>1 DEF InputOK
    <3> DEFINE Z == Int
    <3> HIDE DEF A, Z
    <3>3. A \in SUBSET Z
      BY <3>1 DEF Z
    <3>4. kind = "list" => input \in Seq(Z)
      BY <3>2, <3>3
    <3> QED BY <3>4 DEF Z
  <2>3. kind = "path" => input \in Path
    BY <1>1 DEF InputOK, Path
  <2> QED BY <2>1, <2>2, <2>3, EveryRouteIsGuarded, PagesShowEverySession, PreviewsStayInside DEF RequestsAreServed
<1> QED BY <1>1, InputsAreOfAKind, PTL

-------------------------------------------------------------------------------
(* Batches. *)

\* The sizes of items, the state of chunkBy's loop, and its first state.
Sizes == Seq(Nat)
Batching == [done : Seq(Seq(Nat)), current : Seq(Nat)]
NoBatch == [done |-> <<>>, current |-> <<>>]

\* Total, one size after the other.
LEMMA TotalRuns ==
    ASSUME NEW s \in Sizes
    PROVE  \E g : /\ g[0] = 0 /\ Run!Total(s) = g[Len(s)]
                  /\ \A k \in 1..Len(s) : g[k] = g[k - 1] + s[k]
<1> DEFINE X == Nat
           V == Int
           It(h) == h = [r \in SUBSET DOMAIN s |->
                            IF r = {} THEN 0 ELSE h[r \ {Max(r)}] + s[Max(r)]]
           F == [q \in V \X X |-> q[1] + q[2]]
           iter == CHOOSE h : It(h)
           n == Len(s)
<1>1. n \in Nat /\ DOMAIN s = 1..n /\ s \in Seq(X) /\ 0 \in V
  BY DEF Sizes
<1>2. F \in [V \X X -> V]
  OBVIOUS
<1>3. \E h : It(h)
  <2>1. PICK h \in [SUBSET DOMAIN s -> V] : Folds(h, s, 0, F)
    <3> HIDE DEF F, X, V
    <3> QED BY <1>1, <1>2, FoldIteration
  <2>2. ASSUME NEW r \in SUBSET DOMAIN s, r # {}
        PROVE  F[<<h[r \ {Max(r)}], s[Max(r)]>>] = h[r \ {Max(r)}] + s[Max(r)]
    <3> HIDE DEF X, V
    <3>1. Max(r) \in 1..n
      BY <1>1, <2>2, GreatestOfPart
    <3>2. s[Max(r)] \in X /\ h[r \ {Max(r)}] \in V
      BY <1>1, <3>1
    <3> QED BY <3>2
  <2> HIDE DEF F, X, V
  <2>3. It(h)
    BY <2>1, <2>2 DEF Folds
  <2> QED BY <2>3
<1> HIDE DEF F, X, V
<1>4. It(iter)
  BY <1>3
<1>5. Run!Total(s) = iter[DOMAIN s]
  BY DEF Run!Total, Run!FoldLeft, Run!MapThenFoldSet, Max, Run!Max
<1>6. iter[1..0] = 0 /\ \A k \in 1..n : iter[1..k] = iter[1..(k - 1)] + s[k]
  <2> HIDE DEF iter, n
  <2>1. iter[1..0] = 0
    BY <1>1, <1>4
  <2>2. ASSUME NEW k \in 1..n PROVE iter[1..k] = iter[1..(k - 1)] + s[k]
    <3>1. 1..k \in SUBSET DOMAIN s /\ 1..k # {} /\ Max(1..k) = k /\ (1..k) \ {k} = 1..(k - 1)
      <4>1. k \in Nat /\ k # 0 /\ 1..k \in SUBSET (1..n)
        BY <1>1
      <4>2. 1..k # {} /\ Max(1..k) = k /\ (1..k) \ {k} = 1..(k - 1)
        BY <4>1, UpTo
      <4> QED BY <1>1, <4>1, <4>2
    <3> QED BY <1>4, <3>1
  <2> QED BY <2>1, <2>2
<1> DEFINE g == [k \in 0..n |-> iter[1..k]]
<1>7. /\ g[0] = 0 /\ Run!Total(s) = g[n]
      /\ \A k \in 1..n : g[k] = g[k - 1] + s[k]
  <2>1. g[0] = 0 /\ g[n] = iter[1..n]
    <3> HIDE DEF iter, n
    <3> QED BY <1>1, <1>6
  <2>2. ASSUME NEW k \in 1..n PROVE g[k] = g[k - 1] + s[k]
    <3>1. k \in 0..n /\ k - 1 \in 0..n
      BY <1>1
    <3> HIDE DEF iter, n
    <3>2. g[k] = iter[1..k] /\ g[k - 1] = iter[1..(k - 1)]
      BY <3>1
    <3> HIDE DEF g
    <3> QED BY <1>6, <3>2
  <2> HIDE DEF iter, n
  <2> QED BY <1>1, <1>5, <2>1, <2>2
<1> HIDE DEF g
<1> QED BY <1>7

\* One item more.
LEMMA PutKeeps ==
    ASSUME NEW b \in Batching, NEW size \in Nat
    PROVE  Run!Put(b, size) \in Batching
<1> DEFINE S == Seq(Nat)
<1>1. b.done \in Seq(S) /\ b.current \in S /\ b = [done |-> b.done, current |-> b.current]
  BY DEF Batching
<1>2. <<size>> \in S /\ Append(b.current, size) \in S
  BY <1>1
<1>3. Append(b.done, b.current) \in Seq(S)
  <2> HIDE DEF S
  <2> QED BY <1>1
<1> HIDE DEF S
<1> QED BY <1>1, <1>2, <1>3 DEF Batching, Run!Put, S

\* chunkBy's loop, one item after the other.
LEMMA PutRuns ==
    ASSUME NEW s \in Sizes
    PROVE  \E g : /\ g[0] = NoBatch /\ Run!FoldLeft(Run!Put, [done |-> <<>>, current |-> <<>>], s) = g[Len(s)]
                  /\ \A k \in 1..Len(s) : g[k] = Run!Put(g[k - 1], s[k])
<1> DEFINE X == Nat
           V == Batching
           It(h) == h = [r \in SUBSET DOMAIN s |->
                            IF r = {} THEN NoBatch ELSE Run!Put(h[r \ {Max(r)}], s[Max(r)])]
           F == [q \in V \X X |-> Run!Put(q[1], q[2])]
           iter == CHOOSE h : It(h)
           n == Len(s)
<1>1. n \in Nat /\ DOMAIN s = 1..n /\ s \in Seq(X) /\ NoBatch \in V
  BY DEF Sizes, NoBatch, Batching
<1>2. F \in [V \X X -> V]
  BY PutKeeps
<1>3. \E h : It(h)
  <2>1. PICK h \in [SUBSET DOMAIN s -> V] : Folds(h, s, NoBatch, F)
    <3> HIDE DEF F, X, V
    <3> QED BY <1>1, <1>2, FoldIteration
  <2>2. ASSUME NEW r \in SUBSET DOMAIN s, r # {}
        PROVE  F[<<h[r \ {Max(r)}], s[Max(r)]>>] = Run!Put(h[r \ {Max(r)}], s[Max(r)])
    <3> HIDE DEF X, V
    <3>1. Max(r) \in 1..n
      BY <1>1, <2>2, GreatestOfPart
    <3>2. s[Max(r)] \in X /\ h[r \ {Max(r)}] \in V
      BY <1>1, <3>1
    <3> QED BY <3>2
  <2> HIDE DEF F, X, V
  <2>3. It(h)
    BY <2>1, <2>2 DEF Folds
  <2> QED BY <2>3
<1> HIDE DEF F, X, V
<1>4. It(iter)
  BY <1>3
<1>5. Run!FoldLeft(Run!Put, [done |-> <<>>, current |-> <<>>], s) = iter[DOMAIN s]
  BY DEF NoBatch, Run!FoldLeft, Run!MapThenFoldSet, Max, Run!Max
<1>6. iter[1..0] = NoBatch /\ \A k \in 1..n : iter[1..k] = Run!Put(iter[1..(k - 1)], s[k])
  <2> HIDE DEF iter, n
  <2>1. iter[1..0] = NoBatch
    BY <1>1, <1>4
  <2>2. ASSUME NEW k \in 1..n PROVE iter[1..k] = Run!Put(iter[1..(k - 1)], s[k])
    <3>1. 1..k \in SUBSET DOMAIN s /\ 1..k # {} /\ Max(1..k) = k /\ (1..k) \ {k} = 1..(k - 1)
      <4>1. k \in Nat /\ k # 0 /\ 1..k \in SUBSET (1..n)
        BY <1>1
      <4>2. 1..k # {} /\ Max(1..k) = k /\ (1..k) \ {k} = 1..(k - 1)
        BY <4>1, UpTo
      <4> QED BY <1>1, <4>1, <4>2
    <3> QED BY <1>4, <3>1
  <2> QED BY <2>1, <2>2
<1> DEFINE g == [k \in 0..n |-> iter[1..k]]
<1>7. /\ g[0] = NoBatch /\ Run!FoldLeft(Run!Put, [done |-> <<>>, current |-> <<>>], s) = g[n]
      /\ \A k \in 1..n : g[k] = Run!Put(g[k - 1], s[k])
  <2>1. g[0] = NoBatch /\ g[n] = iter[1..n]
    <3> HIDE DEF iter, n
    <3> QED BY <1>1, <1>6
  <2>2. ASSUME NEW k \in 1..n PROVE g[k] = Run!Put(g[k - 1], s[k])
    <3>1. k \in 0..n /\ k - 1 \in 0..n
      BY <1>1
    <3> HIDE DEF iter, n
    <3>2. g[k] = iter[1..k] /\ g[k - 1] = iter[1..(k - 1)]
      BY <3>1
    <3> HIDE DEF g
    <3> QED BY <1>6, <3>2
  <2> HIDE DEF iter, n
  <2> QED BY <1>1, <1>5, <2>1, <2>2
<1> HIDE DEF g
<1> QED BY <1>7

\* A total is a number, and grows by each size.
LEMMA TotalGrows ==
    ASSUME NEW s \in Sizes, NEW x \in Nat
    PROVE  Run!Total(s) \in Int /\ Run!Total(Append(s, x)) = Run!Total(s) + x
<1> DEFINE n == Len(s)
           all == Append(s, x)
<1>1. /\ all \in Sizes /\ Len(all) = n + 1 /\ n \in Nat
      /\ \A k \in 1..n : all[k] = s[k] /\ k \in 1..Len(all)
      /\ all[n + 1] = x /\ n + 1 \in 1..Len(all)
  BY DEF Sizes
<1>0. \A k \in 1..n : s[k] \in Nat
  BY DEF Sizes
<1> HIDE DEF all, n
<1>2. PICK g : g[0] = 0 /\ Run!Total(s) = g[n] /\ \A k \in 1..n : g[k] = g[k - 1] + s[k]
  BY TotalRuns DEF n
<1>3. PICK h : h[0] = 0 /\ Run!Total(all) = h[n + 1] /\ \A k \in 1..Len(all) : h[k] = h[k - 1] + all[k]
  <2>1. \E h : h[0] = 0 /\ Run!Total(all) = h[Len(all)] /\ \A k \in 1..Len(all) : h[k] = h[k - 1] + all[k]
    BY <1>1, TotalRuns
  <2> QED BY <1>1, <2>1
<1>4. \A k \in 0..n : g[k] = h[k]
  <2>1. g[0] = h[0]
    BY <1>2, <1>3
  <2>2. ASSUME NEW k \in 1..n, g[k - 1] = h[k - 1] PROVE g[k] = h[k]
    BY <1>1, <1>2, <1>3, <2>2
  <2>3. n \in Nat
    BY <1>1
  <2>4. GoAlike(g, h, n)
    BY <2>1, <2>2 DEF GoAlike
  <2> QED BY <2>3, <2>4, SameRuns DEF Alike
<1>5. Run!Total(all) = Run!Total(s) + x
  <2>1. n \in 0..n /\ (n + 1) - 1 = n
    BY <1>1
  <2>2. h[n + 1] = h[(n + 1) - 1] + all[n + 1]
    BY <1>1, <1>3
  <2> QED BY <1>1, <1>2, <1>3, <1>4, <2>1, <2>2
<1>6. Run!Total(s) \in Int
  <2> DEFINE B == {k \in Nat : k <= n => g[k] \in Int}
  <2>1. 0 \in B
    BY <1>2
  <2>2. ASSUME NEW k \in Nat, k \in B PROVE k + 1 \in B
    <3> SUFFICES ASSUME k + 1 <= n PROVE g[k + 1] \in Int
      OBVIOUS
    <3>1. k + 1 \in 1..n /\ (k + 1) - 1 = k /\ g[k] \in Int
      BY <1>1, <2>2
    <3>2. g[k + 1] = g[(k + 1) - 1] + s[k + 1] /\ s[k + 1] \in Nat
      BY <1>0, <1>2, <3>1
    <3> QED BY <3>1, <3>2
  <2>3. n \in B
    <3> HIDE DEF B
    <3> QED BY <1>1, <2>1, <2>2, NatByStep
  <2> QED BY <1>1, <1>2, <2>3
<1> QED BY <1>5, <1>6 DEF all

\* A batch is within both limits, or one item; it is closed when the next item
\* does not fit; and all that was taken is in the batches, in order.
Sound(s) == Len(s) \in 1..BatchSize /\ (Len(s) > 1 => Run!Total(s) <= MaxBatchBytes)
Closed(s, next) == Len(s) = BatchSize \/ Run!Total(s) + Head(next) > MaxBatchBytes
Batched(b, taken) ==
    /\ b \in Batching /\ FlattenSeq(b.done) \o b.current = taken
    /\ (taken # <<>> \/ b.done # <<>>) => b.current # <<>>
    /\ b.current # <<>> => Sound(b.current)
    /\ \A k \in 1..Len(b.done) :
          Sound(b.done[k]) /\ Closed(b.done[k], IF k < Len(b.done) THEN b.done[k + 1] ELSE b.current)

\* One more item is taken.
LEMMA PutBatches ==
    ASSUME NEW taken \in Sizes, NEW size \in Nat, NEW b, Batched(b, taken)
    PROVE  Batched(Run!Put(b, size), Append(taken, size))
<1> DEFINE c == b.current
           d == b.done
           F == FlattenSeq(d)
           next == Run!Put(b, size)
<1> HIDE DEF c, d, next
<1>1. /\ b \in Batching /\ c \in Seq(Nat) /\ d \in Seq(Seq(Nat)) /\ BatchSize \in Nat \ {0} /\ MaxBatchBytes \in Nat
      /\ <<size>> \in Seq(Nat) /\ Len(<<size>>) = 1 /\ Head(<<size>>) = size /\ Len(c) \in Nat /\ Len(d) \in Nat
  BY Pushes DEF Batched, Batching, c, d
<1>2. /\ F \o c = taken /\ F \in Seq(Nat) /\ ((taken # <<>> \/ d # <<>>) => c # <<>>)
      /\ (c # <<>> => Sound(c))
      /\ \A k \in 1..Len(d) : Sound(d[k]) /\ Closed(d[k], IF k < Len(d) THEN d[k + 1] ELSE c)
  BY <1>1, FlattenGrows DEF Batched, c, d
<1>3. next \in Batching
  BY <1>1, PutKeeps DEF next
<1>4. Run!Total(c) \in Int /\ Run!Total(Append(c, size)) = Run!Total(c) + size
  BY <1>1, TotalGrows DEF Sizes
<1>5. CASE c # <<>> /\ Run!Full(c, size)
  <2> DEFINE done == Append(d, c)
  <2>1. next.done = done /\ next.current = <<size>>
    BY <1>5 DEF Run!Put, next, c, d
  <2>2. /\ Len(done) = Len(d) + 1 /\ \A k \in 1..Len(d) : done[k] = d[k]
        /\ done[Len(d) + 1] = c
    BY <1>1
  <2>3. FlattenSeq(done) \o <<size>> = Append(taken, size)
    <3>1. FlattenSeq(done) = F \o c
      BY <1>1, FlattenGrows
    <3>2. taken \o <<size>> = Append(taken, size)
      BY AppendIsConcat DEF Sizes
    <3> QED BY <1>2, <3>1, <3>2
  <2>4. Closed(c, <<size>>)
    BY <1>1, <1>2, <1>4, <1>5 DEF Closed, Sound, Run!Full
  <2>5. Sound(<<size>>)
    BY <1>1 DEF Sound
  <2> HIDE DEF done
  <2>6. ASSUME NEW k \in 1..Len(done)
        PROVE  Sound(done[k]) /\ Closed(done[k], IF k < Len(done) THEN done[k + 1] ELSE <<size>>)
    <3>1. CASE k = Len(d) + 1
      <4>1. ~(k < Len(done)) /\ done[k] = c
        BY <1>1, <2>2, <3>1
      <4> QED BY <1>2, <1>5, <2>4, <4>1
    <3>2. CASE k \in 1..Len(d)
      <4>1. k < Len(done) /\ done[k] = d[k] /\ done[k + 1] = IF k < Len(d) THEN d[k + 1] ELSE c
        <5>1. k \in Nat /\ Len(d) \in Nat /\ k <= Len(d)
          BY <1>1, <3>2
        <5>2. k < Len(d) => k + 1 \in 1..Len(d)
          BY <5>1
        <5>3. ~(k < Len(d)) => k = Len(d)
          BY <5>1
        <5> QED BY <2>2, <3>2, <5>1, <5>2, <5>3
      <4> QED BY <1>2, <3>2, <4>1
    <3> QED BY <1>1, <2>2, <3>1, <3>2
  <2>7. <<size>> # <<>>
    OBVIOUS
  <2> QED BY <1>3, <2>1, <2>3, <2>5, <2>6, <2>7 DEF Batched, next
<1>6. CASE ~(c # <<>> /\ Run!Full(c, size))
  <2> DEFINE last == Append(c, size)
  <2>1. next.done = d /\ next.current = last
    BY <1>1, <1>6 DEF Run!Put, next, c, d, Batching
  <2>2. Len(last) = Len(c) + 1 /\ last # <<>> /\ (c # <<>> => Head(last) = Head(c))
    <3>1. c \in Seq(Nat) /\ Len(c) \in Nat
      BY <1>1
    <3>2. Len(last) = Len(c) + 1 /\ last # <<>> /\ (c # <<>> => last[1] = c[1])
      BY ONLY <3>1, size \in Nat
    <3> QED BY <3>1, <3>2
  <2>3. F \o last = Append(taken, size)
    <3>1. c \in Seq(Nat) /\ F \in Seq(Nat)
      BY <1>1, <1>2
    <3>2. ASSUME NEW f \in Seq(Nat), NEW e \in Seq(Nat) PROVE Append(f \o e, size) = f \o Append(e, size)
      <4> DEFINE N == Nat
      <4>1. f \in Seq(N) /\ e \in Seq(N) /\ size \in N
        OBVIOUS
      <4> HIDE DEF N
      <4>2. f \o e \in Seq(N) /\ <<size>> \in Seq(N)
        BY <4>1, ConcatProperties
      <4>3. Append(f \o e, size) = (f \o e) \o <<size>> /\ Append(e, size) = e \o <<size>>
        BY <4>1, <4>2, AppendIsConcat
      <4> QED BY <4>1, <4>2, <4>3, ConcatAssociative
    <3> HIDE DEF F
    <3>3. Append(F \o c, size) = F \o Append(c, size)
      BY <3>1, <3>2
    <3> QED BY <1>2, <3>3
  <2>4. Sound(last)
    <3>1. CASE c = <<>>
      <4>1. Len(last) = 1
        BY <2>2, <3>1
      <4> QED BY <1>1, <4>1 DEF Sound
    <3>2. CASE c # <<>>
      BY <1>1, <1>2, <1>4, <1>6, <2>2, <3>2 DEF Sound, Run!Full
    <3> QED BY <3>1, <3>2
  <2> HIDE DEF last
  <2>5. ASSUME NEW k \in 1..Len(d)
        PROVE  Sound(d[k]) /\ Closed(d[k], IF k < Len(d) THEN d[k + 1] ELSE last)
    <3>1. c # <<>>
      BY <1>1, <1>2
    <3> QED BY <1>2, <2>2, <3>1 DEF Closed
  <2> QED BY <1>3, <2>1, <2>2, <2>3, <2>4, <2>5 DEF Batched, next
<1> QED BY <1>5, <1>6

\* Every item is in one batch, in order, within the limits.
LEMMA BatchesAreInOrder ==
    ASSUME kind = "sizes" => input \in Sizes
    PROVE  BatchesKeepOrder
<1> SUFFICES ASSUME input \in Sizes, NEW batches, batches = Run!chunkBy(input)
             PROVE  /\ FlattenSeq(batches) = input
                    /\ \A k \in DOMAIN batches :
                          /\ Len(batches[k]) \in 1..BatchSize
                          /\ Len(batches[k]) > 1 => Run!Total(batches[k]) <= MaxBatchBytes
                          /\ k < Len(batches) => \/ Len(batches[k]) = BatchSize
                                                 \/ Run!Total(batches[k]) + Head(batches[k + 1]) > MaxBatchBytes
  BY DEF BatchesKeepOrder
<1> DEFINE n == Len(input)
           b == Run!FoldLeft(Run!Put, [done |-> <<>>, current |-> <<>>], input)
<1>1. n \in Nat /\ input \in Seq(Nat) /\ SubSeq(input, 1, n) = input /\ SubSeq(input, 1, 0) = <<>>
  <2>1. n \in Nat /\ input \in Seq(Nat)
    BY DEF Sizes
  <2>2. SubSeq(input, 1, n) = input
    <3>1. n \in 0..Len(input)
      BY <2>1
    <3>2. SubSeq(input, 1, n) \in Seq(Nat) /\ Len(SubSeq(input, 1, n)) = n /\ \A i \in 1..n : SubSeq(input, 1, n)[i] = input[i]
      BY <2>1, <3>1, Beginning
    <3> QED BY <2>1, <3>2, SeqEqual
  <2>3. SubSeq(input, 1, 0) = <<>>
    BY <2>1
  <2> QED BY <2>1, <2>2, <2>3
<1>2. PICK g : /\ g[0] = NoBatch /\ b = g[n]
               /\ \A k \in 1..n : g[k] = Run!Put(g[k - 1], input[k])
  BY PutRuns
<1> HIDE DEF b
<1> DEFINE B == {k \in Nat : k <= n => Batched(g[k], SubSeq(input, 1, k))}
<1>3. 0 \in B
  <2>1. NoBatch.done = <<>> /\ NoBatch.current = <<>> /\ NoBatch \in Batching /\ Len(NoBatch.done) = 0
    BY DEF NoBatch, Batching
  <2>2. FlattenSeq(<<>>) \o <<>> = <<>>
    BY DEF FlattenSeq
  <2>3. Batched(NoBatch, <<>>)
    BY <2>1, <2>2 DEF Batched
  <2> QED BY <1>1, <1>2, <2>3
<1>4. ASSUME NEW k \in Nat, k \in B PROVE k + 1 \in B
  <2> SUFFICES ASSUME k + 1 <= n PROVE Batched(g[k + 1], SubSeq(input, 1, k + 1))
    OBVIOUS
  <2>1. k \in 0..n /\ k < n /\ k + 1 \in 1..n /\ (k + 1) - 1 = k /\ Batched(g[k], SubSeq(input, 1, k))
    BY <1>1, <1>4
  <2>2. SubSeq(input, 1, k) \in Sizes /\ SubSeq(input, 1, k + 1) = Append(SubSeq(input, 1, k), input[k + 1])
    BY <1>1, <2>1, Beginning DEF Sizes
  <2>3. input[k + 1] \in Nat /\ g[k + 1] = Run!Put(g[k], input[k + 1])
    BY <1>1, <1>2, <2>1
  <2> QED BY <2>1, <2>2, <2>3, PutBatches
<1>5. Batched(b, input)
  <2>1. n \in B
    <3> HIDE DEF B
    <3> QED BY <1>1, <1>3, <1>4, NatByStep
  <2>2. n \in Nat /\ n <= n
    BY <1>1
  <2>3. Batched(g[n], SubSeq(input, 1, n))
    BY <2>1, <2>2
  <2> QED BY <1>1, <1>2, <2>3
<1> DEFINE c == b.current
           d == b.done
<1>6. batches = IF c = <<>> THEN d ELSE Append(d, c)
  BY DEF Run!chunkBy, b
<1>7. /\ c \in Seq(Nat) /\ d \in Seq(Seq(Nat)) /\ Len(d) \in Nat /\ FlattenSeq(d) \o c = input
      /\ (d # <<>> => c # <<>>) /\ (c # <<>> => Sound(c))
      /\ \A k \in 1..Len(d) : Sound(d[k]) /\ Closed(d[k], IF k < Len(d) THEN d[k + 1] ELSE c)
  BY <1>5 DEF Batched, Batching
<1> HIDE DEF c, d
<1>8. CASE c = <<>>
  <2>1. d = <<>> /\ batches = <<>> /\ DOMAIN batches = {}
    BY <1>6, <1>7, <1>8
  <2>2. FlattenSeq(<<>>) \o <<>> = <<>>
    BY DEF FlattenSeq
  <2>3. FlattenSeq(<<>>) = <<>>
    BY DEF FlattenSeq
  <2> QED BY <1>7, <1>8, <2>1, <2>2, <2>3
<1>9. CASE c # <<>>
  <2> DEFINE all == Append(d, c)
  <2>1. /\ batches = all /\ DOMAIN all = 1..Len(all) /\ Len(all) = Len(d) + 1
        /\ \A k \in 1..Len(d) : all[k] = d[k]
        /\ all[Len(d) + 1] = c
    BY <1>6, <1>7, <1>9
  <2>2. FlattenSeq(all) = input
    BY <1>7, FlattenGrows
  <2> HIDE DEF all
  <2>3. ASSUME NEW k \in 1..Len(all)
        PROVE  Sound(all[k]) /\ (k < Len(all) => Closed(all[k], all[k + 1]))
    <3>1. CASE k = Len(d) + 1
      BY <1>7, <1>9, <2>1, <3>1
    <3>2. CASE k \in 1..Len(d)
      <4>1. k < Len(all) /\ all[k] = d[k] /\ all[k + 1] = IF k < Len(d) THEN d[k + 1] ELSE c
        <5>1. k \in Nat /\ Len(d) \in Nat /\ k <= Len(d)
          BY <1>7, <3>2
        <5>2. k < Len(d) => k + 1 \in 1..Len(d)
          BY <5>1
        <5>3. ~(k < Len(d)) => k = Len(d)
          BY <5>1
        <5> QED BY <2>1, <3>2, <5>1, <5>2, <5>3
      <4> QED BY <1>7, <3>2, <4>1
    <3> QED BY <1>7, <2>1, <3>1, <3>2
  <2> QED BY <2>1, <2>2, <2>3 DEF Sound, Closed
<1> QED BY <1>8, <1>9

-------------------------------------------------------------------------------
(* Attached files. *)

\* The paths there are; what the client's loop has; and a file that is pushed.
Mentions == Alphabet["mentions"]
Offer == [out : Seq(Mentions), skipped : Seq(Mentions), seen : SUBSET Mentions]
NoOffer == [out |-> <<>>, skipped |-> <<>>, seen |-> {}]
Pushed == [path : Mentions, chars : Nat]
Taking == [accepted : Seq(Pushed), ended : BOOLEAN]
Nothing == [accepted |-> <<>>, ended |-> FALSE]
May(p) == LET f == FileAt[p] IN
    f.absolute /\ ~f.secret /\ f.stat /\ f.read /\ f.bytes <= MaxAttachmentBytes

\* A mention makes an offer of an offer.
LEMMA OfferedKeeps ==
    ASSUME NEW o \in Offer, NEW p \in Mentions
    PROVE  Run!Offered(o, p) \in Offer
<1> DEFINE N == Mentions
<1>1. /\ o.out \in Seq(N) /\ o.skipped \in Seq(N) /\ o.seen \in SUBSET N /\ p \in N
      /\ o = [out |-> o.out, skipped |-> o.skipped, seen |-> o.seen]
  BY DEF Offer
<1> HIDE DEF N
<1>2. Append(o.out, p) \in Seq(N) /\ Append(o.skipped, p) \in Seq(N) /\ o.seen \cup {p} \in SUBSET N
  BY <1>1
<1> QED BY <1>1, <1>2 DEF Run!Offered, Offer, N

\* ReferencedFiles' loop, one mention after the other.
LEMMA OfferRuns ==
    ASSUME NEW s \in Seq(Mentions)
    PROVE  \E g : /\ g[0] = NoOffer /\ Run!ReferencedFiles(s) = g[Len(s)]
                  /\ \A k \in 1..Len(s) : g[k] = Run!Offered(g[k - 1], s[k])
<1> DEFINE X == Mentions
           V == Offer
           It(h) == h = [r \in SUBSET DOMAIN s |->
                            IF r = {} THEN NoOffer ELSE Run!Offered(h[r \ {Max(r)}], s[Max(r)])]
           F == [q \in V \X X |-> Run!Offered(q[1], q[2])]
           iter == CHOOSE h : It(h)
           n == Len(s)
<1>1. n \in Nat /\ DOMAIN s = 1..n /\ s \in Seq(X) /\ NoOffer \in V
  BY DEF NoOffer, Offer
<1>2. F \in [V \X X -> V]
  BY OfferedKeeps
<1>3. \E h : It(h)
  <2>1. PICK h \in [SUBSET DOMAIN s -> V] : Folds(h, s, NoOffer, F)
    <3> HIDE DEF F, X, V
    <3> QED BY <1>1, <1>2, FoldIteration
  <2>2. ASSUME NEW r \in SUBSET DOMAIN s, r # {}
        PROVE  F[<<h[r \ {Max(r)}], s[Max(r)]>>] = Run!Offered(h[r \ {Max(r)}], s[Max(r)])
    <3> HIDE DEF X, V
    <3>1. Max(r) \in 1..n
      BY <1>1, <2>2, GreatestOfPart
    <3>2. s[Max(r)] \in X /\ h[r \ {Max(r)}] \in V
      BY <1>1, <3>1
    <3> QED BY <3>2
  <2> HIDE DEF F, X, V
  <2>3. It(h)
    BY <2>1, <2>2 DEF Folds
  <2> QED BY <2>3
<1> HIDE DEF F, X, V
<1>4. It(iter)
  BY <1>3
<1>5. Run!ReferencedFiles(s) = iter[DOMAIN s]
  BY DEF Run!ReferencedFiles, NoOffer, Run!FoldLeft, Run!MapThenFoldSet, Max, Run!Max
<1>6. iter[1..0] = NoOffer /\ \A k \in 1..n : iter[1..k] = Run!Offered(iter[1..(k - 1)], s[k])
  <2> HIDE DEF iter, n
  <2>1. iter[1..0] = NoOffer
    BY <1>1, <1>4
  <2>2. ASSUME NEW k \in 1..n PROVE iter[1..k] = Run!Offered(iter[1..(k - 1)], s[k])
    <3>1. 1..k \in SUBSET DOMAIN s /\ 1..k # {} /\ Max(1..k) = k /\ (1..k) \ {k} = 1..(k - 1)
      <4>1. k \in Nat /\ k # 0 /\ 1..k \in SUBSET (1..n)
        BY <1>1
      <4>2. 1..k # {} /\ Max(1..k) = k /\ (1..k) \ {k} = 1..(k - 1)
        BY <4>1, UpTo
      <4> QED BY <1>1, <4>1, <4>2
    <3> QED BY <1>4, <3>1
  <2> QED BY <2>1, <2>2
<1> DEFINE g == [k \in 0..n |-> iter[1..k]]
<1>7. /\ g[0] = NoOffer /\ Run!ReferencedFiles(s) = g[n]
      /\ \A k \in 1..n : g[k] = Run!Offered(g[k - 1], s[k])
  <2>1. g[0] = NoOffer /\ g[n] = iter[1..n]
    <3> HIDE DEF iter, n
    <3> QED BY <1>1, <1>6
  <2>2. ASSUME NEW k \in 1..n PROVE g[k] = Run!Offered(g[k - 1], s[k])
    <3>1. k \in 0..n /\ k - 1 \in 0..n
      BY <1>1
    <3> HIDE DEF iter, n
    <3>2. g[k] = iter[1..k] /\ g[k - 1] = iter[1..(k - 1)]
      BY <3>1
    <3> HIDE DEF g
    <3> QED BY <1>6, <3>2
  <2> HIDE DEF iter, n
  <2> QED BY <1>1, <1>5, <2>1, <2>2
<1> HIDE DEF g
<1> QED BY <1>7

\* The files that can be sent, one mention after the other.
LEMMA AbleRuns ==
    ASSUME NEW s \in Seq(Mentions)
    PROVE  \E g : /\ g[0] = <<>> /\ FoldLeft(FirstAble, <<>>, s) = g[Len(s)]
                  /\ \A k \in 1..Len(s) : g[k] = FirstAble(g[k - 1], s[k])
<1> DEFINE X == Mentions
           V == Seq(Mentions)
           It(h) == h = [r \in SUBSET DOMAIN s |->
                            IF r = {} THEN <<>> ELSE FirstAble(h[r \ {Max(r)}], s[Max(r)])]
           F == [q \in V \X X |-> FirstAble(q[1], q[2])]
           iter == CHOOSE h : It(h)
           n == Len(s)
<1>1. n \in Nat /\ DOMAIN s = 1..n /\ s \in Seq(X) /\ <<>> \in V
  OBVIOUS
<1>2. F \in [V \X X -> V]
  <2>1. ASSUME NEW a \in V, NEW p \in X PROVE FirstAble(a, p) \in V
    <3>1. Append(a, p) \in Seq(X)
      <4>1. a \in Seq(X) /\ p \in X
        OBVIOUS
      <4> HIDE DEF X
      <4> QED BY ONLY <4>1
    <3> QED BY <3>1 DEF FirstAble
  <2> QED BY <2>1
<1>3. \E h : It(h)
  <2>1. PICK h \in [SUBSET DOMAIN s -> V] : Folds(h, s, <<>>, F)
    <3> HIDE DEF F, X, V
    <3> QED BY <1>1, <1>2, FoldIteration
  <2>2. ASSUME NEW r \in SUBSET DOMAIN s, r # {}
        PROVE  F[<<h[r \ {Max(r)}], s[Max(r)]>>] = FirstAble(h[r \ {Max(r)}], s[Max(r)])
    <3> HIDE DEF X, V
    <3>1. Max(r) \in 1..n
      BY <1>1, <2>2, GreatestOfPart
    <3>2. s[Max(r)] \in X /\ h[r \ {Max(r)}] \in V
      BY <1>1, <3>1
    <3> QED BY <3>2
  <2> HIDE DEF F, X, V
  <2>3. It(h)
    BY <2>1, <2>2 DEF Folds
  <2> QED BY <2>3
<1> HIDE DEF F, X, V
<1>4. It(iter)
  BY <1>3
<1>5. FoldLeft(FirstAble, <<>>, s) = iter[DOMAIN s]
  BY DEF FoldLeft, MapThenFoldSet, Max
<1>6. iter[1..0] = <<>> /\ \A k \in 1..n : iter[1..k] = FirstAble(iter[1..(k - 1)], s[k])
  <2> HIDE DEF iter, n
  <2>1. iter[1..0] = <<>>
    BY <1>1, <1>4
  <2>2. ASSUME NEW k \in 1..n PROVE iter[1..k] = FirstAble(iter[1..(k - 1)], s[k])
    <3>1. 1..k \in SUBSET DOMAIN s /\ 1..k # {} /\ Max(1..k) = k /\ (1..k) \ {k} = 1..(k - 1)
      <4>1. k \in Nat /\ k # 0 /\ 1..k \in SUBSET (1..n)
        BY <1>1
      <4>2. 1..k # {} /\ Max(1..k) = k /\ (1..k) \ {k} = 1..(k - 1)
        BY <4>1, UpTo
      <4> QED BY <1>1, <4>1, <4>2
    <3> QED BY <1>4, <3>1
  <2> QED BY <2>1, <2>2
<1> DEFINE g == [k \in 0..n |-> iter[1..k]]
<1>7. /\ g[0] = <<>> /\ FoldLeft(FirstAble, <<>>, s) = g[n]
      /\ \A k \in 1..n : g[k] = FirstAble(g[k - 1], s[k])
  <2>1. g[0] = <<>> /\ g[n] = iter[1..n]
    <3> HIDE DEF iter, n
    <3> QED BY <1>1, <1>6
  <2>2. ASSUME NEW k \in 1..n PROVE g[k] = FirstAble(g[k - 1], s[k])
    <3>1. k \in 0..n /\ k - 1 \in 0..n
      BY <1>1
    <3> HIDE DEF iter, n
    <3>2. g[k] = iter[1..k] /\ g[k - 1] = iter[1..(k - 1)]
      BY <3>1
    <3> HIDE DEF g
    <3> QED BY <1>6, <3>2
  <2> HIDE DEF iter, n
  <2> QED BY <1>1, <1>5, <2>1, <2>2
<1> HIDE DEF g
<1> QED BY <1>7

\* The loop of acceptableFiles.
Accepting(files) == Steps!FoldLeftDomain(LAMBDA s, i : Steps!Accept(files, s, i), [accepted |-> <<>>, ended |-> FALSE], files)

\* Accept's loop, one file after the other.
LEMMA AcceptRuns ==
    ASSUME NEW files \in Seq(Pushed)
    PROVE  \E g : /\ g[0] = Nothing /\ Accepting(files) = g[Len(files)]
                  /\ \A k \in 1..Len(files) : g[k] = Steps!Accept(files, g[k - 1], k)
<1> DEFINE p == [i \in DOMAIN files |-> i]
<1> DEFINE X == DOMAIN files
           V == Taking
           It(h) == h = [r \in SUBSET DOMAIN p |->
                            IF r = {} THEN Nothing ELSE Steps!Accept(files, h[r \ {Max(r)}], p[Max(r)])]
           F == [q \in V \X X |-> Steps!Accept(files, q[1], q[2])]
           iter == CHOOSE h : It(h)
           n == Len(p)
<1>1. n \in Nat /\ DOMAIN p = 1..n /\ p \in Seq(X) /\ Nothing \in V
  BY DEF Nothing, Taking
<1>2. F \in [V \X X -> V]
  <2>1. ASSUME NEW t \in V, NEW i \in X PROVE Steps!Accept(files, t, i) \in V
    <3> DEFINE N == Pushed
    <3>1. t.accepted \in Seq(N) /\ t.ended \in BOOLEAN /\ files[i] \in N
          /\ t = [accepted |-> t.accepted, ended |-> t.ended]
      BY DEF Taking
    <3> HIDE DEF N
    <3>2. Append(t.accepted, files[i]) \in Seq(N)
      BY <3>1
    <3> QED BY <3>1, <3>2 DEF Taking, Steps!Accept, N
  <2> QED BY <2>1
<1>3. \E h : It(h)
  <2>1. PICK h \in [SUBSET DOMAIN p -> V] : Folds(h, p, Nothing, F)
    <3> HIDE DEF F, X, V
    <3> QED BY <1>1, <1>2, FoldIteration
  <2>2. ASSUME NEW r \in SUBSET DOMAIN p, r # {}
        PROVE  F[<<h[r \ {Max(r)}], p[Max(r)]>>] = Steps!Accept(files, h[r \ {Max(r)}], p[Max(r)])
    <3> HIDE DEF X, V
    <3>1. Max(r) \in 1..n
      BY <1>1, <2>2, GreatestOfPart
    <3>2. p[Max(r)] \in X /\ h[r \ {Max(r)}] \in V
      BY <1>1, <3>1
    <3> QED BY <3>2
  <2> HIDE DEF F, X, V
  <2>3. It(h)
    BY <2>1, <2>2 DEF Folds
  <2> QED BY <2>3
<1> HIDE DEF F, X, V
<1>4. It(iter)
  BY <1>3
<1>5. Accepting(files) = iter[DOMAIN p]
  BY DEF Accepting, Steps!FoldLeftDomain, Nothing, Steps!FoldLeft, Steps!MapThenFoldSet, Max, Steps!Max
<1>6. iter[1..0] = Nothing /\ \A k \in 1..n : iter[1..k] = Steps!Accept(files, iter[1..(k - 1)], p[k])
  <2> HIDE DEF iter, n
  <2>1. iter[1..0] = Nothing
    BY <1>1, <1>4
  <2>2. ASSUME NEW k \in 1..n PROVE iter[1..k] = Steps!Accept(files, iter[1..(k - 1)], p[k])
    <3>1. 1..k \in SUBSET DOMAIN p /\ 1..k # {} /\ Max(1..k) = k /\ (1..k) \ {k} = 1..(k - 1)
      <4>1. k \in Nat /\ k # 0 /\ 1..k \in SUBSET (1..n)
        BY <1>1
      <4>2. 1..k # {} /\ Max(1..k) = k /\ (1..k) \ {k} = 1..(k - 1)
        BY <4>1, UpTo
      <4> QED BY <1>1, <4>1, <4>2
    <3> QED BY <1>4, <3>1
  <2> QED BY <2>1, <2>2
<1> DEFINE g == [k \in 0..n |-> iter[1..k]]
<1>7. /\ g[0] = Nothing /\ Accepting(files) = g[n]
      /\ \A k \in 1..n : g[k] = Steps!Accept(files, g[k - 1], p[k])
  <2>1. g[0] = Nothing /\ g[n] = iter[1..n]
    <3> HIDE DEF iter, n
    <3> QED BY <1>1, <1>6
  <2>2. ASSUME NEW k \in 1..n PROVE g[k] = Steps!Accept(files, g[k - 1], p[k])
    <3>1. k \in 0..n /\ k - 1 \in 0..n
      BY <1>1
    <3> HIDE DEF iter, n
    <3>2. g[k] = iter[1..k] /\ g[k - 1] = iter[1..(k - 1)]
      BY <3>1
    <3> HIDE DEF g
    <3> QED BY <1>6, <3>2
  <2> HIDE DEF iter, n
  <2> QED BY <1>1, <1>5, <2>1, <2>2
<1>8. Len(p) = Len(files) /\ \A k \in 1..Len(files) : p[k] = k
  OBVIOUS
<1> HIDE DEF g, p
<1> QED BY <1>7, <1>8 DEF n

\* What is in a sequence with one item more, and of two numbers the smaller.
LEMMA SetGrows ==
    ASSUME NEW S, NEW s \in Seq(S), NEW x \in S
    PROVE  ToSet(Append(s, x)) = ToSet(s) \cup {x}
<1> DEFINE all == Append(s, x)
<1>1. /\ Len(all) = Len(s) + 1 /\ Len(s) \in Nat /\ \A k \in 1..Len(s) : all[k] = s[k] /\ k \in 1..Len(all)
      /\ all[Len(s) + 1] = x /\ Len(s) + 1 \in 1..Len(all)
      /\ \A k \in 1..Len(all) : k \in 1..Len(s) \/ k = Len(s) + 1
  BY OneMore
<1>2. DOMAIN all = 1..Len(all) /\ DOMAIN s = 1..Len(s)
  OBVIOUS
<1> HIDE DEF all
<1>3. ASSUME NEW y \in ToSet(all) PROVE y \in ToSet(s) \cup {x}
  <2>1. PICK k \in 1..Len(all) : y = all[k]
    BY <1>2, <1>3 DEF ToSet
  <2> QED BY <1>1, <1>2, <2>1 DEF ToSet
<1>4. ASSUME NEW y \in ToSet(s) \cup {x} PROVE y \in ToSet(all)
  <2>1. CASE y = x
    BY <1>1, <1>2, <2>1 DEF ToSet
  <2>2. CASE y \in ToSet(s)
    <3>1. PICK k \in 1..Len(s) : y = s[k]
      BY <1>2, <2>2 DEF ToSet
    <3> QED BY <1>1, <1>2, <3>1 DEF ToSet
  <2> QED BY <1>4, <2>1, <2>2
<1> QED BY <1>3, <1>4 DEF all

\* Of two numbers the lesser.
LEMMA LesserOfTwo ==
    ASSUME NEW a \in Int, NEW b \in Int
    PROVE  Min({a, b}) = IF a < b THEN a ELSE b
<1> DEFINE m == IF a < b THEN a ELSE b
<1>1. m \in {a, b} /\ \A y \in {a, b} : m <= y
  OBVIOUS
<1>2. \A x \in {a, b} : (\A y \in {a, b} : x <= y) => x = m
  OBVIOUS
<1> QED BY <1>1, <1>2 DEF Min

\* What has been offered of the paths mentioned, o, and the files of them that
\* can be sent, a.
Offers(o, a, taken) ==
    /\ o \in Offer /\ a \in Seq(Mentions)
    /\ o.seen = {p \in taken : FileAt[p].absolute}
    /\ ToSet(a) = {p \in taken : May(p)}
    /\ Len(o.out) = IF Len(a) < MaxAttachments THEN Len(a) ELSE MaxAttachments
    /\ \A i \in 1..Len(o.out) : o.out[i] = a[i]
    /\ ToSet(o.out) \cap ToSet(o.skipped) = {} /\ IsInjective(o.skipped)
    /\ ToSet(o.skipped) \subseteq o.seen
    /\ \A p \in taken \ (ToSet(o.out) \cup ToSet(o.skipped)) :
          ~FileAt[p].absolute \/ ~FileAt[p].stat \/ ~FileAt[p].read

\* An item that is not in an injective sequence leaves it injective.
LEMMA InjectionGrows ==
    ASSUME NEW S, NEW s \in Seq(S), NEW x \in S, x \notin ToSet(s), IsInjective(s)
    PROVE  IsInjective(Append(s, x))
<1> DEFINE all == Append(s, x)
<1>1. /\ \A k \in 1..Len(s) : all[k] = s[k]
      /\ all[Len(s) + 1] = x
      /\ \A k \in 1..Len(all) : k \in 1..Len(s) \/ k = Len(s) + 1
  BY OneMore
<1>2. DOMAIN all = 1..Len(all) /\ DOMAIN s = 1..Len(s)
  OBVIOUS
<1> HIDE DEF all
<1>3. \A k \in 1..Len(s) : s[k] # x
  BY <1>2 DEF ToSet
<1> SUFFICES ASSUME NEW i \in 1..Len(all), NEW j \in 1..Len(all), all[i] = all[j] PROVE i = j
  BY <1>2 DEF IsInjective, all
<1> QED BY <1>1, <1>2, <1>3 DEF IsInjective

\* One more mention.
LEMMA OfferedGrows ==
    ASSUME NEW o, NEW a, NEW taken \in SUBSET Mentions, NEW q \in Mentions, Offers(o, a, taken)
    PROVE  Offers(Run!Offered(o, q), FirstAble(a, q), taken \cup {q})
<1> DEFINE f == FileAt[q]
           next == Run!Offered(o, q)
           able == FirstAble(a, q)
           all == taken \cup {q}
<1>1. /\ f.absolute \in BOOLEAN /\ f.secret \in BOOLEAN /\ f.stat \in BOOLEAN /\ f.read \in BOOLEAN /\ f.bytes \in Nat
      /\ MaxAttachments \in Nat /\ MaxAttachmentBytes \in Nat
  BY Pushes DEF Mentions
<1>2. /\ o \in Offer /\ a \in Seq(Mentions) /\ o.seen = {p \in taken : FileAt[p].absolute}
      /\ ToSet(a) = {p \in taken : May(p)}
      /\ Len(o.out) = IF Len(a) < MaxAttachments THEN Len(a) ELSE MaxAttachments
      /\ \A i \in 1..Len(o.out) : o.out[i] = a[i]
      /\ ToSet(o.out) \cap ToSet(o.skipped) = {} /\ IsInjective(o.skipped)
      /\ ToSet(o.skipped) \subseteq o.seen
      /\ \A p \in taken \ (ToSet(o.out) \cup ToSet(o.skipped)) :
            ~FileAt[p].absolute \/ ~FileAt[p].stat \/ ~FileAt[p].read
  BY DEF Offers
<1>3. /\ o.out \in Seq(Mentions) /\ o.skipped \in Seq(Mentions) /\ o.seen \in SUBSET Mentions
      /\ Len(o.out) \in Nat /\ Len(a) \in Nat
  BY <1>2 DEF Offer
<1>4. ToSet(o.out) \subseteq ToSet(a)
  <2> SUFFICES ASSUME NEW x \in ToSet(o.out) PROVE x \in ToSet(a)
    OBVIOUS
  <2>1. DOMAIN o.out = 1..Len(o.out) /\ DOMAIN a = 1..Len(a)
    BY <1>2, <1>3
  <2>2. PICK i \in 1..Len(o.out) : x = o.out[i]
    BY <2>1 DEF ToSet
  <2>3. i \in 1..Len(a)
    BY <1>1, <1>2, <1>3
  <2> QED BY <1>2, <2>1, <2>2, <2>3 DEF ToSet
<1>5. next \in Offer
  BY <1>2, OfferedKeeps
<1>6. May(q) <=> f.absolute /\ ~f.secret /\ f.stat /\ f.read /\ f.bytes <= MaxAttachmentBytes
  BY DEF May
<1>7. able = IF May(q) /\ q \notin ToSet(a) THEN Append(a, q) ELSE a
  BY DEF FirstAble, May
<1> DEFINE seen == [o EXCEPT !.seen = o.seen \cup {q}]
           skip == [seen EXCEPT !.skipped = Append(o.skipped, q)]
           take == [seen EXCEPT !.out = Append(o.out, q)]
<1>8. next = IF ~f.absolute \/ q \in o.seen THEN o
             ELSE IF f.secret \/ Len(o.out) >= MaxAttachments THEN skip
             ELSE IF ~f.stat THEN seen
             ELSE IF f.bytes > MaxAttachmentBytes THEN skip
             ELSE IF ~f.read THEN seen
             ELSE take
  BY <1>2 DEF Run!Offered, Offer
<1>9. /\ seen.out = o.out /\ seen.skipped = o.skipped /\ seen.seen = o.seen \cup {q}
      /\ skip.out = o.out /\ skip.skipped = Append(o.skipped, q) /\ skip.seen = o.seen \cup {q}
      /\ take.out = Append(o.out, q) /\ take.skipped = o.skipped /\ take.seen = o.seen \cup {q}
  BY <1>2 DEF Offer
<1> HIDE DEF f, next, able, seen, skip, take
<1>10. CASE ~f.absolute \/ q \in o.seen
  <2>1. next = o
    BY <1>8, <1>10
  <2>2. {p \in all : FileAt[p].absolute} = {p \in taken : FileAt[p].absolute}
    BY <1>2, <1>10 DEF f
  <2>3. {p \in all : May(p)} = {p \in taken : May(p)}
    BY <1>2, <1>6, <1>10 DEF f
  <2>4. able = a
    BY <1>2, <1>6, <1>7, <1>10
  <2>5. ASSUME NEW p \in all \ (ToSet(o.out) \cup ToSet(o.skipped))
        PROVE  ~FileAt[p].absolute \/ ~FileAt[p].stat \/ ~FileAt[p].read
    BY <1>2, <1>10, <2>5 DEF f
  <2> HIDE DEF all
  <2>6. Offers(o, a, all)
    BY <1>2, <2>2, <2>3, <2>5 DEF Offers
  <2> QED BY <2>1, <2>4, <2>6 DEF next, able, all
<1>11. CASE ~(~f.absolute \/ q \in o.seen)
  <2>1. q \notin taken /\ q \notin ToSet(a) /\ q \notin ToSet(o.out) /\ q \notin ToSet(o.skipped) /\ f.absolute
    BY <1>1, <1>2, <1>4, <1>11 DEF f
  <2>2. next \in {skip, seen, take} /\ next.seen = {p \in all : FileAt[p].absolute}
    <3>1. next \in {skip, seen, take}
      BY <1>8, <1>11
    <3>2. next.seen = o.seen \cup {q}
      BY <1>9, <3>1
    <3>3. o.seen \cup {q} = {p \in all : FileAt[p].absolute}
      BY <1>2, <2>1 DEF f
    <3> QED BY <3>1, <3>2, <3>3
  <2>3. able = (IF May(q) THEN Append(a, q) ELSE a) /\ able \in Seq(Mentions)
    <3>1. able = IF May(q) THEN Append(a, q) ELSE a
      BY <1>7, <2>1
    <3> DEFINE N == Mentions
    <3>2. a \in Seq(N) /\ q \in N
      BY <1>2
    <3> HIDE DEF N
    <3>3. Append(a, q) \in Seq(N)
      BY <3>2
    <3> QED BY <3>1, <3>2, <3>3 DEF N
  <2>4. ToSet(able) = {p \in all : May(p)}
    <3>1. May(q) => ToSet(able) = ToSet(a) \cup {q}
      BY <1>2, <2>3, SetGrows
    <3>2. ~May(q) => ToSet(able) = ToSet(a)
      BY <2>3
    <3> QED BY <1>2, <3>1, <3>2
  <2>5. /\ Len(Append(a, q)) = Len(a) + 1 /\ Append(a, q)[Len(a) + 1] = q
        /\ \A i \in 1..Len(a) : Append(a, q)[i] = a[i]
    BY <1>2
  <2>6. /\ Len(Append(o.out, q)) = Len(o.out) + 1 /\ Append(o.out, q)[Len(o.out) + 1] = q
        /\ \A i \in 1..Len(o.out) : Append(o.out, q)[i] = o.out[i]
    BY <1>3
  <2>7. ToSet(Append(o.skipped, q)) = ToSet(o.skipped) \cup {q} /\ IsInjective(Append(o.skipped, q))
    BY <1>2, <1>3, <2>1, SetGrows, InjectionGrows
  <2>8. ToSet(Append(o.out, q)) = ToSet(o.out) \cup {q}
    BY <1>3, SetGrows
  <2> HIDE DEF all
  <2>9. all = taken \cup {q}
    BY DEF all
  <2>10. CASE next = skip
    <3>1. ~May(q) \/ ~(Len(a) < MaxAttachments)
      <4>1. CASE May(q)
        <5>1. skip # take
          <6>1. q \notin ToSet(o.skipped) /\ q \in ToSet(Append(o.skipped, q))
            BY <2>1, <2>7
          <6> QED BY <1>9, <6>1
        <5>2. Len(o.out) >= MaxAttachments
          BY <1>1, <1>6, <1>8, <1>11, <2>10, <4>1, <5>1
        <5> QED BY <1>1, <1>2, <1>3, <5>2
      <4> QED BY <4>1
    <3>2. Len(o.out) = IF Len(able) < MaxAttachments THEN Len(able) ELSE MaxAttachments
      BY <1>1, <1>2, <1>3, <2>3, <2>5, <3>1
    <3>3. \A i \in 1..Len(o.out) : o.out[i] = able[i]
      <4>1. \A i \in 1..Len(o.out) : i \in 1..Len(a)
        BY <1>1, <1>2, <1>3
      <4> QED BY <1>2, <2>3, <2>5, <4>1
    <3>4. Offers(skip, able, all)
      BY <1>2, <1>5, <1>9, <2>1, <2>2, <2>3, <2>4, <2>7, <2>9, <2>10, <3>2, <3>3 DEF Offers
    <3> QED BY <2>10, <3>4 DEF next, able, all
  <2>11. CASE next # skip /\ next = seen
    <3>1. ~May(q) /\ (~f.stat \/ ~f.read)
      <4>1. seen # take
        <5>1. q \notin ToSet(o.out) /\ q \in ToSet(Append(o.out, q))
          BY <2>1, <2>8
        <5> QED BY <1>9, <5>1
      <4> QED BY <1>1, <1>6, <1>8, <1>11, <2>11, <4>1
    <3>2. able = a
      BY <2>3, <3>1
    <3>3. Offers(seen, able, all)
      BY <1>2, <1>5, <1>9, <2>1, <2>2, <2>3, <2>4, <2>9, <2>11, <3>1, <3>2 DEF Offers, f
    <3> QED BY <2>11, <3>3 DEF next, able, all
  <2>12. CASE next # skip /\ next # seen
    <3>1. next = take /\ May(q) /\ Len(o.out) < MaxAttachments
      BY <1>1, <1>3, <1>6, <1>8, <1>11, <2>12
    <3>2. Len(o.out) = Len(a) /\ able = Append(a, q)
      BY <1>1, <1>2, <1>3, <2>3, <3>1
    <3>3. Len(take.out) = IF Len(able) < MaxAttachments THEN Len(able) ELSE MaxAttachments
      BY <1>1, <1>3, <1>9, <2>5, <2>6, <3>1, <3>2
    <3>4. \A i \in 1..Len(take.out) : take.out[i] = able[i]
      <4> SUFFICES ASSUME NEW i \in 1..Len(take.out) PROVE take.out[i] = able[i]
        OBVIOUS
      <4>1. i \in 1..Len(a) \/ i = Len(a) + 1
        BY <1>3, <1>9, <2>6, <3>2
      <4> QED BY <1>2, <1>9, <2>5, <2>6, <3>2, <4>1
    <3>5. Offers(take, able, all)
      BY <1>2, <1>5, <1>9, <2>1, <2>2, <2>3, <2>4, <2>8, <2>9, <3>1, <3>3, <3>4 DEF Offers
    <3> QED BY <3>1, <3>5 DEF next, able, all
  <2> QED BY <2>2, <2>10, <2>11, <2>12
<1> QED BY <1>10, <1>11

\* The server accepts files as long as there is room for all and none is too long.
LEMMA AllAreAccepted ==
    ASSUME NEW files \in Seq(Pushed), Len(files) <= MaxFilesPerSession,
           \A k \in 1..Len(files) : files[k].chars <= MaxFileChars
    PROVE  Steps!AcceptableFiles(files) = files
<1> DEFINE n == Len(files)
           Sofar(t, k) == t \in Taking /\ t.accepted = SubSeq(files, 1, k) /\ ~t.ended
<1>1. PICK g : /\ g[0] = Nothing /\ Accepting(files) = g[n]
               /\ \A k \in 1..n : g[k] = Steps!Accept(files, g[k - 1], k)
  BY AcceptRuns
<1> DEFINE B == {k \in Nat : k <= n => Sofar(g[k], k)}
<1>2. n \in Nat /\ MaxFilesPerSession \in Nat /\ MaxFileChars \in Nat
  BY Pushes
<1>3. 0 \in B
  <2>1. SubSeq(files, 1, 0) = <<>>
    OBVIOUS
  <2>2. Nothing \in Taking /\ Nothing.accepted = <<>> /\ ~Nothing.ended
    BY DEF Nothing, Taking
  <2> QED BY <1>1, <2>1, <2>2
<1>4. ASSUME NEW k \in Nat, k \in B PROVE k + 1 \in B
  <2> SUFFICES ASSUME k + 1 <= n PROVE Sofar(g[k + 1], k + 1)
    OBVIOUS
  <2> DEFINE s == g[k]
             x == files[k + 1]
             N == Pushed
  <2>1. k \in 0..n /\ k < n /\ k + 1 \in 1..n /\ (k + 1) - 1 = k
    BY <1>2
  <2>2. Sofar(s, k) /\ g[k + 1] = Steps!Accept(files, s, k + 1)
    BY <1>1, <1>4, <2>1
  <2>3. Len(SubSeq(files, 1, k)) = k /\ SubSeq(files, 1, k + 1) = Append(SubSeq(files, 1, k), x)
    BY <2>1, Beginning
  <2>4. x \in N /\ x.chars <= MaxFileChars
    BY <2>1
  <2>5. x.path # Blank /\ x.chars \in Nat
    BY <2>4, Pushes DEF Pushed, Mentions
  <2>6. ~(k >= MaxFilesPerSession) /\ ~(x.chars > MaxFileChars)
    BY <1>2, <2>1, <2>4, <2>5
  <2>7. s \in [accepted : Seq(N), ended : BOOLEAN] /\ ~s.ended /\ Len(s.accepted) = k
    BY <2>2, <2>3 DEF Taking
  <2> DEFINE y == Append(s.accepted, x)
  <2> HIDE DEF N, s
  <2>8. y \in Seq(N)
    BY <2>4, <2>7
  <2>9. Steps!Accept(files, s, k + 1) = [s EXCEPT !.accepted = y]
    BY <2>5, <2>6, <2>7 DEF Steps!Accept, Steps!AtCap
  <2> HIDE DEF x, y
  <2>10. /\ [s EXCEPT !.accepted = y] \in [accepted : Seq(N), ended : BOOLEAN]
         /\ [s EXCEPT !.accepted = y].accepted = y /\ ~[s EXCEPT !.accepted = y].ended
    BY <2>7, <2>8
  <2>11. y = SubSeq(files, 1, k + 1)
    BY <2>2, <2>3 DEF y
  <2> QED BY <2>2, <2>9, <2>10, <2>11 DEF Taking, N
<1> HIDE DEF B
<1>5. n \in B
  BY <1>2, <1>3, <1>4, NatByStep
<1>6. Sofar(Accepting(files), n)
  BY <1>1, <1>2, <1>5 DEF B
<1>7. SubSeq(files, 1, n) = files
  OBVIOUS
<1>8. Steps!AcceptableFiles(files) = Accepting(files).accepted
  BY DEF Steps!AcceptableFiles, Accepting
<1> QED BY <1>6, <1>7, <1>8

\* The offer of a whole transcript.
LEMMA OffersOfAll ==
    ASSUME NEW s \in Seq(Mentions)
    PROVE  Offers(Run!ReferencedFiles(s), FoldLeft(FirstAble, <<>>, s), ToSet(s))
<1> DEFINE n == Len(s)
           taken(k) == {s[i] : i \in 1..k}
<1>1. PICK g : /\ g[0] = NoOffer /\ Run!ReferencedFiles(s) = g[n]
               /\ \A k \in 1..n : g[k] = Run!Offered(g[k - 1], s[k])
  BY OfferRuns
<1>2. PICK h : /\ h[0] = <<>> /\ FoldLeft(FirstAble, <<>>, s) = h[n]
               /\ \A k \in 1..n : h[k] = FirstAble(h[k - 1], s[k])
  BY AbleRuns
<1> DEFINE B == {k \in Nat : k <= n => Offers(g[k], h[k], taken(k))}
<1>3. n \in Nat /\ DOMAIN s = 1..n
  OBVIOUS
<1>4. 0 \in B
  <2>1. taken(0) = {}
    OBVIOUS
  <2>2. NoOffer \in Offer /\ <<>> \in Seq(Mentions) /\ Len(<<>>) = 0 /\ ToSet(<<>>) = {} /\ IsInjective(<<>>)
    BY DEF NoOffer, Offer, ToSet, IsInjective
  <2>3. NoOffer.out = <<>> /\ NoOffer.skipped = <<>> /\ NoOffer.seen = {}
    BY DEF NoOffer
  <2>4. MaxAttachments \in Nat
    BY Pushes
  <2>5. Offers(NoOffer, <<>>, {})
    BY <2>2, <2>3, <2>4 DEF Offers
  <2> QED BY <1>1, <1>2, <2>1, <2>5
<1>5. ASSUME NEW k \in Nat, k \in B PROVE k + 1 \in B
  <2> SUFFICES ASSUME k + 1 <= n PROVE Offers(g[k + 1], h[k + 1], taken(k + 1))
    OBVIOUS
  <2>1. k <= n /\ k + 1 \in 1..n /\ (k + 1) - 1 = k /\ s[k + 1] \in Mentions
    BY <1>3
  <2>2. Offers(g[k], h[k], taken(k))
    BY <1>5, <2>1
  <2>3. g[k + 1] = Run!Offered(g[k], s[k + 1]) /\ h[k + 1] = FirstAble(h[k], s[k + 1])
    BY <1>1, <1>2, <2>1
  <2>4. taken(k + 1) = taken(k) \cup {s[k + 1]} /\ taken(k) \in SUBSET Mentions
    <3>1. 1..(k + 1) = 1..k \cup {k + 1}
      OBVIOUS
    <3>2. \A i \in 1..k : i \in DOMAIN s
      BY <1>3, <2>1
    <3> QED BY <3>1, <3>2
  <2> HIDE DEF taken
  <2> QED BY <2>1, <2>2, <2>3, <2>4, OfferedGrows
<1> HIDE DEF B
<1>6. n \in B
  BY <1>3, <1>4, <1>5, NatByStep
<1>7. taken(n) = ToSet(s)
  BY <1>3 DEF ToSet
<1> HIDE DEF taken, n
<1>8. Offers(g[n], h[n], taken(n))
  BY <1>3, <1>6 DEF B
<1> QED BY <1>1, <1>2, <1>7, <1>8

\* Of any mentions.
LEMMA AttachmentsAreKept ==
    ASSUME kind = "mentions" => input \in Seq(Mentions)
    PROVE  AttachedFilesAreKept
<1> SUFFICES ASSUME kind = "mentions", input \in Seq(Mentions)
             PROVE  AttachedFilesAreKept
  BY DEF AttachedFilesAreKept
<1> DEFINE found == Run!ReferencedFiles(input)
           able == FoldLeft(FirstAble, <<>>, input)
           pushed == [i \in DOMAIN found.out |-> [path |-> found.out[i], chars |-> FileAt[found.out[i]].bytes]]
           m == Min({MaxAttachments, Len(able)})
<1>1. Offers(found, able, ToSet(input))
  BY OffersOfAll
<1> HIDE DEF found, able
<1>2. /\ found.out \in Seq(Mentions) /\ able \in Seq(Mentions) /\ Len(found.out) \in Nat /\ Len(able) \in Nat
      /\ DOMAIN found.out = 1..Len(found.out) /\ DOMAIN able = 1..Len(able)
      /\ ToSet(able) = {p \in ToSet(input) : May(p)}
      /\ Len(found.out) = IF Len(able) < MaxAttachments THEN Len(able) ELSE MaxAttachments
      /\ \A i \in 1..Len(found.out) : found.out[i] = able[i]
  BY <1>1 DEF Offers, Offer
<1>3. MaxAttachments \in Nat /\ MaxAttachmentBytes \in Nat /\ MaxFilesPerSession \in Nat /\ MaxFileChars \in Nat
  BY Pushes
<1>4. found.out = SubSeq(able, 1, m)
  <2>1. m = IF MaxAttachments < Len(able) THEN MaxAttachments ELSE Len(able)
    BY <1>2, <1>3, LesserOfTwo
  <2>2. m = Len(found.out) /\ m \in 0..Len(able)
    BY <1>2, <1>3, <2>1
  <2> HIDE DEF m
  <2>3. /\ SubSeq(able, 1, m) \in Seq(Mentions) /\ Len(SubSeq(able, 1, m)) = m
        /\ \A i \in 1..m : SubSeq(able, 1, m)[i] = able[i]
    BY <1>2, <2>2, Beginning
  <2> QED BY <1>2, <2>2, <2>3, SeqEqual
<1>5. Steps!AcceptableFiles(pushed) = pushed
  <2>1. ASSUME NEW i \in 1..Len(found.out)
        PROVE  /\ found.out[i] \in Mentions /\ FileAt[found.out[i]].bytes \in Nat
               /\ FileAt[found.out[i]].bytes <= MaxAttachmentBytes
    <3>1. i \in 1..Len(able) /\ found.out[i] = able[i]
      BY <1>2, <1>3
    <3>2. May(found.out[i])
      BY <1>2, <3>1 DEF ToSet
    <3> QED BY <1>2, <3>2, Pushes DEF May, Mentions
  <2>2. pushed \in Seq(Pushed) /\ Len(pushed) = Len(found.out) /\ \A i \in 1..Len(pushed) : pushed[i].chars = FileAt[found.out[i]].bytes
    <3> DEFINE P == Pushed
               one(i) == [path |-> found.out[i], chars |-> FileAt[found.out[i]].bytes]
               len == Len(found.out)
    <3>1. \A i \in 1..len : one(i) \in P
      BY <2>1 DEF Pushed
    <3>2. \A i \in 1..len : one(i).chars = FileAt[found.out[i]].bytes
      OBVIOUS
    <3>3. len \in Nat /\ pushed = [i \in 1..len |-> one(i)]
      BY <1>2
    <3> HIDE DEF P, one, len, pushed
    <3>4. pushed \in Seq(P) /\ Len(pushed) = len /\ \A i \in 1..len : pushed[i] = one(i)
      BY <3>1, <3>3
    <3> QED BY <3>2, <3>4 DEF P, len
  <2> HIDE DEF pushed
  <2>3. Len(pushed) <= MaxFilesPerSession
    BY <1>2, <1>3, <2>2, Limits
  <2>4. \A k \in 1..Len(pushed) : pushed[k].chars <= MaxFileChars
    BY <1>3, <2>1, <2>2, Limits
  <2> QED BY <2>2, <2>3, <2>4, AllAreAccepted
<1>6. /\ ToSet(found.out) \cap ToSet(found.skipped) = {} /\ IsInjective(found.skipped)
      /\ \A p \in ToSet(input) \ (ToSet(found.out) \cup ToSet(found.skipped)) :
            ~FileAt[p].absolute \/ ~FileAt[p].stat \/ ~FileAt[p].read
  BY <1>1 DEF Offers
<1> QED BY <1>4, <1>5, <1>6 DEF AttachedFilesAreKept, found, able

-------------------------------------------------------------------------------
(* The report. *)

\* What a pass did to a source, and a report.
Row == [ingested : Nat, skipped : Nat, failed : Nat, summariesFailed : Nat, error : BOOLEAN]
Passes == [source : STRING, row : Row]
RunReport == [rows : Seq(Passes), total : [Run!Counts -> Nat], failed : BOOLEAN]

\* A part of 1..n that is not empty has a least number.
LEMMA LeastOfPart ==
    ASSUME NEW n \in Nat, NEW r \in SUBSET (1..n), r # {}
    PROVE  \E x \in r : \A y \in r : x <= y
<1> DEFINE away == {i \in 1..n : n + 1 - i \in r}
<1>1. PICK j \in r : TRUE
  OBVIOUS
<1>2. away \in SUBSET (1..n) /\ n + 1 - j \in away
  BY <1>1
<1>3. Max(away) \in away /\ \A i \in away : i <= Max(away)
  <2> HIDE DEF away
  <2> QED BY <1>2, GreatestOfPart
<1> DEFINE x == n + 1 - Max(away)
<1>4. x \in r
  BY <1>3
<1>5. ASSUME NEW y \in r PROVE x <= y
  <2>1. n + 1 - y \in away /\ y \in 1..n
    OBVIOUS
  <2>2. n + 1 - y <= Max(away) /\ Max(away) \in 1..n
    BY <1>3, <2>1
  <2> QED BY <2>1, <2>2
<1> HIDE DEF x
<1> QED BY <1>4, <1>5

\* A count of a row is a number.
LEMMA CountsAreNumbers ==
    ASSUME NEW row \in Row, NEW c \in Run!Counts
    PROVE  row[c] \in Nat
BY DEF Row, Run!Counts

\* A report and the next one.
Added(rep, next, pass) ==
    /\ next \in RunReport
    /\ next.failed <=> rep.failed \/ Run!errored(pass.row)
    /\ \A c \in Run!Counts : next.total[c] = rep.total[c] + pass.row[c]
    /\ \/ /\ \A i \in 1..Len(rep.rows) : rep.rows[i].source # pass.source
          /\ next.rows = Append(rep.rows, pass)
       \/ \E p \in 1..Len(rep.rows) :
             rep.rows[p].source = pass.source /\ next.rows = [rep.rows EXCEPT ![p] = pass]

\* One more pass.
LEMMA RowAdded ==
    ASSUME NEW rep \in RunReport, NEW pass \in Passes
    PROVE  Added(rep, Run!AddRow(rep, pass.source, pass.row), pass)
<1> DEFINE next == Run!AddRow(rep, pass.source, pass.row)
           rows == rep.rows
           I == {i \in 1..Len(rows) : rows[i].source = pass.source}
           least == CHOOSE x \in I : \A y \in I : x <= y
           place == IF I # {} THEN least ELSE 0
           new == [source |-> pass.source, row |-> pass.row]
           total == [c \in Run!Counts |-> rep.total[c] + pass.row[c]]
           all == IF place = 0 THEN Append(rows, new) ELSE [rows EXCEPT ![place] = new]
<1>1. new = pass /\ rows \in Seq(Passes) /\ Len(rows) \in Nat /\ rep.failed \in BOOLEAN /\ pass.row \in Row
  BY DEF Passes, RunReport
<1>2. next.rows = all /\ next.total = total /\ (next.failed <=> rep.failed \/ Run!errored(pass.row))
      /\ next = [rows |-> next.rows, total |-> next.total, failed |-> next.failed] /\ next.failed \in BOOLEAN
  BY <1>1 DEF Run!AddRow, Run!SelectInSeq, Run!Min, Run!errored
<1>3. total \in [Run!Counts -> Nat]
  <2>1. ASSUME NEW c \in Run!Counts PROVE rep.total[c] + pass.row[c] \in Nat
    BY <1>1, CountsAreNumbers DEF RunReport
  <2> QED BY <2>1
<1> DEFINE N == Passes
<1>4. rows \in Seq(N) /\ new \in N
  BY <1>1
<1> HIDE DEF total, next, rows, new, N
<1> SUFFICES Added(rep, next, pass)
  BY DEF next
<1>5. CASE I = {}
  <2>1. place = 0
    BY <1>5
  <2>2. all = Append(rows, new) /\ all \in Seq(N) /\ \A i \in 1..Len(rows) : rows[i].source # pass.source
    BY <1>4, <1>5, <2>1
  <2> HIDE DEF all, place, I
  <2> QED BY <1>1, <1>2, <1>3, <2>2 DEF Added, RunReport, rows, total, N
<1>6. CASE I # {}
  <2>1. least \in I
    <3>1. I \in SUBSET (1..Len(rows))
      OBVIOUS
    <3>2. \E x \in I : \A y \in I : x <= y
      <4> HIDE DEF I
      <4> QED BY <1>1, <1>6, <3>1, LeastOfPart DEF rows
    <3> HIDE DEF I
    <3> QED BY <3>2
  <2>2. place = least
    BY <1>6
  <2> HIDE DEF least
  <2>3. least \in 1..Len(rows) /\ rows[least].source = pass.source
    BY <2>1
  <2>4. least # 0
    BY <2>3
  <2> HIDE DEF I, place
  <2>5. all = [rows EXCEPT ![least] = new] /\ all \in Seq(N)
    BY <1>4, <2>2, <2>3, <2>4
  <2> HIDE DEF all
  <2> QED BY <1>1, <1>2, <1>3, <2>3, <2>5 DEF Added, RunReport, rows, total, N
<1> QED BY <1>5, <1>6

\* AddRow, one pass after the other.
LEMMA ReportRuns ==
    ASSUME NEW s \in Seq(Passes)
    PROVE  \E g : /\ g[0] = Run!NewReport /\ Report(s) = g[Len(s)]
                  /\ \A k \in 1..Len(s) : g[k] = Run!AddRow(g[k - 1], s[k].source, s[k].row)
<1> DEFINE X == Passes
           V == RunReport
           It(h) == h = [r \in SUBSET DOMAIN s |->
                            IF r = {} THEN Run!NewReport ELSE Run!AddRow(h[r \ {Max(r)}], s[Max(r)].source, s[Max(r)].row)]
           F == [q \in V \X X |-> Run!AddRow(q[1], q[2].source, q[2].row)]
           iter == CHOOSE h : It(h)
           n == Len(s)
<1>1. n \in Nat /\ DOMAIN s = 1..n /\ s \in Seq(X) /\ Run!NewReport \in V
  BY DEF Run!NewReport, RunReport
<1>2. F \in [V \X X -> V]
  BY RowAdded DEF Added
<1>3. \E h : It(h)
  <2>1. PICK h \in [SUBSET DOMAIN s -> V] : Folds(h, s, Run!NewReport, F)
    <3> HIDE DEF F, X, V
    <3> QED BY <1>1, <1>2, FoldIteration
  <2>2. ASSUME NEW r \in SUBSET DOMAIN s, r # {}
        PROVE  F[<<h[r \ {Max(r)}], s[Max(r)]>>] = Run!AddRow(h[r \ {Max(r)}], s[Max(r)].source, s[Max(r)].row)
    <3> HIDE DEF X, V
    <3>1. Max(r) \in 1..n
      BY <1>1, <2>2, GreatestOfPart
    <3>2. s[Max(r)] \in X /\ h[r \ {Max(r)}] \in V
      BY <1>1, <3>1
    <3> QED BY <3>2
  <2> HIDE DEF F, X, V
  <2>3. It(h)
    BY <2>1, <2>2 DEF Folds
  <2> QED BY <2>3
<1> HIDE DEF F, X, V
<1>4. It(iter)
  BY <1>3
<1>5. Report(s) = iter[DOMAIN s]
  BY DEF Report, FoldLeft, MapThenFoldSet, Max
<1>6. iter[1..0] = Run!NewReport /\ \A k \in 1..n : iter[1..k] = Run!AddRow(iter[1..(k - 1)], s[k].source, s[k].row)
  <2> HIDE DEF iter, n
  <2>1. iter[1..0] = Run!NewReport
    BY <1>1, <1>4
  <2>2. ASSUME NEW k \in 1..n PROVE iter[1..k] = Run!AddRow(iter[1..(k - 1)], s[k].source, s[k].row)
    <3>1. 1..k \in SUBSET DOMAIN s /\ 1..k # {} /\ Max(1..k) = k /\ (1..k) \ {k} = 1..(k - 1)
      <4>1. k \in Nat /\ k # 0 /\ 1..k \in SUBSET (1..n)
        BY <1>1
      <4>2. 1..k # {} /\ Max(1..k) = k /\ (1..k) \ {k} = 1..(k - 1)
        BY <4>1, UpTo
      <4> QED BY <1>1, <4>1, <4>2
    <3> QED BY <1>4, <3>1
  <2> QED BY <2>1, <2>2
<1> DEFINE g == [k \in 0..n |-> iter[1..k]]
<1>7. /\ g[0] = Run!NewReport /\ Report(s) = g[n]
      /\ \A k \in 1..n : g[k] = Run!AddRow(g[k - 1], s[k].source, s[k].row)
  <2>1. g[0] = Run!NewReport /\ g[n] = iter[1..n]
    <3> HIDE DEF iter, n
    <3> QED BY <1>1, <1>6
  <2>2. ASSUME NEW k \in 1..n PROVE g[k] = Run!AddRow(g[k - 1], s[k].source, s[k].row)
    <3>1. k \in 0..n /\ k - 1 \in 0..n
      BY <1>1
    <3> HIDE DEF iter, n
    <3>2. g[k] = iter[1..k] /\ g[k - 1] = iter[1..(k - 1)]
      BY <3>1
    <3> HIDE DEF g
    <3> QED BY <1>6, <3>2
  <2> HIDE DEF iter, n
  <2> QED BY <1>1, <1>5, <2>1, <2>2
<1> HIDE DEF g
<1> QED BY <1>7

\* What a report of the first k passes of s says, the totals aside.
LastPass(s, k, i) == \A j \in 1..k : s[j].source = s[i].source => j <= i
Accounts(rep, s, k) ==
    /\ rep \in RunReport
    /\ rep.failed <=> \E i \in 1..k : Run!errored(s[i].row)
    /\ \A i, j \in 1..Len(rep.rows) : rep.rows[i].source = rep.rows[j].source => i = j
    /\ \A a \in 1..Len(rep.rows) : \E i \in 1..k : rep.rows[a] = s[i] /\ LastPass(s, k, i)
    /\ \A i \in 1..k : \E a \in 1..Len(rep.rows) : rep.rows[a].source = s[i].source
    /\ (\A i, j \in 1..k : s[i].source = s[j].source => i = j) =>
          Len(rep.rows) = k /\ \A i \in 1..k : rep.rows[i] = s[i]

\* One more pass.
LEMMA AccountsGrow ==
    ASSUME NEW s \in Seq(Passes), NEW k \in Nat, k + 1 \in 1..Len(s), NEW rep, Accounts(rep, s, k)
    PROVE  Accounts(Run!AddRow(rep, s[k + 1].source, s[k + 1].row), s, k + 1)
<1> DEFINE pass == s[k + 1]
           next == Run!AddRow(rep, pass.source, pass.row)
           rows == rep.rows
           n == Len(rows)
<1>1. /\ rep \in RunReport
      /\ rep.failed <=> \E i \in 1..k : Run!errored(s[i].row)
      /\ (\A i, j \in 1..k : s[i].source = s[j].source => i = j) =>
            n = k /\ \A i \in 1..k : rows[i] = s[i]
  BY DEF Accounts
<1>9. \A i, j \in 1..n : rows[i].source = rows[j].source => i = j
  BY DEF Accounts
<1>10. \A a \in 1..n : \E i \in 1..k : rows[a] = s[i] /\ LastPass(s, k, i)
  BY DEF Accounts
<1>11. \A i \in 1..k : \E a \in 1..n : rows[a].source = s[i].source
  BY DEF Accounts
<1>2. /\ \A i \in 1..(k + 1) : i \in 1..k \/ i = k + 1
      /\ \A i \in 1..k : i \in 1..(k + 1) /\ i # k + 1 /\ i <= k + 1
      /\ k + 1 \in 1..(k + 1)
  OBVIOUS
<1>12. pass \in Passes /\ rows \in Seq(Passes) /\ n \in Nat
  <2>1. rows \in Seq(Passes)
    BY <1>1 DEF RunReport
  <2>2. pass \in Passes
    OBVIOUS
  <2> QED BY <2>1, <2>2
<1>13. Added(rep, next, pass)
  <2> HIDE DEF pass
  <2> QED BY <1>1, <1>12, RowAdded
<1>3. /\ next \in RunReport
      /\ next.failed <=> rep.failed \/ Run!errored(pass.row)
      /\ \/ /\ \A i \in 1..n : rows[i].source # pass.source
            /\ next.rows = Append(rows, pass)
         \/ \E p \in 1..n : rows[p].source = pass.source /\ next.rows = [rows EXCEPT ![p] = pass]
  <2> HIDE DEF next, pass
  <2> QED BY <1>13 DEF Added
<1> HIDE DEF next, rows, pass
<1>4. next.failed <=> \E i \in 1..(k + 1) : Run!errored(s[i].row)
  BY <1>1, <1>2, <1>3 DEF pass
<1>5. LastPass(s, k + 1, k + 1)
  BY <1>2 DEF LastPass
<1>6. ASSUME NEW i \in 1..k, LastPass(s, k, i), s[i].source # pass.source PROVE LastPass(s, k + 1, i)
  BY <1>2, <1>6 DEF LastPass, pass
<1>7. CASE /\ \A i \in 1..n : rows[i].source # pass.source
           /\ next.rows = Append(rows, pass)
  <2> DEFINE all == Append(rows, pass)
  <2>1. /\ Len(all) = n + 1 /\ \A i \in 1..n : all[i] = rows[i]
        /\ all[n + 1] = pass /\ n + 1 \in 1..Len(all) /\ \A i \in 1..n : i \in 1..Len(all)
        /\ \A i \in 1..Len(all) : i \in 1..n \/ i = n + 1
    BY <1>12, OneMore
  <2> HIDE DEF all, n
  <2>2. ASSUME NEW i \in 1..Len(all), NEW j \in 1..Len(all), all[i].source = all[j].source PROVE i = j
    <3>1. CASE i \in 1..n /\ j \in 1..n
      <4>1. all[i] = rows[i] /\ all[j] = rows[j]
        BY <2>1, <3>1
      <4> QED BY <1>9, <2>2, <3>1, <4>1
    <3>2. CASE i \in 1..n /\ j = n + 1
      BY <1>7, <2>1, <2>2, <3>2
    <3>3. CASE j \in 1..n /\ i = n + 1
      BY <1>7, <2>1, <2>2, <3>3
    <3> QED BY <2>1, <3>1, <3>2, <3>3
  <2>3. ASSUME NEW a \in 1..Len(all) PROVE \E i \in 1..(k + 1) : all[a] = s[i] /\ LastPass(s, k + 1, i)
    <3>1. CASE a = n + 1
      BY <1>2, <1>5, <2>1, <3>1 DEF pass
    <3>2. CASE a \in 1..n
      <4>1. PICK i \in 1..k : rows[a] = s[i] /\ LastPass(s, k, i)
        BY <1>10, <3>2
      <4> QED BY <1>2, <1>6, <1>7, <2>1, <3>2, <4>1
    <3> QED BY <2>1, <3>1, <3>2
  <2>4. ASSUME NEW i \in 1..(k + 1) PROVE \E a \in 1..Len(all) : all[a].source = s[i].source
    <3>1. CASE i = k + 1
      BY <2>1, <3>1 DEF pass
    <3>2. CASE i \in 1..k
      <4>1. PICK a \in 1..n : rows[a].source = s[i].source
        BY <1>11, <3>2
      <4>2. a \in 1..Len(all) /\ all[a] = rows[a]
        BY <2>1
      <4> QED BY <4>1, <4>2
    <3> QED BY <1>2, <3>1, <3>2
  <2>5. ASSUME \A i, j \in 1..(k + 1) : s[i].source = s[j].source => i = j
        PROVE  Len(all) = k + 1 /\ \A i \in 1..(k + 1) : all[i] = s[i]
    <3>1. \A i, j \in 1..k : s[i].source = s[j].source => i = j
      BY <1>2, <2>5
    <3>2. n = k /\ \A i \in 1..k : rows[i] = s[i]
      BY <1>1, <3>1
    <3> QED BY <1>2, <2>1, <3>2 DEF pass
  <2>6. next.rows = all
    BY <1>7 DEF all
  <2>7. Accounts(next, s, k + 1)
    BY <1>3, <1>4, <2>2, <2>3, <2>4, <2>5, <2>6 DEF Accounts
  <2> QED BY <2>7 DEF next, pass
<1>8. CASE \E p \in 1..n : rows[p].source = pass.source /\ next.rows = [rows EXCEPT ![p] = pass]
  <2>1. PICK p \in 1..n : rows[p].source = pass.source /\ next.rows = [rows EXCEPT ![p] = pass]
    BY <1>8
  <2> DEFINE all == [rows EXCEPT ![p] = pass]
  <2>2. Len(all) = n /\ \A i \in 1..n : all[i] = IF i = p THEN pass ELSE rows[i]
    <3> DEFINE N == Passes
    <3>1. rows \in Seq(N)
      BY <1>12
    <3> HIDE DEF N
    <3> QED BY <3>1
  <2> HIDE DEF all, n
  <2>3. \A i \in 1..n : all[i].source = rows[i].source
    BY <2>1, <2>2
  <2>4. \A i, j \in 1..n : all[i].source = all[j].source => i = j
    BY <1>9, <2>3
  <2>5. ASSUME NEW a \in 1..n PROVE \E i \in 1..(k + 1) : all[a] = s[i] /\ LastPass(s, k + 1, i)
    <3>1. CASE a = p
      BY <1>2, <1>5, <2>2, <3>1 DEF pass
    <3>2. CASE a # p
      <4>1. PICK i \in 1..k : rows[a] = s[i] /\ LastPass(s, k, i)
        BY <1>10
      <4>2. s[i].source # pass.source
        <5>1. rows[a].source # rows[p].source
          BY <1>9, <3>2
        <5> QED BY <2>1, <4>1, <5>1
      <4> QED BY <1>2, <1>6, <2>2, <3>2, <4>1, <4>2
    <3> QED BY <3>1, <3>2
  <2>6. ASSUME NEW i \in 1..(k + 1) PROVE \E a \in 1..n : all[a].source = s[i].source
    <3>1. CASE i = k + 1
      BY <2>1, <2>3, <3>1 DEF pass
    <3>2. CASE i \in 1..k
      BY <1>11, <2>3, <3>2
    <3> QED BY <1>2, <3>1, <3>2
  <2>7. ~ \A i, j \in 1..(k + 1) : s[i].source = s[j].source => i = j
    <3>1. PICK i \in 1..k : rows[p] = s[i]
      BY <1>10
    <3>2. s[i].source = s[k + 1].source /\ i # k + 1 /\ i \in 1..(k + 1) /\ k + 1 \in 1..(k + 1)
      BY <1>2, <2>1, <3>1 DEF pass
    <3> QED BY <3>2
  <2>8. next.rows = all
    BY <2>1 DEF all
  <2>9. Accounts(next, s, k + 1)
    <3>1. Len(all) = n
      BY <2>2
    <3>2. \A i, j \in 1..Len(next.rows) : next.rows[i].source = next.rows[j].source => i = j
      BY <2>4, <2>8, <3>1
    <3>3. \A a \in 1..Len(next.rows) : \E i \in 1..(k + 1) : next.rows[a] = s[i] /\ LastPass(s, k + 1, i)
      BY <2>5, <2>8, <3>1
    <3>4. \A i \in 1..(k + 1) : \E a \in 1..Len(next.rows) : next.rows[a].source = s[i].source
      BY <2>6, <2>8, <3>1
    <3> QED BY <1>3, <1>4, <2>7, <3>2, <3>3, <3>4 DEF Accounts
  <2> QED BY <2>9 DEF next, pass
<1> QED BY <1>3, <1>7, <1>8

\* The report of all of them.
LEMMA AccountsOfAll ==
    ASSUME NEW s \in Seq(Passes)
    PROVE  Accounts(Report(s), s, Len(s))
<1> DEFINE n == Len(s)
<1>1. PICK g : /\ g[0] = Run!NewReport /\ Report(s) = g[n]
               /\ \A k \in 1..n : g[k] = Run!AddRow(g[k - 1], s[k].source, s[k].row)
  BY ReportRuns
<1> DEFINE B == {k \in Nat : k <= n => Accounts(g[k], s, k)}
<1>2. n \in Nat
  OBVIOUS
<1>3. 0 \in B
  <2> DEFINE no == Run!NewReport
  <2>1. no \in RunReport /\ no.rows = <<>> /\ ~no.failed
    BY DEF Run!NewReport, RunReport
  <2> HIDE DEF no
  <2>2. Len(no.rows) = 0
    BY <2>1
  <2>3. Accounts(no, s, 0)
    BY <2>1, <2>2 DEF Accounts
  <2> QED BY <1>1, <2>3 DEF no
<1>4. ASSUME NEW k \in Nat, k \in B PROVE k + 1 \in B
  <2> SUFFICES ASSUME k + 1 <= n PROVE Accounts(g[k + 1], s, k + 1)
    OBVIOUS
  <2>1. k <= n /\ k + 1 \in 1..n /\ (k + 1) - 1 = k
    BY <1>2
  <2>2. Accounts(g[k], s, k) /\ g[k + 1] = Run!AddRow(g[k], s[k + 1].source, s[k + 1].row)
    BY <1>1, <1>4, <2>1
  <2> QED BY <2>1, <2>2, AccountsGrow
<1>5. n \in B
  <2> HIDE DEF B
  <2> QED BY <1>2, <1>3, <1>4, NatByStep
<1> HIDE DEF n
<1>6. Accounts(g[n], s, n)
  BY <1>2, <1>5
<1> QED BY <1>1, <1>6 DEF n

\* As many as there are of an injective sequence.
LEMMA DistinctCount ==
    ASSUME NEW S, NEW s \in Seq(S), \A i, j \in 1..Len(s) : s[i] = s[j] => i = j
    PROVE  Cardinality(ToSet(s)) = Len(s)
<1> DEFINE T == ToSet(s)
           n == Len(s)
<1>1. n \in Nat /\ DOMAIN s = 1..n /\ s \in [1..n -> T] /\ \A x \in T : \E i \in 1..n : s[i] = x
  BY DEF ToSet
<1>2. s \in Bijection(1..n, T)
  <2>1. \A i, j \in 1..n : s[i] = s[j] => i = j
    OBVIOUS
  <2> HIDE DEF n, T
  <2> QED BY <1>1, <2>1 DEF Bijection, Injection, Surjection, IsInjective
<1>3. ExistsBijection(1..n, T)
  BY <1>2 DEF ExistsBijection
<1> HIDE DEF T, n
<1>4. Cardinality(T) = n
  BY <1>1, <1>3, FS_CountingElements
<1> QED BY <1>4 DEF T, n

\* What the report's total is of.
LEMMA TotalsAdd ==
    ASSUME NEW s \in Seq(Passes), NEW c \in Run!Counts
    PROVE  Report(s).total[c] = Counted(s, c)
<1> DEFINE n == Len(s)
           f == [i \in 1..n |-> s[i].row[c]]
<1>1. n \in Nat /\ DOMAIN s = 1..n
  OBVIOUS
<1>2. f \in [1..n -> Int]
  <2>1. ASSUME NEW i \in 1..n PROVE s[i].row[c] \in Int
    <3>1. s[i] \in Passes
      OBVIOUS
    <3>2. s[i].row \in Row
      BY <3>1 DEF Passes
    <3> QED BY <3>2, CountsAreNumbers
  <2> QED BY <2>1
<1>3. Counted(s, c) = SumOver(f, 1..n)
  <2> DEFINE Is(h) == h = [r \in SUBSET (1..n) |->
                 IF r = {} THEN 0 ELSE s[CHOOSE x \in r : TRUE].row[c] + h[r \ {CHOOSE x \in r : TRUE}]]
             Of(h) == h = [r \in SUBSET (1..n) |->
                 IF r = {} THEN 0 ELSE f[CHOOSE x \in r : TRUE] + h[r \ {CHOOSE x \in r : TRUE}]]
  <2>1. \A r \in SUBSET (1..n) : r # {} => f[CHOOSE x \in r : TRUE] = s[CHOOSE x \in r : TRUE].row[c]
    OBVIOUS
  <2> HIDE DEF f
  <2>2. ASSUME NEW h PROVE Is(h) <=> Of(h)
    <3> DEFINE D == 1..n
               one(r) == IF r = {} THEN 0 ELSE s[CHOOSE x \in r : TRUE].row[c] + h[r \ {CHOOSE x \in r : TRUE}]
               other(r) == IF r = {} THEN 0 ELSE f[CHOOSE x \in r : TRUE] + h[r \ {CHOOSE x \in r : TRUE}]
    <3>1. \A r \in SUBSET D : one(r) = other(r)
      BY <2>1
    <3>2. (Is(h) <=> h = [r \in SUBSET D |-> one(r)]) /\ (Of(h) <=> h = [r \in SUBSET D |-> other(r)])
      OBVIOUS
    <3> HIDE DEF one, other, D, Is, Of
    <3>3. [r \in SUBSET D |-> one(r)] = [r \in SUBSET D |-> other(r)]
      BY <3>1
    <3> QED BY <3>2, <3>3
  <2>3. (CHOOSE h : Is(h)) = (CHOOSE h : Of(h))
    <3> HIDE DEF Is, Of
    <3> QED BY <2>2
  <2> QED BY <1>1, <2>3 DEF Counted, SumOver, MapThenSumSet, MapThenFoldSet
<1>0. PICK t : RunningSum(t, f, n)
  <2> HIDE DEF f, n
  <2> QED BY <1>1, <1>2, SumRuns
<1>4. /\ t[0] = 0 /\ SumOver(f, 1..n) = t[n]
      /\ \A k \in 1..n : t[k] = t[k - 1] + f[k]
  BY <1>0 DEF RunningSum
<1>5. PICK g : /\ g[0] = Run!NewReport /\ Report(s) = g[n]
               /\ \A k \in 1..n : g[k] = Run!AddRow(g[k - 1], s[k].source, s[k].row)
  BY ReportRuns
<1> DEFINE B == {k \in Nat : k <= n => g[k] \in RunReport /\ g[k].total[c] = t[k]}
<1>6. 0 \in B
  <2>1. Run!NewReport \in RunReport /\ Run!NewReport.total[c] = 0
    BY DEF Run!NewReport, RunReport
  <2> QED BY <1>4, <1>5, <2>1
<1>7. ASSUME NEW k \in Nat, k \in B PROVE k + 1 \in B
  <2> SUFFICES ASSUME k + 1 <= n PROVE g[k + 1] \in RunReport /\ g[k + 1].total[c] = t[k + 1]
    OBVIOUS
  <2>1. k <= n /\ k + 1 \in 1..n /\ (k + 1) - 1 = k /\ s[k + 1] \in Passes
    BY <1>1
  <2>2. g[k] \in RunReport /\ g[k].total[c] = t[k]
    BY <1>7, <2>1
  <2>3. g[k + 1] = Run!AddRow(g[k], s[k + 1].source, s[k + 1].row)
    BY <1>5, <2>1
  <2> DEFINE next == g[k + 1]
             rep == g[k]
             pass == s[k + 1]
  <2>4. Added(rep, next, pass)
    BY <2>1, <2>2, <2>3, RowAdded
  <2> HIDE DEF next, rep, pass
  <2>5. next \in RunReport /\ next.total[c] = rep.total[c] + pass.row[c]
    BY <2>4 DEF Added
  <2>6. t[k + 1] = t[k] + s[k + 1].row[c]
    BY <1>4, <2>1
  <2> QED BY <2>2, <2>5, <2>6 DEF next, rep, pass
<1> HIDE DEF n, f
<1>8. n \in B
  <2> HIDE DEF B
  <2> QED BY <1>1, <1>6, <1>7, NatByStep
<1>9. g[n].total[c] = t[n]
  BY <1>1, <1>8
<1> QED BY <1>3, <1>4, <1>5, <1>9

\* Of any passes.
LEMMA ReportsAccount ==
    ASSUME kind = "report" => input \in Seq(Passes)
    PROVE  ReportAccounts
<1> SUFFICES ASSUME kind = "report", input \in Seq(Passes)
             PROVE  ReportAccounts
  BY DEF ReportAccounts
<1> DEFINE report == Report(input)
           rows == report.rows
           sources == [i \in DOMAIN input |-> input[i].source]
           n == Len(input)
           of(x) == {i \in DOMAIN input : input[i].source = x}
<1>1. n \in Nat /\ DOMAIN input = 1..n /\ Accounts(report, input, n)
  BY AccountsOfAll
<1>2. \A c \in Run!Counts : report.total[c] = Counted(input, c)
  BY TotalsAdd
<1> HIDE DEF report
<1>3. /\ report \in RunReport
      /\ report.failed <=> \E i \in 1..n : Run!errored(input[i].row)
      /\ (\A i, j \in 1..n : input[i].source = input[j].source => i = j) =>
            Len(rows) = n /\ \A i \in 1..n : rows[i] = input[i]
  BY <1>1 DEF Accounts
<1>4. \A i, j \in 1..Len(rows) : rows[i].source = rows[j].source => i = j
  BY <1>1 DEF Accounts
<1>5. \A a \in 1..Len(rows) : \E i \in 1..n : rows[a] = input[i] /\ LastPass(input, n, i)
  BY <1>1 DEF Accounts
<1>6. \A i \in 1..n : \E a \in 1..Len(rows) : rows[a].source = input[i].source
  BY <1>1 DEF Accounts
<1>7. rows \in Seq(Passes) /\ Len(rows) \in Nat /\ DOMAIN rows = 1..Len(rows)
  <2>1. rows \in Seq(Passes)
    BY <1>3 DEF RunReport
  <2> HIDE DEF rows
  <2> QED BY <2>1
<1>8. ASSUME NEW r \in ToSet(rows) PROVE r.row = input[Max(of(r.source))].row
  <2>1. PICK a \in 1..Len(rows) : r = rows[a]
    BY <1>7 DEF ToSet
  <2>2. PICK i \in 1..n : rows[a] = input[i] /\ LastPass(input, n, i)
    BY <1>5
  <2>3. of(r.source) \in SUBSET (1..n) /\ i \in of(r.source)
    BY <1>1, <2>1, <2>2
  <2> DEFINE m == Max(of(r.source))
  <2>4. m \in of(r.source) /\ i <= m
    <3> HIDE DEF of
    <3> QED BY <1>1, <2>3, GreatestOfPart
  <2> HIDE DEF m
  <2>5. m \in 1..n /\ input[m].source = input[i].source
    BY <1>1, <2>1, <2>2, <2>4
  <2>6. m <= i
    BY <2>2, <2>5 DEF LastPass
  <2>7. m = i
    BY <1>1, <2>4, <2>5, <2>6
  <2> QED BY <2>1, <2>2, <2>7 DEF m
<1>9. {r.source : r \in ToSet(rows)} = ToSet(sources)
  <2>1. DOMAIN sources = 1..n /\ \A i \in 1..n : sources[i] = input[i].source
    BY <1>1
  <2> HIDE DEF sources, rows
  <2>2. ASSUME NEW r \in ToSet(rows) PROVE r.source \in ToSet(sources)
    <3>1. PICK a \in 1..Len(rows) : r = rows[a]
      BY <1>7 DEF ToSet
    <3>2. PICK i \in 1..n : rows[a] = input[i]
      BY <1>5
    <3> QED BY <2>1, <3>1, <3>2 DEF ToSet
  <2>3. ASSUME NEW x \in ToSet(sources) PROVE \E r \in ToSet(rows) : x = r.source
    <3>1. PICK i \in 1..n : x = input[i].source
      BY <2>1 DEF ToSet
    <3>2. PICK a \in 1..Len(rows) : rows[a].source = input[i].source
      BY <1>6
    <3> QED BY <1>7, <3>1, <3>2 DEF ToSet
  <2> QED BY <2>2, <2>3
<1>10. Len(rows) = Cardinality(ToSet(sources))
  <2> DEFINE names == [a \in 1..Len(rows) |-> rows[a].source]
             S == {rows[a].source : a \in 1..Len(rows)}
  <2>1. names \in Seq(S) /\ Len(names) = Len(rows) /\ DOMAIN names = 1..Len(rows)
    BY <1>7
  <2>2. \A i, j \in 1..Len(names) : names[i] = names[j] => i = j
    BY <1>4, <2>1
  <2>3. ToSet(names) = {r.source : r \in ToSet(rows)}
    <3> HIDE DEF rows
    <3>1. ToSet(names) = {rows[a].source : a \in 1..Len(rows)}
      BY DEF ToSet
    <3> QED BY <1>7, <3>1 DEF ToSet
  <2> HIDE DEF names, S
  <2>4. Cardinality(ToSet(names)) = Len(names)
    BY <2>1, <2>2, DistinctCount
  <2> QED BY <1>9, <2>1, <2>3, <2>4
<1>11. ASSUME IsInjective(sources) PROVE rows = input
  <2>1. \A i, j \in 1..n : input[i].source = input[j].source => i = j
    BY <1>1, <1>11 DEF IsInjective
  <2>2. Len(rows) = n /\ \A i \in 1..n : rows[i] = input[i]
    BY <1>3, <2>1
  <2> HIDE DEF rows
  <2> QED BY <1>7, <2>2, SeqEqual
<1>12. report.failed <=> \E i \in DOMAIN input : Run!errored(input[i].row)
  BY <1>1, <1>3
<1> HIDE DEF of, sources
<1> QED BY <1>2, <1>8, <1>9, <1>10, <1>11, <1>12 DEF ReportAccounts, report, of, sources

-------------------------------------------------------------------------------

\* A sequence of one kind of items is one of a larger kind.
LEMMA LargerKind ==
    ASSUME NEW A, NEW Z, A \in SUBSET Z, NEW s \in Seq(A)
    PROVE  s \in Seq(Z)
OBVIOUS

\* For every transcript, list of sizes and passes over the sources: every file
\* that is attached is kept, batches hold every item once and in order and close
\* only if they must, and a report fails if a pass did and adds up (scan and cli,
\* with internal/transcript's caps).
THEOREM RunsAreAccountedFor == GrowSpec => []RunsAccountForEverything
<1>1. ASSUME InputOK PROVE RunsAccountForEverything
  <2>1. kind = "mentions" => input \in Seq(Mentions)
    BY <1>1 DEF InputOK, Mentions
  <2>2. kind = "sizes" => input \in Sizes
    <3> DEFINE A == Alphabet["sizes"]
               Z == Nat
    <3>1. A \in SUBSET Z
      BY Pushes
    <3>2. kind = "sizes" => input \in Seq(A)
      BY <1>1 DEF InputOK
    <3> HIDE DEF A, Z
    <3>3. kind = "sizes" => input \in Seq(Z)
      BY <3>1, <3>2, LargerKind
    <3> QED BY <3>3 DEF Z, Sizes
  <2>3. kind = "report" => input \in Seq(Passes)
    <3> DEFINE A == Alphabet["report"]
               Z == Passes
    <3>1. A \in SUBSET Z
      BY Pushes DEF Passes, Row
    <3>2. kind = "report" => input \in Seq(A)
      BY <1>1 DEF InputOK
    <3> HIDE DEF A, Z
    <3>3. kind = "report" => input \in Seq(Z)
      BY <3>1, <3>2, LargerKind
    <3> QED BY <3>3 DEF Z
  <2> QED BY <2>1, <2>2, <2>3, AttachmentsAreKept, BatchesAreInOrder, ReportsAccount DEF RunsAccountForEverything
<1> QED BY <1>1, InputsAreOfAKind, PTL

-------------------------------------------------------------------------------
(* The start of a connection. *)

\* A message of the server, and a connection that is started.
Message == {m \in [type : STRING, code : Nat, ok : BOOLEAN] : m.type # "R" => m.code = 0}
Told == {"startup", "password", "md5", "nonce", "proof"}
Starting == [at : {"starting", "continue", "final", "ready", "failed"}, sent : Seq(Told), read : Nat]

\* A step of SCRAM; a request for the password; and a message that ends all.
Step(m, code) == m.type = "R" /\ m.code = code /\ m.ok
Asks(m) == m.type = "R" /\ m.code = 3

\* The connection c takes message m and is d.
Takes(c, m, d) ==
    /\ d \in Starting
    /\ c.at \in {"ready", "failed"} => d = c
    /\ c.at \notin {"ready", "failed"} => d.read = c.read + 1
    /\ c.at = "starting" =>
          /\ Plain(m) => d.at = "starting"
          /\ Step(m, 10) => d.at = "continue"
          /\ m.type = "Z" => d.at = "ready"
          /\ ~Plain(m) /\ ~Step(m, 10) /\ m.type # "Z" => d.at = "failed"
    /\ c.at = "continue" => d.at = IF Step(m, 11) THEN "final" ELSE "failed"
    /\ c.at = "final" => d.at = IF Step(m, 12) THEN "starting" ELSE "failed"
    /\ \/ d.sent = c.sent /\ ~(c.at = "starting" /\ Asks(m))
       \/ d.sent = Append(c.sent, "password") /\ c.at = "starting" /\ Asks(m)
       \/ d.sent = Append(c.sent, "proof") /\ c.at = "continue" /\ Step(m, 11)
       \/ \E x \in {"md5", "nonce"} : d.sent = Append(c.sent, x) /\ c.at = "starting" /\ ~Asks(m)

\* One message more.
LEMMA MessageTaken ==
    ASSUME NEW c \in Starting, NEW m \in Message
    PROVE  Takes(c, m, Database!Next(c, m))
<1> DEFINE b == [c EXCEPT !.read = @ + 1]
           d == Database!Next(c, m)
<1> SUFFICES Takes(c, m, d)
  OBVIOUS
<1>1. b \in Starting /\ b.at = c.at /\ b.sent = c.sent /\ b.read = c.read + 1
  BY DEF Starting
<1>0. /\ \A at \in {"starting", "continue", "final", "ready", "failed"} :
           LET e == [b EXCEPT !.at = at]
           IN  e \in Starting /\ e.at = at /\ e.sent = c.sent /\ e.read = c.read + 1
      /\ \A x \in {"proof", "password", "md5", "nonce"}, at \in {"starting", "continue", "final", "ready", "failed"} :
           LET e == [b EXCEPT !.sent = Append(@, x), !.at = at]
           IN  e \in Starting /\ e.at = at /\ e.sent = Append(c.sent, x) /\ e.read = c.read + 1
  <2> HIDE DEF b
  <2>1. c.sent \in Seq(Told) /\ b.sent = c.sent
    BY <1>1 DEF Starting
  <2>2. \A x \in Told : Append(c.sent, x) \in Seq(Told)
    BY <2>1
  <2>3. \A x \in {"proof", "password", "md5", "nonce"} : Append(c.sent, x) \in Seq(Told)
    BY <2>2 DEF Told
  <2>5. ASSUME NEW at \in {"starting", "continue", "final", "ready", "failed"}
        PROVE  LET e == [b EXCEPT !.at = at]
               IN  e \in Starting /\ e.at = at /\ e.sent = c.sent /\ e.read = c.read + 1
    BY <1>1 DEF Starting
  <2>6. ASSUME NEW x \in {"proof", "password", "md5", "nonce"},
               NEW at \in {"starting", "continue", "final", "ready", "failed"}
        PROVE  LET e == [b EXCEPT !.sent = Append(@, x), !.at = at]
               IN  e \in Starting /\ e.at = at /\ e.sent = Append(c.sent, x) /\ e.read = c.read + 1
    <3>1. Append(c.sent, x) \in Seq(Told) /\ Append(b.sent, x) = Append(c.sent, x)
      BY <2>1, <2>3
    <3> QED BY <1>1, <3>1 DEF Starting
  <2> QED BY <2>5, <2>6, ZenonT(30)
<1>2. CASE c.at \in {"ready", "failed"}
  <2>1. d = c
    BY <1>2 DEF Database!Next
  <2> QED BY <1>2, <2>1 DEF Takes
<1>3. CASE c.at \notin {"ready", "failed"}
  <2>1. d = Database!Receive(b, m)
    BY <1>3 DEF Database!Next
  <2> HIDE DEF b, d
  <2>2. CASE c.at = "continue"
    <3>1. d = Database!AwaitContinue(b, m)
      BY <1>1, <2>1, <2>2 DEF Database!Receive
    <3>2. CASE Step(m, 11)
      <4>1. d = [b EXCEPT !.sent = Append(@, "proof"), !.at = "final"]
        BY <3>1, <3>2 DEF Database!AwaitContinue, Database!parseSCRAMServerFirst, Database!Sends, Step
      <4>2. d \in Starting /\ d.at = "final" /\ d.sent = Append(c.sent, "proof") /\ d.read = c.read + 1
        BY <1>0, <4>1, SMTT(30)
      <4> QED BY <1>3, <2>2, <3>2, <4>2 DEF Takes
    <3>3. CASE ~Step(m, 11)
      <4>1. d = [b EXCEPT !.at = "failed"]
        BY <3>1, <3>3 DEF Database!AwaitContinue, Database!parseSCRAMServerFirst, Database!Failed, Step
      <4>2. d \in Starting /\ d.at = "failed" /\ d.sent = c.sent /\ d.read = c.read + 1
        BY <1>0, <4>1, SMTT(30)
      <4> QED BY <1>3, <2>2, <3>3, <4>2 DEF Takes
    <3> QED BY <3>2, <3>3
  <2>3. CASE c.at = "final"
    <3>1. d = Database!AwaitFinal(b, m)
      BY <1>1, <2>1, <2>3 DEF Database!Receive
    <3>2. CASE Step(m, 12)
      <4>1. d = [b EXCEPT !.at = "starting"]
        BY <3>1, <3>2 DEF Database!AwaitFinal, Step
      <4>2. d \in Starting /\ d.at = "starting" /\ d.sent = c.sent /\ d.read = c.read + 1
        BY <1>0, <4>1, SMTT(30)
      <4> QED BY <1>3, <2>3, <3>2, <4>2 DEF Takes
    <3>3. CASE ~Step(m, 12)
      <4>1. d = [b EXCEPT !.at = "failed"]
        BY <3>1, <3>3 DEF Database!AwaitFinal, Database!Failed, Step
      <4>2. d \in Starting /\ d.at = "failed" /\ d.sent = c.sent /\ d.read = c.read + 1
        BY <1>0, <4>1
      <4> QED BY <1>3, <2>3, <3>3, <4>2 DEF Takes
    <3> QED BY <3>2, <3>3
  <2>4. CASE c.at \notin {"continue", "final"}
    <3>0. c.at = "starting"
      BY <1>3, <2>4 DEF Starting
    <3>1. d = CASE m.type = "R" -> Database!handleAuth(b, m)
                [] m.type \in {"S", "K", "N"} -> b
                [] m.type = "Z" -> [b EXCEPT !.at = "ready"]
                [] OTHER -> Database!Failed(b)
      BY <1>1, <2>1, <2>4 DEF Database!Receive
    <3>2. CASE m.type # "R"
      <4>1. m.code = 0
        BY <3>2 DEF Message
      <4>2. \/ d = b /\ m.type \in {"S", "K", "N"}
            \/ d = [b EXCEPT !.at = "ready"] /\ m.type = "Z"
            \/ d = [b EXCEPT !.at = "failed"] /\ m.type \notin {"S", "K", "N", "Z"}
        BY <3>1, <3>2 DEF Database!Failed
      <4>3. d \in Starting /\ d.sent = c.sent /\ d.read = c.read + 1
        BY <1>1, <4>2 DEF Starting
      <4>4. /\ m.type \in {"S", "K", "N"} => d.at = "starting"
            /\ m.type = "Z" => d.at = "ready"
            /\ m.type \notin {"S", "K", "N", "Z"} => d.at = "failed"
        BY <1>1, <3>0, <4>2 DEF Starting
      <4>5. ~Step(m, 10) /\ ~Asks(m) /\ (Plain(m) <=> m.type \in {"S", "K", "N"})
        BY <3>2, <4>1 DEF Step, Asks, Plain
      <4> QED BY <3>0, <3>2, <4>3, <4>4, <4>5 DEF Takes
    <3>3. CASE m.type = "R"
      <4>1. d = Database!handleAuth(b, m)
        BY <3>1, <3>3
      <4>2. CASE m.code = 0
        <5>1. d = b
          BY <4>1, <4>2 DEF Database!handleAuth
        <5>2. ~Step(m, 10) /\ ~Asks(m) /\ Plain(m)
          BY <3>3, <4>2 DEF Step, Asks, Plain
        <5> QED BY <1>1, <3>0, <3>3, <5>1, <5>2 DEF Takes
      <4>3. CASE m.code = 3
        <5>1. d = [b EXCEPT !.sent = Append(@, "password"), !.at = "starting"]
          BY <4>1, <4>3 DEF Database!handleAuth, Database!Sends
        <5>2. d \in Starting /\ d.at = "starting" /\ d.sent = Append(c.sent, "password") /\ d.read = c.read + 1
          BY <1>0, <5>1, SMTT(30)
        <5>3. ~Step(m, 10) /\ Asks(m) /\ Plain(m)
          BY <3>3, <4>3 DEF Step, Asks, Plain
        <5> QED BY <3>0, <3>3, <5>2, <5>3 DEF Takes
      <4>4. CASE m.code = 5 /\ m.ok
        <5>1. d = [b EXCEPT !.sent = Append(@, "md5"), !.at = "starting"]
          BY <4>1, <4>4 DEF Database!handleAuth, Database!Sends
        <5>2. d \in Starting /\ d.at = "starting" /\ d.sent = Append(c.sent, "md5") /\ d.read = c.read + 1
          BY <1>0, <5>1, SMTT(30)
        <5>3. ~Step(m, 10) /\ ~Asks(m) /\ Plain(m)
          BY <3>3, <4>4 DEF Step, Asks, Plain
        <5> QED BY <3>0, <3>3, <5>2, <5>3 DEF Takes
      <4>5. CASE m.code = 10 /\ m.ok
        <5>1. d = [b EXCEPT !.sent = Append(@, "nonce"), !.at = "continue"]
          BY <4>1, <4>5 DEF Database!handleAuth, Database!Sends
        <5>2. d \in Starting /\ d.at = "continue" /\ d.sent = Append(c.sent, "nonce") /\ d.read = c.read + 1
          BY <1>0, <5>1, SMTT(30)
        <5>3. Step(m, 10) /\ ~Asks(m) /\ ~Plain(m)
          BY <3>3, <4>5 DEF Step, Asks, Plain
        <5> QED BY <3>0, <3>3, <5>2, <5>3 DEF Takes
      <4>6. CASE m.code \notin {0, 3} /\ ~(m.code = 5 /\ m.ok) /\ ~(m.code = 10 /\ m.ok)
        <5>1. d = [b EXCEPT !.at = "failed"]
          BY <4>1, <4>6 DEF Database!handleAuth, Database!Failed
        <5>2. d \in Starting /\ d.at = "failed" /\ d.sent = c.sent /\ d.read = c.read + 1
          BY <1>0, <5>1
        <5>3. ~Step(m, 10) /\ ~Asks(m) /\ ~Plain(m)
          BY <3>3, <4>6 DEF Step, Asks, Plain
        <5> QED BY <3>0, <3>3, <5>2, <5>3 DEF Takes
      <4> QED BY <4>2, <4>3, <4>4, <4>5, <4>6
    <3> QED BY <3>2, <3>3
  <2> QED BY <2>2, <2>3, <2>4
<1> QED BY <1>2, <1>3

\* A connection that is dialed.
LEMMA DialedStarting == Database!Dialed \in Starting
<1>1. <<"startup">> \in Seq(Told)
  BY DEF Told
<1> QED BY <1>1 DEF Database!Dialed, Starting

\* The loop of startup, one message after the other.
LEMMA StartupRuns ==
    ASSUME NEW s \in Seq(Message)
    PROVE  \E g : /\ g[0] = Database!Dialed /\ Database!startup(s) = g[Len(s)]
                  /\ \A k \in 1..Len(s) : g[k] = Database!Next(g[k - 1], s[k])
<1> DEFINE X == Message
           V == Starting
           It(h) == h = [r \in SUBSET DOMAIN s |->
                            IF r = {} THEN Database!Dialed ELSE Database!Next(h[r \ {Max(r)}], s[Max(r)])]
           F == [q \in V \X X |-> Database!Next(q[1], q[2])]
           iter == CHOOSE h : It(h)
           n == Len(s)
<1>1. n \in Nat /\ DOMAIN s = 1..n /\ s \in Seq(X) /\ Database!Dialed \in V
  BY DialedStarting
<1>2. F \in [V \X X -> V]
  BY MessageTaken DEF Takes
<1>3. \E h : It(h)
  <2>1. PICK h \in [SUBSET DOMAIN s -> V] : Folds(h, s, Database!Dialed, F)
    <3> HIDE DEF F, X, V
    <3> QED BY <1>1, <1>2, FoldIteration
  <2>2. ASSUME NEW r \in SUBSET DOMAIN s, r # {}
        PROVE  F[<<h[r \ {Max(r)}], s[Max(r)]>>] = Database!Next(h[r \ {Max(r)}], s[Max(r)])
    <3> HIDE DEF X, V
    <3>1. Max(r) \in 1..n
      BY <1>1, <2>2, GreatestOfPart
    <3>2. s[Max(r)] \in X /\ h[r \ {Max(r)}] \in V
      BY <1>1, <3>1
    <3> QED BY <3>2
  <2> HIDE DEF F, X, V
  <2>3. It(h)
    BY <2>1, <2>2 DEF Folds
  <2> QED BY <2>3
<1> HIDE DEF F, X, V
<1>4. It(iter)
  BY <1>3
<1>5. Database!startup(s) = iter[DOMAIN s]
  BY DEF Database!startup, Database!FoldLeft, Database!MapThenFoldSet, Max, Database!Max
<1>6. iter[1..0] = Database!Dialed /\ \A k \in 1..n : iter[1..k] = Database!Next(iter[1..(k - 1)], s[k])
  <2> HIDE DEF iter, n
  <2>1. iter[1..0] = Database!Dialed
    BY <1>1, <1>4
  <2>2. ASSUME NEW k \in 1..n PROVE iter[1..k] = Database!Next(iter[1..(k - 1)], s[k])
    <3>1. 1..k \in SUBSET DOMAIN s /\ 1..k # {} /\ Max(1..k) = k /\ (1..k) \ {k} = 1..(k - 1)
      <4>1. k \in Nat /\ k # 0 /\ 1..k \in SUBSET (1..n)
        BY <1>1
      <4>2. 1..k # {} /\ Max(1..k) = k /\ (1..k) \ {k} = 1..(k - 1)
        BY <4>1, UpTo
      <4> QED BY <1>1, <4>1, <4>2
    <3> QED BY <1>4, <3>1
  <2> QED BY <2>1, <2>2
<1> DEFINE g == [k \in 0..n |-> iter[1..k]]
<1>7. /\ g[0] = Database!Dialed /\ Database!startup(s) = g[n]
      /\ \A k \in 1..n : g[k] = Database!Next(g[k - 1], s[k])
  <2>1. g[0] = Database!Dialed /\ g[n] = iter[1..n]
    <3> HIDE DEF iter, n
    <3> QED BY <1>1, <1>6
  <2>2. ASSUME NEW k \in 1..n PROVE g[k] = Database!Next(g[k - 1], s[k])
    <3>1. k \in 0..n /\ k - 1 \in 0..n
      BY <1>1
    <3> HIDE DEF iter, n
    <3>2. g[k] = iter[1..k] /\ g[k - 1] = iter[1..(k - 1)]
      BY <3>1
    <3> HIDE DEF g
    <3> QED BY <1>6, <3>2
  <2> HIDE DEF iter, n
  <2> QED BY <1>1, <1>5, <2>1, <2>2
<1> HIDE DEF g
<1> QED BY <1>7

\* What a connection that has been sent the first k messages has come to.
Ends(s, n) == s[n].type = "Z" /\ Orderly(s, n)
Hears(c, s, k) ==
    /\ c \in Starting /\ c.read \in 0..k
    /\ c.at \notin {"ready", "failed"} => c.read = k /\ \A n \in 1..k : ~Ends(s, n)
    /\ c.at = "starting" => Orderly(s, k + 1)
    /\ c.at = "continue" => k >= 1 /\ Orderly(s, k) /\ Step(s[k], 10)
    /\ c.at = "final" => k >= 2 /\ Orderly(s, k - 1) /\ Step(s[k - 1], 10) /\ Step(s[k], 11)
    /\ c.at = "ready" => c.read >= 1 /\ Ends(s, c.read)
    /\ c.at = "failed" => \A n \in 1..Len(s) : ~Ends(s, n)

\* A message is one thing only.
LEMMA OneThing ==
    ASSUME NEW m \in Message
    PROVE  /\ Plain(m) => m.type # "Z" /\ ~Step(m, 10) /\ ~Step(m, 11) /\ ~Step(m, 12)
           /\ \A code \in 10..12 : Step(m, code) => m.type # "Z" /\ \A other \in 10..12 : Step(m, other) => other = code
<1>1. m.type # "R" => m.code = 0
  BY DEF Message
<1> QED BY <1>1 DEF Plain, Step

\* An exchange is three steps.
LEMMA ScramIs ==
    ASSUME NEW s \in Seq(Message), NEW i \in Int
    PROVE  Scram(s, i) <=> i \in 1..(Len(s) - 2) /\ Step(s[i], 10) /\ Step(s[i + 1], 11) /\ Step(s[i + 2], 12)
<1>1. 0..2 = {0, 1, 2} /\ i + 0 = i /\ 10 + 0 = 10 /\ 10 + 1 = 11 /\ 10 + 2 = 12
  OBVIOUS
<1> QED BY <1>1 DEF Scram, Step

\* What is in order before a message, and before a later one.
LEMMA OrderlyGrows ==
    ASSUME NEW s \in Seq(Message), NEW k \in Nat, Orderly(s, k)
    PROVE  /\ Plain(s[k]) => Orderly(s, k + 1)
           /\ Scram(s, k) => Orderly(s, k + 3)
<1>1. ASSUME NEW n \in {k + 1, k + 3}, NEW i \in 1..(k - 1)
      PROVE  Plain(s[i]) \/ \E t \in (i - 2)..i : Scram(s, t) /\ t + 2 < n
  <2>1. Plain(s[i]) \/ \E t \in (i - 2)..i : Scram(s, t) /\ t + 2 < k
    BY DEF Orderly
  <2>2. \A t \in (i - 2)..i : t + 2 < k => t + 2 < n
    OBVIOUS
  <2> QED BY <2>1, <2>2
<1>2. ASSUME Plain(s[k]) PROVE Orderly(s, k + 1)
  <2> SUFFICES ASSUME NEW i \in 1..((k + 1) - 1)
               PROVE  Plain(s[i]) \/ \E t \in (i - 2)..i : Scram(s, t) /\ t + 2 < k + 1
    BY DEF Orderly
  <2>1. i \in 1..(k - 1) \/ i = k
    OBVIOUS
  <2> QED BY <1>1, <1>2, <2>1
<1>3. ASSUME Scram(s, k) PROVE Orderly(s, k + 3)
  <2> SUFFICES ASSUME NEW i \in 1..((k + 3) - 1)
               PROVE  Plain(s[i]) \/ \E t \in (i - 2)..i : Scram(s, t) /\ t + 2 < k + 3
    BY DEF Orderly
  <2>1. CASE i \in 1..(k - 1)
    BY <1>1, <2>1
  <2>2. CASE i \notin 1..(k - 1)
    <3>1. k \in (i - 2)..i /\ k + 2 < k + 3
      BY <2>2
    <3> QED BY <1>3, <3>1
  <2> QED BY <2>1, <2>2
<1> QED BY <1>2, <1>3

\* What is last in order is no step of an exchange, or the last of one.
LEMMA OrderlyEnd ==
    ASSUME NEW s \in Seq(Message), NEW k \in Nat, NEW n \in Nat, k < n, 1 <= k, Orderly(s, n)
    PROVE  \/ Plain(s[k])
           \/ k >= 2 /\ Step(s[k], 12) /\ Step(s[k - 1], 11)
           \/ k >= 2 /\ k + 1 < n /\ Step(s[k], 11) /\ Step(s[k - 1], 10) /\ Step(s[k + 1], 12)
           \/ k + 2 < n /\ Step(s[k], 10) /\ Step(s[k + 1], 11)
<1>1. CASE Plain(s[k])
  BY <1>1
<1>2. CASE ~Plain(s[k])
  <2>1. k \in 1..(n - 1)
    OBVIOUS
  <2>2. PICK t \in (k - 2)..k : Scram(s, t) /\ t + 2 < n
    BY <1>2, <2>1 DEF Orderly
  <2>3. t \in Int /\ t >= 1 /\ Step(s[t], 10) /\ Step(s[t + 1], 11) /\ Step(s[t + 2], 12)
    BY <2>2, ScramIs
  <2>4. CASE t = k
    BY <2>2, <2>3, <2>4
  <2>5. CASE t = k - 1
    <3>1. t + 1 = k /\ t + 2 = k + 1
      BY <2>5
    <3> QED BY <2>2, <2>3, <2>5, <3>1
  <2>6. CASE t = k - 2
    <3>1. t + 2 = k /\ t + 1 = k - 1
      BY <2>6
    <3> QED BY <2>3, <3>1
  <2> QED BY <2>2, <2>4, <2>5, <2>6
<1> QED BY <1>1, <1>2

\* One message more.
LEMMA HearsGrows ==
    ASSUME NEW s \in Seq(Message), NEW k \in Nat, k < Len(s), NEW c, NEW d,
           Hears(c, s, k), Takes(c, s[k + 1], d)
    PROVE  Hears(d, s, k + 1)
<1> DEFINE m == s[k + 1]
<1>0. /\ m \in Message /\ c \in Starting /\ d \in Starting /\ c.read \in 0..k /\ k + 1 \in 1..Len(s)
      /\ \A i \in 1..(k + 1) : s[i] \in Message
      /\ d.at \in {"starting", "continue", "final", "ready", "failed"}
      /\ c.at \in {"starting", "continue", "final", "ready", "failed"}
      /\ 1..(k + 1) = (1..k) \cup {k + 1} /\ 0..(k + 1) = (0..k) \cup {k + 1}
  BY DEF Hears, Takes, Starting
<1>1. CASE c.at \in {"ready", "failed"}
  <2>1. d = c
    BY <1>1 DEF Takes
  <2> QED BY <1>0, <1>1, <2>1 DEF Hears
<1>2. ASSUME c.at \notin {"ready", "failed"}
      PROVE  c.read = k /\ d.read = k + 1 /\ (\A n \in 1..k : ~Ends(s, n))
             /\ (m.type # "Z" => \A n \in 1..(k + 1) : ~Ends(s, n))
  BY <1>0, <1>2 DEF Hears, Takes, Ends
\* After a message that is not in order none is in order.
<1>3. ASSUME c.at \notin {"ready", "failed"}, d.at = "failed",
             \A n \in Nat : k + 1 < n /\ n <= Len(s) => ~Orderly(s, n),
             m.type = "Z" => ~Orderly(s, k + 1)
      PROVE  Hears(d, s, k + 1)
  <2>1. ASSUME NEW n \in 1..Len(s) PROVE ~Ends(s, n)
    <3>1. n \in 1..k \/ n = k + 1 \/ (n \in Nat /\ k + 1 < n /\ n <= Len(s))
      OBVIOUS
    <3> QED BY <1>2, <1>3, <3>1 DEF Ends
  <2> QED BY <1>0, <1>2, <1>3, <2>1 DEF Hears
<1>4. CASE c.at = "starting"
  <2>1. Orderly(s, k + 1)
    BY <1>4 DEF Hears
  <2>2. CASE Plain(m)
    <3>1. d.at = "starting" /\ m.type # "Z"
      BY <1>0, <1>4, <2>2, OneThing DEF Takes
    <3>2. Orderly(s, (k + 1) + 1)
      BY <2>1, <2>2, OrderlyGrows
    <3> QED BY <1>0, <1>2, <1>4, <3>1, <3>2 DEF Hears
  <2>3. CASE Step(m, 10)
    <3>1. d.at = "continue" /\ m.type # "Z"
      BY <1>0, <1>4, <2>3, OneThing, 10 \in 10..12 DEF Takes
    <3> QED BY <1>0, <1>2, <1>4, <2>1, <2>3, <3>1 DEF Hears
  <2>4. CASE m.type = "Z"
    <3>1. d.at = "ready" /\ d.read = k + 1
      BY <1>2, <1>4, <2>4 DEF Takes
    <3>2. Ends(s, k + 1)
      BY <2>1, <2>4 DEF Ends
    <3> QED BY <1>0, <3>1, <3>2 DEF Hears
  <2>5. CASE ~Plain(m) /\ ~Step(m, 10) /\ m.type # "Z"
    <3>1. d.at = "failed"
      BY <1>4, <2>5 DEF Takes
    <3>2. ASSUME NEW n \in Nat, k + 1 < n, n <= Len(s), Orderly(s, n) PROVE FALSE
      <4>1. k >= 1 /\ (Step(s[k], 11) \/ Step(s[k], 10))
        <5>1. k + 1 \in Nat /\ 1 <= k + 1 /\ (k + 1) - 1 = k
          OBVIOUS
        <5>2. \/ k + 1 >= 2 /\ Step(s[k + 1], 12) /\ Step(s[k], 11)
              \/ k + 1 >= 2 /\ Step(s[k + 1], 11) /\ Step(s[k], 10) /\ Step(s[(k + 1) + 1], 12)
          BY <2>5, <3>2, <5>1, OrderlyEnd
        <5> QED BY <5>2
      <4>2. Plain(s[k]) \/ Step(s[k], 12)
        <5>1. k + 1 \in Nat /\ k < k + 1 /\ ~(k + 1 < k + 1) /\ ~(k + 2 < k + 1)
          OBVIOUS
        <5> QED BY <2>1, <4>1, <5>1, OrderlyEnd
      <4>3. s[k] \in Message /\ 10 \in 10..12 /\ 11 \in 10..12 /\ 12 \in 10..12
        BY <1>0, <4>1
      <4> QED BY <4>1, <4>2, <4>3, OneThing
    <3> QED BY <1>3, <1>4, <2>5, <3>1, <3>2
  <2> QED BY <2>2, <2>3, <2>4, <2>5
<1>5. CASE c.at = "continue"
  <2>1. k >= 1 /\ Orderly(s, k) /\ Step(s[k], 10)
    BY <1>5 DEF Hears
  <2>2. s[k] \in Message /\ 10 \in 10..12 /\ 11 \in 10..12 /\ 12 \in 10..12
    BY <1>0, <2>1
  <2>3. CASE Step(m, 11)
    <3>1. d.at = "final" /\ m.type # "Z"
      BY <1>0, <1>5, <2>2, <2>3, OneThing DEF Takes
    <3>2. (k + 1) - 1 = k /\ k + 1 >= 2
      BY <2>1
    <3> QED BY <1>0, <1>2, <1>5, <2>1, <2>3, <3>1, <3>2 DEF Hears
  <2>4. CASE ~Step(m, 11)
    <3>1. d.at = "failed"
      BY <1>5, <2>4 DEF Takes
    <3>2. ASSUME NEW n \in Nat, k < n, n <= Len(s), Orderly(s, n) PROVE FALSE
      <4>1. Plain(s[k]) \/ Step(s[k], 12) \/ Step(s[k], 11) \/ Step(s[k + 1], 11)
        BY <2>1, <3>2, OrderlyEnd
      <4> QED BY <2>1, <2>2, <2>4, <4>1, OneThing
    <3> QED BY <1>0, <1>3, <1>5, <3>1, <3>2
  <2> QED BY <2>3, <2>4
<1>6. CASE c.at = "final"
  <2>1. k >= 2 /\ Orderly(s, k - 1) /\ Step(s[k - 1], 10) /\ Step(s[k], 11)
    BY <1>6 DEF Hears
  <2>2. s[k] \in Message /\ 10 \in 10..12 /\ 11 \in 10..12 /\ 12 \in 10..12
    BY <1>0, <2>1
  <2>3. CASE Step(m, 12)
    <3>1. d.at = "starting" /\ m.type # "Z"
      BY <1>0, <1>6, <2>2, <2>3, OneThing DEF Takes
    <3>2. Scram(s, k - 1)
      <4>1. k - 1 \in 1..(Len(s) - 2) /\ (k - 1) + 1 = k /\ (k - 1) + 2 = k + 1 /\ k - 1 \in Int
        BY <2>1
      <4> QED BY <2>1, <2>3, <4>1, ScramIs
    <3>3. k - 1 \in Nat /\ (k - 1) + 3 = (k + 1) + 1
      BY <2>1
    <3>4. Orderly(s, (k + 1) + 1)
      BY <2>1, <3>2, <3>3, OrderlyGrows
    <3> QED BY <1>0, <1>2, <1>6, <3>1, <3>4 DEF Hears
  <2>4. CASE ~Step(m, 12)
    <3>1. d.at = "failed"
      BY <1>6, <2>4 DEF Takes
    <3>2. ASSUME NEW n \in Nat, k < n, n <= Len(s), Orderly(s, n) PROVE FALSE
      <4>1. Plain(s[k]) \/ Step(s[k], 12) \/ Step(s[k], 10) \/ Step(s[k + 1], 12)
        BY <2>1, <3>2, OrderlyEnd
      <4> QED BY <2>1, <2>2, <2>4, <4>1, OneThing
    <3> QED BY <1>0, <1>3, <1>6, <3>1, <3>2
  <2> QED BY <2>3, <2>4
<1> QED BY <1>0, <1>1, <1>4, <1>5, <1>6

\* The passwords that were sent are those asked for, and a proof was sent in an exchange.
Passwords(c) == {i \in DOMAIN c.sent : c.sent[i] = "password"}
Requested(s, k) == {i \in 1..k : Asks(s[i])}
OnRequest(c, s) ==
    /\ Cardinality(Passwords(c)) <= Cardinality(Requested(s, c.read))
    /\ c.at # "failed" => Cardinality(Passwords(c)) = Cardinality(Requested(s, c.read))
    /\ "proof" \in ToSet(c.sent) => \E i \in 2..c.read : Step(s[i], 11) /\ Step(s[i - 1], 10)

\* One message more.
LEMMA OnRequestGrows ==
    ASSUME NEW s \in Seq(Message), NEW k \in Nat, k < Len(s), NEW c, NEW d,
           Hears(c, s, k), Takes(c, s[k + 1], d), OnRequest(c, s)
    PROVE  OnRequest(d, s)
<1> DEFINE m == s[k + 1]
<1>0. m \in Message /\ c \in Starting /\ d \in Starting /\ c.sent \in Seq(Told) /\ Len(c.sent) \in Nat /\ c.read \in Nat
  BY DEF Hears, Takes, Starting
<1>1. CASE c.at \in {"ready", "failed"}
  BY <1>1 DEF Takes
<1>2. CASE c.at \notin {"ready", "failed"}
  <2>1. c.read = k /\ d.read = k + 1
    BY <1>2 DEF Hears, Takes
  <2>2. /\ IsFiniteSet(Requested(s, k)) /\ Cardinality(Requested(s, k)) \in Nat
        /\ IsFiniteSet(Passwords(c)) /\ Cardinality(Passwords(c)) \in Nat
        /\ k + 1 \notin Requested(s, k) /\ Len(c.sent) + 1 \notin Passwords(c)
    <3>1. Requested(s, k) \subseteq 1..k /\ k + 1 \notin 1..k /\ Passwords(c) \subseteq 1..Len(c.sent)
          /\ Len(c.sent) + 1 \notin 1..Len(c.sent)
      BY <1>0 DEF Requested, Passwords
    <3>2. IsFiniteSet(1..k) /\ IsFiniteSet(1..Len(c.sent))
      <4> DEFINE l == Len(c.sent)
      <4>1. 1 \in Int /\ k \in Int /\ l \in Int
        BY <1>0
      <4> HIDE DEF l
      <4>2. IsFiniteSet(1..k)
        BY <4>1, FS_Interval
      <4>3. IsFiniteSet(1..l)
        BY <4>1, FS_Interval
      <4> QED BY <4>2, <4>3 DEF l
    <3>3. IsFiniteSet(Requested(s, k)) /\ Cardinality(Requested(s, k)) \in Nat
      BY <3>1, <3>2, FS_Subset, FS_CardinalityType
    <3>4. IsFiniteSet(Passwords(c)) /\ Cardinality(Passwords(c)) \in Nat
      BY <3>1, <3>2, FS_Subset, FS_CardinalityType
    <3>5. k + 1 \notin Requested(s, k) /\ Len(c.sent) + 1 \notin Passwords(c)
      BY <3>1
    <3> QED BY <3>3, <3>4, <3>5
  <2>3. Requested(s, k + 1) = IF Asks(m) THEN Requested(s, k) \cup {k + 1} ELSE Requested(s, k)
    <3>1. 1..(k + 1) = (1..k) \cup {k + 1}
      OBVIOUS
    <3> QED BY <3>1 DEF Requested
  <2>4. Cardinality(Requested(s, k + 1)) = Cardinality(Requested(s, k)) + IF Asks(m) THEN 1 ELSE 0
    <3>1. CASE Asks(m)
      BY <2>2, <2>3, <3>1, FS_AddElement
    <3>2. CASE ~Asks(m)
      BY <2>2, <2>3, <3>2
    <3> QED BY <3>1, <3>2
  <2>5. Cardinality(Passwords(c)) = Cardinality(Requested(s, k)) /\ ("proof" \in ToSet(c.sent) =>
            \E i \in 2..k : Step(s[i], 11) /\ Step(s[i - 1], 10))
    BY <1>2, <2>1 DEF OnRequest
  <2>6. ASSUME "proof" \in ToSet(d.sent) => "proof" \in ToSet(c.sent)
        PROVE  "proof" \in ToSet(d.sent) => \E i \in 2..d.read : Step(s[i], 11) /\ Step(s[i - 1], 10)
    <3>1. 2..k \subseteq 2..(k + 1)
      OBVIOUS
    <3> QED BY <2>1, <2>5, <2>6, <3>1
  <2>7. ASSUME NEW x \in Told, d.sent = Append(c.sent, x)
        PROVE  /\ x # "password" => Passwords(d) = Passwords(c)
               /\ x = "password" => Cardinality(Passwords(d)) = Cardinality(Passwords(c)) + 1
               /\ x # "proof" => ("proof" \in ToSet(d.sent) => "proof" \in ToSet(c.sent))
    <3>1. DOMAIN d.sent = (DOMAIN c.sent) \cup {Len(c.sent) + 1}
          /\ (\A i \in DOMAIN c.sent : d.sent[i] = c.sent[i]) /\ d.sent[Len(c.sent) + 1] = x
          /\ Len(c.sent) + 1 \notin DOMAIN c.sent
      BY <1>0, <2>7, SMTT(30)
    <3>2. x # "password" => Passwords(d) = Passwords(c)
      BY <3>1 DEF Passwords
    <3>3. x = "password" => Passwords(d) = Passwords(c) \cup {Len(c.sent) + 1}
      BY <3>1 DEF Passwords
    <3>4. x = "password" => Cardinality(Passwords(d)) = Cardinality(Passwords(c)) + 1
      BY <2>2, <3>3, FS_AddElement
    <3>5. x # "proof" => ("proof" \in ToSet(d.sent) => "proof" \in ToSet(c.sent))
      BY <3>1 DEF ToSet
    <3> QED BY <3>2, <3>4, <3>5
  <2>8. CASE d.sent = c.sent /\ ~(c.at = "starting" /\ Asks(m))
    <3>1. Passwords(d) = Passwords(c)
      BY <2>8 DEF Passwords
    <3>2. d.at # "failed" => ~Asks(m)
      <4>1. c.at \in {"starting", "continue", "final"}
        BY <1>2, <1>0 DEF Starting
      <4>2. Step(m, 11) \/ Step(m, 12) => ~Asks(m)
        BY DEF Step, Asks
      <4> QED BY <2>8, <4>1, <4>2 DEF Takes
    <3>3. "proof" \in ToSet(d.sent) => "proof" \in ToSet(c.sent)
      BY <2>8
    <3>4. "proof" \in ToSet(d.sent) => \E i \in 2..d.read : Step(s[i], 11) /\ Step(s[i - 1], 10)
      BY <2>6, <3>3
    <3> HIDE DEF m
    <3> QED BY <2>1, <2>2, <2>4, <2>5, <3>1, <3>2, <3>4 DEF OnRequest
  <2>9. CASE d.sent = Append(c.sent, "password") /\ c.at = "starting" /\ Asks(m)
    <3>1. "password" \in Told
      BY DEF Told
    <3>2. Cardinality(Passwords(d)) = Cardinality(Passwords(c)) + 1
          /\ ("proof" \in ToSet(d.sent) => "proof" \in ToSet(c.sent))
      BY <2>7, <2>9, <3>1
    <3>3. "proof" \in ToSet(d.sent) => \E i \in 2..d.read : Step(s[i], 11) /\ Step(s[i - 1], 10)
      BY <2>6, <3>2
    <3> HIDE DEF m
    <3> QED BY <2>1, <2>2, <2>4, <2>5, <2>9, <3>2, <3>3 DEF OnRequest
  <2>10. CASE d.sent = Append(c.sent, "proof") /\ c.at = "continue" /\ Step(m, 11)
    <3>1. "proof" \in Told
      BY DEF Told
    <3>2. Passwords(d) = Passwords(c)
      BY <2>7, <2>10, <3>1
    <3>3. ~Asks(m)
      BY <2>10 DEF Step, Asks
    <3>4. k >= 1 /\ Step(s[k], 10)
      BY <2>10 DEF Hears
    <3>5. \E i \in 2..d.read : Step(s[i], 11) /\ Step(s[i - 1], 10)
      <4>1. k + 1 \in 2..d.read /\ (k + 1) - 1 = k
        BY <2>1, <3>4
      <4> QED BY <2>10, <3>4, <4>1
    <3> HIDE DEF m
    <3> QED BY <2>1, <2>2, <2>4, <2>5, <3>2, <3>3, <3>5 DEF OnRequest
  <2>11. CASE \E x \in {"md5", "nonce"} : d.sent = Append(c.sent, x) /\ c.at = "starting" /\ ~Asks(m)
    <3>1. PICK x \in {"md5", "nonce"} : d.sent = Append(c.sent, x)
      BY <2>11
    <3>2. x \in Told /\ x # "password" /\ x # "proof"
      BY DEF Told
    <3>3. Passwords(d) = Passwords(c) /\ ("proof" \in ToSet(d.sent) => "proof" \in ToSet(c.sent))
      BY <2>7, <3>1, <3>2
    <3>4. "proof" \in ToSet(d.sent) => \E i \in 2..d.read : Step(s[i], 11) /\ Step(s[i - 1], 10)
      BY <2>6, <3>3
    <3> HIDE DEF m
    <3> QED BY <2>1, <2>2, <2>4, <2>5, <2>11, <3>3, <3>4 DEF OnRequest
  <2> QED BY <2>8, <2>9, <2>10, <2>11 DEF Takes
<1> QED BY <1>1, <1>2

\* Of any messages.
LEMMA HandshakesProveTheServer ==
    ASSUME kind = "handshake", input \in Seq(Message)
    PROVE  HandshakeProvesTheServer
<1> DEFINE c == Database!startup(input)
           n == Len(input)
<1>1. PICK g : /\ g[0] = Database!Dialed /\ c = g[n]
               /\ \A k \in 1..n : g[k] = Database!Next(g[k - 1], input[k])
  BY StartupRuns
<1>2. n \in Nat /\ \A k \in 1..n : input[k] \in Message
  OBVIOUS
<1> HIDE DEF c, n
<1> DEFINE B == {k \in Nat : k <= n => Hears(g[k], input, k) /\ OnRequest(g[k], input)}
<1>3. 0 \in B
  <2>1. Database!Dialed \in Starting /\ Database!Dialed.at = "starting" /\ Database!Dialed.read = 0
        /\ Database!Dialed.sent = <<"startup">>
    BY DialedStarting DEF Database!Dialed
  <2>2. 1..0 = {} /\ 1..((0 + 1) - 1) = {}
    OBVIOUS
  <2>3. Hears(Database!Dialed, input, 0)
    BY <2>1, <2>2 DEF Hears, Orderly
  <2>4. Passwords(Database!Dialed) = {} /\ Requested(input, 0) = {} /\ "proof" \notin ToSet(Database!Dialed.sent)
    BY <2>1, <2>2 DEF Passwords, Requested, ToSet
  <2>5. OnRequest(Database!Dialed, input)
    <3> DEFINE d == Database!Dialed
    <3>1. Cardinality(Passwords(d)) = 0 /\ Cardinality(Requested(input, d.read)) = 0
      BY <2>1, <2>4, FS_EmptySet
    <3>2. "proof" \notin ToSet(d.sent)
      BY <2>4
    <3> HIDE DEF d
    <3>3. OnRequest(d, input)
      BY <3>1, <3>2 DEF OnRequest
    <3> QED BY <3>3 DEF d
  <2> QED BY <1>1, <2>3, <2>5
<1>4. ASSUME NEW k \in Nat, k \in B PROVE k + 1 \in B
  <2>0. SUFFICES ASSUME k + 1 <= n PROVE Hears(g[k + 1], input, k + 1) /\ OnRequest(g[k + 1], input)
    <3>1. k + 1 \in Nat
      OBVIOUS
    <3> QED BY <3>1
  <2>1. Hears(g[k], input, k) /\ OnRequest(g[k], input) /\ k < n /\ k + 1 \in 1..n /\ (k + 1) - 1 = k
    BY <1>2, <1>4, <2>0
  <2>2. g[k + 1] = Database!Next(g[k], input[k + 1])
    BY <1>1, <2>1
  <2>3. Takes(g[k], input[k + 1], g[k + 1])
    <3>1. g[k] \in Starting /\ input[k + 1] \in Message
      BY <1>2, <2>1 DEF Hears
    <3> QED BY <2>2, <3>1, MessageTaken
  <2> QED BY <2>1, <2>3, HearsGrows, OnRequestGrows DEF n
<1>5. Hears(c, input, n) /\ OnRequest(c, input)
  <2> HIDE DEF B
  <2>1. n \in B
    BY <1>2, <1>3, <1>4, NatByStep
  <2> QED BY <1>1, <1>2, <2>1 DEF B
<1>6. c.at = "ready" <=> \E i \in DOMAIN input : input[i].type = "Z" /\ Orderly(input, i)
  <2>1. DOMAIN input = 1..n /\ c.read \in 0..n /\ n \in Nat
    BY <1>2, <1>5 DEF Hears, n
  <2>2. ASSUME c.at = "ready" PROVE \E i \in DOMAIN input : Ends(input, i)
    <3>1. c.read \in 1..n /\ Ends(input, c.read)
      BY <1>5, <2>1, <2>2 DEF Hears
    <3> QED BY <2>1, <3>1
  <2>3. ASSUME c.at # "ready" PROVE \A i \in DOMAIN input : ~Ends(input, i)
    BY <1>5, <2>1, <2>3 DEF Hears, n
  <2> QED BY <2>2, <2>3 DEF Ends
<1>7. {i \in 1..c.read : input[i].type = "R" /\ input[i].code = 3} = Requested(input, c.read)
  BY DEF Requested, Asks
<1>8. "proof" \in ToSet(c.sent) => \E i \in 2..c.read : input[i].code = 11 /\ input[i].ok /\ input[i - 1].code = 10
  BY <1>5 DEF OnRequest, Step
<1>9. \/ kind # "handshake"
      \/ LET requests == {i \in 1..c.read : input[i].type = "R" /\ input[i].code = 3}
             sent == {i \in DOMAIN c.sent : c.sent[i] = "password"}
         IN  /\ c.at = "ready" <=> \E i \in DOMAIN input : input[i].type = "Z" /\ Orderly(input, i)
             /\ Cardinality(sent) <= Cardinality(requests)
             /\ c.at # "failed" => Cardinality(sent) = Cardinality(requests)
             /\ "proof" \in ToSet(c.sent) =>
                  \E i \in 2..c.read : input[i].code = 11 /\ input[i].ok /\ input[i - 1].code = 10
  BY <1>5, <1>6, <1>7, <1>8 DEF OnRequest, Passwords
<1> QED BY <1>9 DEF HandshakeProvesTheServer, c

-------------------------------------------------------------------------------
(* Where settings come from. *)

\* What may be set: the names there are, or nothing.
Settable == DOMAIN Port \cup {Blank}

\* A .env file gives values of its lines.
LEMMA DotEnvValues ==
    ASSUME NEW S, NEW lines \in Seq(S), \A i \in DOMAIN lines : lines[i].value \in Settable
    PROVE  \A k \in DOMAIN Settings!ParseDotEnv(lines) : Settings!ParseDotEnv(lines)[k] \in Settable
<1> DEFINE pairs == {i \in DOMAIN lines : lines[i].class = "pair" /\ lines[i].key # Blank}
           Latest(k, i) == lines[i].key = k /\ \A j \in pairs : lines[j].key = k => j <= i
           Of(k) == {i \in pairs : lines[i].key = k}
<1>1. ASSUME NEW k \in {lines[i].key : i \in pairs} PROVE lines[CHOOSE i \in pairs : Latest(k, i)].value \in Settable
  <2>1. Len(lines) \in Nat /\ Of(k) \in SUBSET (1..Len(lines)) /\ Of(k) # {}
    BY <1>1
  <2>2. Max(Of(k)) \in Of(k) /\ \A i \in Of(k) : i <= Max(Of(k))
    BY <2>1, GreatestOfPart
  <2>3. \E i \in pairs : Latest(k, i)
    BY <2>2
  <2>4. (CHOOSE i \in pairs : Latest(k, i)) \in pairs
    BY <2>3
  <2> QED BY <2>4
<1> QED BY <1>1 DEF Settings!ParseDotEnv

\* Of any lines, in any environment.
LEMMA SettingsOfOneSource ==
    ASSUME kind = "dotenv", input \in Seq(Alphabet["dotenv"])
    PROVE  SettingsHaveOneSource
<1> SUFFICES ASSUME NEW process \in Processes
             PROVE  LET dotEnv == Settings!ParseDotEnv(input)
                        merged == [k \in DOMAIN process \cup DOMAIN dotEnv |->
                                      IF k \in DOMAIN process THEN process[k] ELSE dotEnv[k]]
                        server == Settings!LoadServerConfig(process, dotEnv)
                    IN  /\ server = Settings!LoadServerConfig(merged, <<>>)
                        /\ server.host # Blank /\ server.port \in Nat
  BY DEF SettingsHaveOneSource
<1> DEFINE dotEnv == Settings!ParseDotEnv(input)
           merged == [k \in DOMAIN process \cup DOMAIN dotEnv |->
                         IF k \in DOMAIN process THEN process[k] ELSE dotEnv[k]]
           E(k) == Settings!Env(k, process, dotEnv)
           Or(k, fallback) == IF E(k) = Blank THEN fallback ELSE E(k)
           port == Or("SERVER_PORT", E("MICRONAUT_SERVER_PORT"))
           host == Or("SERVER_HOST", E("MICRONAUT_SERVER_HOST"))
           server == [host |-> IF host = Blank THEN "127.0.0.1" ELSE host,
                      port |-> IF port # Blank /\ Port[port] >= 0 THEN Port[port] ELSE 8080,
                      user |-> Or("POSTGRES_USER", "agentviz")]
<1>1. \A k \in DOMAIN dotEnv : dotEnv[k] \in Settable
  <2>1. \A i \in DOMAIN input : input[i].value \in Settable
    BY Connections DEF Settable
  <2> DEFINE S == Alphabet["dotenv"]
  <2>2. input \in Seq(S)
    OBVIOUS
  <2> HIDE DEF S
  <2> QED BY <2>1, <2>2, DotEnvValues
<1> HIDE DEF dotEnv
<1>2. ASSUME NEW k PROVE E(k) \in Settable /\ Settings!Env(k, merged, <<>>) = E(k)
  <2>1. \A l \in DOMAIN process : process[l] \in Settable
    BY Connections DEF Settable
  <2>2. DOMAIN <<>> = {} /\ Blank \in Settable
    BY DEF Settable
  <2> QED BY <1>1, <2>1, <2>2 DEF Settings!Env
<1> HIDE DEF merged
<1>3. Settings!LoadServerConfig(process, dotEnv) = server
  BY DEF Settings!LoadServerConfig, Settings!EnvOr
<1>4. Settings!LoadServerConfig(merged, <<>>) = server
  <2> DEFINE F(k) == Settings!Env(k, merged, <<>>)
  <2>1. /\ F("SERVER_PORT") = E("SERVER_PORT") /\ F("MICRONAUT_SERVER_PORT") = E("MICRONAUT_SERVER_PORT")
        /\ F("SERVER_HOST") = E("SERVER_HOST") /\ F("MICRONAUT_SERVER_HOST") = E("MICRONAUT_SERVER_HOST")
        /\ F("POSTGRES_USER") = E("POSTGRES_USER")
    BY <1>2
  <2> HIDE DEF E
  <2> QED BY <2>1 DEF Settings!LoadServerConfig, Settings!EnvOr
<1>5. port \in Settable /\ Blank # "127.0.0.1"
  <2> HIDE DEF E
  <2> QED BY <1>2, Connections
<1>6. server.host # Blank /\ server.port \in Nat
  <2> HIDE DEF host, port
  <2>1. port # Blank => Port[port] \in Int
    BY <1>5, Connections DEF Settable
  <2> QED BY <1>5, <2>1
<1> QED BY <1>3, <1>4, <1>6 DEF dotEnv, merged

-------------------------------------------------------------------------------
(* The URL of a database. *)

\* The fields of a connection's configuration.
Fields == {"host", "port", "user", "password", "database"}
Filled(W) == [Fields -> W]

\* The steps that set a field to a value, of n that leave a configuration or do.
Overwrites(g, n, W, fs, vs) ==
    \A k \in 1..n : g[k] = IF k \in W THEN [g[k - 1] EXCEPT ![fs[k]] = vs[k]] ELSE g[k - 1]
Writing(n, W, fs, f) == {k \in 1..n : k \in W /\ fs[k] = f}

\* Each field is what the last step that set it made it.
LEMMA LastWriteCounts ==
    ASSUME NEW V, NEW n \in Nat, NEW g, NEW W, NEW fs, NEW vs, g[0] \in Filled(V),
           \A k \in 1..n : vs[k] \in V, Overwrites(g, n, W, fs, vs)
    PROVE  /\ g[n] \in Filled(V)
           /\ \A f \in Fields : g[n][f] = IF Writing(n, W, fs, f) = {} THEN g[0][f]
                                          ELSE vs[Max(Writing(n, W, fs, f))]
<1> DEFINE Latest(k, f) == \/ (\A j \in 1..k : ~(j \in W /\ fs[j] = f)) /\ g[k][f] = g[0][f]
                         \/ \E m \in 1..k : /\ m \in W /\ fs[m] = f /\ g[k][f] = vs[m]
                                            /\ \A j \in 1..k : j \in W /\ fs[j] = f => j <= m
           B == {k \in Nat : k <= n => g[k] \in [Fields -> V] /\ \A f \in Fields : Latest(k, f)}
<1>1. 0 \in B
  <2>1. 1..0 = {}
    OBVIOUS
  <2> QED BY <2>1 DEF Filled
<1>2. ASSUME NEW k \in Nat, k \in B PROVE k + 1 \in B
  <2>0. SUFFICES ASSUME k + 1 <= n PROVE g[k + 1] \in [Fields -> V] /\ \A f \in Fields : Latest(k + 1, f)
    <3>1. k + 1 \in Nat
      OBVIOUS
    <3> HIDE DEF Latest
    <3> QED BY <3>1
  <2>1. g[k] \in [Fields -> V] /\ \A f \in Fields : Latest(k, f)
    <3> HIDE DEF Latest
    <3> QED BY <1>2, <2>0
  <2>2. k + 1 \in 1..n /\ (k + 1) - 1 = k /\ vs[k + 1] \in V /\ 1..(k + 1) = (1..k) \cup {k + 1}
    BY <2>0
  <2>3. CASE k + 1 \notin W
    <3>1. g[k + 1] = g[k]
      BY <2>2, <2>3 DEF Overwrites
    <3>2. ASSUME NEW f \in Fields PROVE Latest(k + 1, f)
      <4>1. CASE (\A j \in 1..k : ~(j \in W /\ fs[j] = f)) /\ g[k][f] = g[0][f]
        BY <2>2, <2>3, <3>1, <4>1
      <4>2. CASE \E m \in 1..k : /\ m \in W /\ fs[m] = f /\ g[k][f] = vs[m]
                                 /\ \A j \in 1..k : j \in W /\ fs[j] = f => j <= m
        BY <2>2, <2>3, <3>1, <4>2
      <4> QED BY <2>1, <4>1, <4>2
    <3> QED BY <2>1, <3>1, <3>2
  <2>4. CASE k + 1 \in W
    <3>1. g[k + 1] = [g[k] EXCEPT ![fs[k + 1]] = vs[k + 1]]
      BY <2>2, <2>4 DEF Overwrites
    <3>2. g[k + 1] \in [Fields -> V]
      <4> HIDE DEF Latest
      <4> QED BY <2>1, <2>2, <3>1
    <3>3. ASSUME NEW f \in Fields PROVE Latest(k + 1, f)
      <4>1. CASE fs[k + 1] = f
        <5>1. g[k + 1][f] = vs[k + 1]
          <6> HIDE DEF Latest
          <6> QED BY <2>1, <3>1, <4>1
        <5>2. \A j \in 1..(k + 1) : j <= k + 1
          OBVIOUS
        <5>3. k + 1 \in 1..(k + 1)
          OBVIOUS
        <5> QED BY <2>4, <4>1, <5>1, <5>2, <5>3
      <4>2. CASE fs[k + 1] # f
        <5>1. g[k + 1][f] = g[k][f]
          <6> HIDE DEF Latest
          <6> QED BY <2>1, <3>1, <4>2
        <5>2. CASE (\A j \in 1..k : ~(j \in W /\ fs[j] = f)) /\ g[k][f] = g[0][f]
          BY <2>2, <4>2, <5>1, <5>2
        <5>3. CASE \E m \in 1..k : /\ m \in W /\ fs[m] = f /\ g[k][f] = vs[m]
                                   /\ \A j \in 1..k : j \in W /\ fs[j] = f => j <= m
          BY <2>2, <4>2, <5>1, <5>3
        <5> QED BY <2>1, <5>2, <5>3
      <4> QED BY <4>1, <4>2
    <3> QED BY <3>2, <3>3
  <2> QED BY <2>3, <2>4
<1>3. g[n] \in [Fields -> V] /\ \A f \in Fields : Latest(n, f)
  <2> HIDE DEF B
  <2>1. n \in B
    BY <1>1, <1>2, NatByStep
  <2> QED BY <2>1 DEF B
<1>4. ASSUME NEW f \in Fields
      PROVE  g[n][f] = IF Writing(n, W, fs, f) = {} THEN g[0][f] ELSE vs[Max(Writing(n, W, fs, f))]
  <2> DEFINE at == Writing(n, W, fs, f)
  <2>1. at \in SUBSET (1..n)
    BY DEF Writing
  <2>2. CASE (\A j \in 1..n : ~(j \in W /\ fs[j] = f)) /\ g[n][f] = g[0][f]
    BY <2>2 DEF Writing
  <2>3. CASE \E m \in 1..n : /\ m \in W /\ fs[m] = f /\ g[n][f] = vs[m]
                             /\ \A j \in 1..n : j \in W /\ fs[j] = f => j <= m
    <3>1. PICK m \in 1..n : /\ m \in W /\ fs[m] = f /\ g[n][f] = vs[m]
                            /\ \A j \in 1..n : j \in W /\ fs[j] = f => j <= m
      BY <2>3
    <3>2. m \in at /\ \A j \in at : j <= m
      BY <3>1 DEF Writing
    <3>3. Max(at) \in at /\ \A j \in at : j <= Max(at)
      <4> HIDE DEF at
      <4> QED BY <2>1, <3>2, GreatestOfPart
    <3>4. Max(at) = m
      <4> DEFINE x == Max(at)
      <4>1. x \in 1..n /\ x <= m /\ m <= x
        BY <2>1, <3>2, <3>3
      <4> HIDE DEF x
      <4>2. x = m
        BY <4>1
      <4> QED BY <4>2 DEF x
    <3> QED BY <3>1, <3>2, <3>4
  <2> QED BY <1>3, <2>2, <2>3
<1> QED BY <1>3, <1>4 DEF Filled

\* The settings of a keyword form, one after the other.
LEMMA PutsRun ==
    ASSUME NEW W, NEW S, NEW cfg \in Filled(W), NEW params \in Seq(S), \A x \in S : x.value \in W
    PROVE  \E g : /\ g[0] = cfg /\ Settings!PutAll(cfg, params) = g[Len(params)]
                  /\ \A k \in 1..Len(params) : g[k] = Settings!Put(g[k - 1], params[k])
<1> DEFINE X == S
           V == Filled(W)
           It(h) == h = [r \in SUBSET DOMAIN params |->
                            IF r = {} THEN cfg ELSE Settings!Put(h[r \ {Max(r)}], params[Max(r)])]
           F == [q \in V \X X |-> Settings!Put(q[1], q[2])]
           iter == CHOOSE h : It(h)
           n == Len(params)
<1>1. n \in Nat /\ DOMAIN params = 1..n /\ params \in Seq(X) /\ cfg \in V
  OBVIOUS
<1>2. F \in [V \X X -> V]
  BY DEF Settings!Put, Filled
<1>3. \E h : It(h)
  <2>1. PICK h \in [SUBSET DOMAIN params -> V] : Folds(h, params, cfg, F)
    <3> HIDE DEF F, X, V
    <3> QED BY <1>1, <1>2, FoldIteration
  <2>2. ASSUME NEW r \in SUBSET DOMAIN params, r # {}
        PROVE  F[<<h[r \ {Max(r)}], params[Max(r)]>>] = Settings!Put(h[r \ {Max(r)}], params[Max(r)])
    <3> HIDE DEF X, V
    <3>1. Max(r) \in 1..n
      BY <1>1, <2>2, GreatestOfPart
    <3>2. params[Max(r)] \in X /\ h[r \ {Max(r)}] \in V
      BY <1>1, <3>1
    <3> QED BY <3>2
  <2> HIDE DEF F, X, V
  <2>3. It(h)
    BY <2>1, <2>2 DEF Folds
  <2> QED BY <2>3
<1> HIDE DEF F, X, V
<1>4. It(iter)
  BY <1>3
<1>5. Settings!PutAll(cfg, params) = iter[DOMAIN params]
  BY DEF Settings!PutAll, Settings!FoldLeft, Settings!MapThenFoldSet, Max, Settings!Max
<1>6. iter[1..0] = cfg /\ \A k \in 1..n : iter[1..k] = Settings!Put(iter[1..(k - 1)], params[k])
  <2> HIDE DEF iter, n
  <2>1. iter[1..0] = cfg
    BY <1>1, <1>4
  <2>2. ASSUME NEW k \in 1..n PROVE iter[1..k] = Settings!Put(iter[1..(k - 1)], params[k])
    <3>1. 1..k \in SUBSET DOMAIN params /\ 1..k # {} /\ Max(1..k) = k /\ (1..k) \ {k} = 1..(k - 1)
      <4>1. k \in Nat /\ k # 0 /\ 1..k \in SUBSET (1..n)
        BY <1>1
      <4>2. 1..k # {} /\ Max(1..k) = k /\ (1..k) \ {k} = 1..(k - 1)
        BY <4>1, UpTo
      <4> QED BY <1>1, <4>1, <4>2
    <3> QED BY <1>4, <3>1
  <2> QED BY <2>1, <2>2
<1> DEFINE g == [k \in 0..n |-> iter[1..k]]
<1>7. /\ g[0] = cfg /\ Settings!PutAll(cfg, params) = g[n]
      /\ \A k \in 1..n : g[k] = Settings!Put(g[k - 1], params[k])
  <2>1. g[0] = cfg /\ g[n] = iter[1..n]
    <3> HIDE DEF iter, n
    <3> QED BY <1>1, <1>6
  <2>2. ASSUME NEW k \in 1..n PROVE g[k] = Settings!Put(g[k - 1], params[k])
    <3>1. k \in 0..n /\ k - 1 \in 0..n
      BY <1>1
    <3> HIDE DEF iter, n
    <3>2. g[k] = iter[1..k] /\ g[k - 1] = iter[1..(k - 1)]
      BY <3>1
    <3> HIDE DEF g
    <3> QED BY <1>6, <3>2
  <2> HIDE DEF iter, n
  <2> QED BY <1>1, <1>5, <2>1, <2>2
<1> HIDE DEF g
<1> QED BY <1>7

\* The parameters of a URL, in some order of their keys.
LEMMA RangesRun ==
    ASSUME NEW W, NEW S, NEW cfg \in Filled(W), NEW params, NEW order \in Seq(S),
           \A k \in S : Settings!LastOf(params, k) \in W
    PROVE  \E g : /\ g[0] = cfg /\ Settings!RangedOver(cfg, params, order) = g[Len(order)]
                  /\ \A k \in 1..Len(order) : g[k] = Settings!Applied(g[k - 1], order[k], Settings!LastOf(params, order[k]))
<1> DEFINE X == S
           V == Filled(W)
           It(h) == h = [r \in SUBSET DOMAIN order |->
                            IF r = {} THEN cfg ELSE Settings!Applied(h[r \ {Max(r)}], order[Max(r)], Settings!LastOf(params, order[Max(r)]))]
           F == [q \in V \X X |-> Settings!Applied(q[1], q[2], Settings!LastOf(params, q[2]))]
           iter == CHOOSE h : It(h)
           n == Len(order)
<1>1. n \in Nat /\ DOMAIN order = 1..n /\ order \in Seq(X) /\ cfg \in V
  OBVIOUS
<1>2. F \in [V \X X -> V]
  BY DEF Settings!Applied, Filled
<1>3. \E h : It(h)
  <2>1. PICK h \in [SUBSET DOMAIN order -> V] : Folds(h, order, cfg, F)
    <3> HIDE DEF F, X, V
    <3> QED BY <1>1, <1>2, FoldIteration
  <2>2. ASSUME NEW r \in SUBSET DOMAIN order, r # {}
        PROVE  F[<<h[r \ {Max(r)}], order[Max(r)]>>] = Settings!Applied(h[r \ {Max(r)}], order[Max(r)], Settings!LastOf(params, order[Max(r)]))
    <3> HIDE DEF X, V
    <3>1. Max(r) \in 1..n
      BY <1>1, <2>2, GreatestOfPart
    <3>2. order[Max(r)] \in X /\ h[r \ {Max(r)}] \in V
      BY <1>1, <3>1
    <3> QED BY <3>2
  <2> HIDE DEF F, X, V
  <2>3. It(h)
    BY <2>1, <2>2 DEF Folds
  <2> QED BY <2>3
<1> HIDE DEF F, X, V
<1>4. It(iter)
  BY <1>3
<1>5. Settings!RangedOver(cfg, params, order) = iter[DOMAIN order]
  BY DEF Settings!RangedOver, Settings!FoldLeft, Settings!MapThenFoldSet, Max, Settings!Max
<1>6. iter[1..0] = cfg /\ \A k \in 1..n : iter[1..k] = Settings!Applied(iter[1..(k - 1)], order[k], Settings!LastOf(params, order[k]))
  <2> HIDE DEF iter, n
  <2>1. iter[1..0] = cfg
    BY <1>1, <1>4
  <2>2. ASSUME NEW k \in 1..n PROVE iter[1..k] = Settings!Applied(iter[1..(k - 1)], order[k], Settings!LastOf(params, order[k]))
    <3>1. 1..k \in SUBSET DOMAIN order /\ 1..k # {} /\ Max(1..k) = k /\ (1..k) \ {k} = 1..(k - 1)
      <4>1. k \in Nat /\ k # 0 /\ 1..k \in SUBSET (1..n)
        BY <1>1
      <4>2. 1..k # {} /\ Max(1..k) = k /\ (1..k) \ {k} = 1..(k - 1)
        BY <4>1, UpTo
      <4> QED BY <1>1, <4>1, <4>2
    <3> QED BY <1>4, <3>1
  <2> QED BY <2>1, <2>2
<1> DEFINE g == [k \in 0..n |-> iter[1..k]]
<1>7. /\ g[0] = cfg /\ Settings!RangedOver(cfg, params, order) = g[n]
      /\ \A k \in 1..n : g[k] = Settings!Applied(g[k - 1], order[k], Settings!LastOf(params, order[k]))
  <2>1. g[0] = cfg /\ g[n] = iter[1..n]
    <3> HIDE DEF iter, n
    <3> QED BY <1>1, <1>6
  <2>2. ASSUME NEW k \in 1..n PROVE g[k] = Settings!Applied(g[k - 1], order[k], Settings!LastOf(params, order[k]))
    <3>1. k \in 0..n /\ k - 1 \in 0..n
      BY <1>1
    <3> HIDE DEF iter, n
    <3>2. g[k] = iter[1..k] /\ g[k - 1] = iter[1..(k - 1)]
      BY <3>1
    <3> HIDE DEF g
    <3> QED BY <1>6, <3>2
  <2> HIDE DEF iter, n
  <2> QED BY <1>1, <1>5, <2>1, <2>2
<1> HIDE DEF g
<1> QED BY <1>7

\* The parameters that set a field, and what all of them set one after the other.
At(params, f) == {i \in DOMAIN params : Settings!FieldOf(params[i].key) = f}
Final(params, f) == params[Max(At(params, f))].value
Keyworded(params, cfg) == [f \in Fields |-> IF At(params, f) = {} THEN cfg[f] ELSE Final(params, f)]

\* The last setting of a field counts.
LEMMA KeywordsAre ==
    ASSUME NEW W, NEW S, NEW cfg \in Filled(W), NEW params \in Seq(S), \A x \in S : x.value \in W
    PROVE  Settings!PutAll(cfg, params) = Keyworded(params, cfg)
<1> DEFINE n == Len(params)
           fs == [k \in 1..n |-> Settings!FieldOf(params[k].key)]
           vs == [k \in 1..n |-> params[k].value]
           All == 1..n
<1>1. n \in Nat /\ DOMAIN params = 1..n /\ \A k \in 1..n : params[k].value \in W
  OBVIOUS
<1>2. PICK g : /\ g[0] = cfg /\ Settings!PutAll(cfg, params) = g[n]
               /\ \A k \in 1..n : g[k] = Settings!Put(g[k - 1], params[k])
  <2> HIDE DEF fs, vs, All
  <2>1. \E g : /\ g[0] = cfg /\ Settings!PutAll(cfg, params) = g[Len(params)]
               /\ \A k \in 1..Len(params) : g[k] = Settings!Put(g[k - 1], params[k])
    BY PutsRun
  <2> QED BY <2>1
<1> HIDE DEF n
<1>3. \A k \in 1..n : fs[k] = Settings!FieldOf(params[k].key) /\ vs[k] = params[k].value /\ vs[k] \in W
  BY <1>1
<1> HIDE DEF fs, vs
<1>4. Overwrites(g, n, All, fs, vs)
  BY <1>2, <1>3 DEF Overwrites, Settings!Put
<1>5. /\ g[n] \in Filled(W)
      /\ \A f \in Fields : g[n][f] = IF Writing(n, All, fs, f) = {} THEN g[0][f]
                                     ELSE vs[Max(Writing(n, All, fs, f))]
  <2> HIDE DEF All
  <2> QED BY <1>1, <1>2, <1>3, <1>4, LastWriteCounts, SMTT(30)
<1>6. ASSUME NEW f \in Fields PROVE g[n][f] = Keyworded(params, cfg)[f]
  <2>1. Writing(n, All, fs, f) = At(params, f)
    BY <1>1, <1>3 DEF Writing, At
  <2>2. At(params, f) # {} => Max(At(params, f)) \in 1..n
    <3>1. At(params, f) \in SUBSET (1..n)
      BY <1>1 DEF At
    <3> QED BY <1>1, <3>1, GreatestOfPart
  <2> QED BY <1>2, <1>3, <1>5, <2>1, <2>2 DEF Keyworded, Final
<1> QED BY <1>2, <1>5, <1>6 DEF Keyworded, Filled

Keys(params) == {params[i].key : i \in DOMAIN params}

\* No field has two names.
OneName(params) == \A i, j \in DOMAIN params :
    Settings!FieldOf(params[i].key) = Settings!FieldOf(params[j].key) => params[i].key = params[j].key

Ranged(params, cfg) ==
    [f \in Fields |-> IF At(params, f) # {} /\ (Final(params, f) # Blank \/ f = "password")
                      THEN Final(params, f) ELSE cfg[f]]

\* There is an order, and each has every key.
LEMMA OrdersOfKeys ==
    ASSUME NEW S, NEW params \in Seq(S)
    PROVE  /\ Settings!SetToSeqs(Keys(params)) # {}
           /\ \A order \in Settings!SetToSeqs(Keys(params)) :
                 order \in Seq(Keys(params)) /\ \A k \in Keys(params) : \E j \in 1..Len(order) : order[j] = k
<1> DEFINE K == Keys(params)
           n == Len(params)
           D == 1..n
           key == [i \in D |-> params[i].key]
           m == Cardinality(K)
           M == 1..m
<1>1. n \in Nat /\ D = DOMAIN params /\ IsFiniteSet(D)
  BY FS_Interval
<1>2. IsFiniteSet(K) /\ m \in Nat
  <2>1. key \in Surjection(D, K)
    BY <1>1 DEF Surjection, Keys
  <2> HIDE DEF key, D, K
  <2> QED BY <1>1, <2>1, FS_Surjection, FS_CardinalityType
<1>3. Settings!SetToSeqs(K) = {f \in [M -> K] : \A i, j \in M : i # j => f[i] # f[j]}
  <2>1. Settings!Cardinality(K) = m
    BY DEF Settings!Cardinality, Cardinality
  <2> HIDE DEF K, m
  <2> QED BY <2>1 DEF Settings!SetToSeqs
<1> HIDE DEF K
<1>4. Settings!SetToSeqs(K) # {}
  <2>1. PICK f : f \in Bijection(M, K)
    BY <1>2, FS_CardinalityType DEF ExistsBijection
  <2>2. f \in [M -> K] /\ \A i, j \in M : i # j => f[i] # f[j]
    <3> HIDE DEF M
    <3> QED BY <2>1 DEF Bijection, Injection, IsInjective
  <2> QED BY <1>3, <2>2
<1>5. ASSUME NEW order \in Settings!SetToSeqs(K)
      PROVE  order \in Seq(K) /\ \A k \in K : \E j \in 1..Len(order) : order[j] = k
  <2>1. order \in [M -> K] /\ \A i, j \in M : i # j => order[i] # order[j]
    BY <1>3, <1>5
  <2>2. order \in Seq(K) /\ Len(order) = m
    BY <1>2, <2>1
  <2>3. IsFiniteSet(M) /\ Cardinality(M) = m
    <3> HIDE DEF m
    <3> QED BY <1>2, FS_Interval
  <2>4. order \in Surjection(M, K)
    <3>1. order \in Injection(M, K)
      <4> HIDE DEF M
      <4> QED BY <2>1 DEF Injection, IsInjective
    <3>2. Cardinality(M) = Cardinality(K)
      BY <2>3
    <3> HIDE DEF M, m
    <3> QED BY <1>2, <3>1, <3>2, FS_Injection
  <2> QED BY <2>2, <2>4 DEF Surjection
<1> QED BY <1>4, <1>5 DEF K

\* The value of a key is the last one given.
Named(params, k) == {i \in DOMAIN params : params[i].key = k}
LEMMA LastIs ==
    ASSUME NEW S, NEW params \in Seq(S), NEW k \in Keys(params)
    PROVE  /\ Named(params, k) # {} /\ Max(Named(params, k)) \in DOMAIN params
           /\ Settings!LastOf(params, k) = params[Max(Named(params, k))].value
<1> DEFINE at == {i \in DOMAIN params : params[i].key = k}
           Latest(i) == params[i].key = k /\ \A j \in DOMAIN params : params[j].key = k => j <= i
<1>1. Len(params) \in Nat /\ at \in SUBSET (1..Len(params)) /\ at # {}
  BY DEF Keys
<1>2. Max(at) \in at /\ \A i \in at : i <= Max(at)
  BY <1>1, GreatestOfPart
<1>3. (CHOOSE i \in DOMAIN params : Latest(i)) = Max(at)
  <2>1. Max(at) \in DOMAIN params /\ Latest(Max(at))
    BY <1>2
  <2>2. \A i \in DOMAIN params : Latest(i) => i = Max(at)
    <3> SUFFICES ASSUME NEW i \in DOMAIN params, Latest(i) PROVE i = Max(at)
      OBVIOUS
    <3> DEFINE x == Max(at)
    <3>1. i \in Int /\ x \in Int /\ i <= x /\ x <= i
      BY <1>2
    <3> HIDE DEF x
    <3>2. i = x
      BY <3>1
    <3> QED BY <3>2 DEF x
  <2> HIDE DEF Latest, at
  <2> QED BY <2>1, <2>2
<1>4. at # {} /\ Max(at) \in DOMAIN params /\ Settings!LastOf(params, k) = params[Max(at)].value
  BY <1>1, <1>2, <1>3 DEF Settings!LastOf
<1> QED BY <1>4 DEF Named

\* In any order of the keys a field is what is given last, if it has one name.
LEMMA RangedAre ==
    ASSUME NEW W, NEW S, NEW cfg \in Filled(W), NEW params \in Seq(S), \A x \in S : x.value \in W,
           NEW order \in Settings!SetToSeqs(Keys(params))
    PROVE  /\ Settings!RangedOver(cfg, params, order) \in Filled(W)
           /\ OneName(params) => Settings!RangedOver(cfg, params, order) = Ranged(params, cfg)
<1> DEFINE K == Keys(params)
           n == Len(order)
           fs == [j \in 1..n |-> Settings!FieldOf(order[j])]
           vs == [j \in 1..n |-> Settings!LastOf(params, order[j])]
           Set == {j \in 1..n : ~(Settings!LastOf(params, order[j]) = Blank /\ Settings!FieldOf(order[j]) # "password")}
           whole == Settings!RangedOver(cfg, params, order)
<1>1. order \in Seq(K) /\ \A k \in K : \E j \in 1..Len(order) : order[j] = k
  BY OrdersOfKeys
<1>2. ASSUME NEW k \in K
      PROVE  /\ Settings!LastOf(params, k) \in W /\ Named(params, k) # {}
             /\ Settings!LastOf(params, k) = params[Max(Named(params, k))].value
  <2>1. Len(params) \in Nat /\ \A i \in DOMAIN params : params[i].value \in W
    OBVIOUS
  <2>2. Named(params, k) # {} /\ Max(Named(params, k)) \in DOMAIN params /\ Settings!LastOf(params, k) = params[Max(Named(params, k))].value
    BY <1>2, LastIs
  <2> QED BY <2>1, <2>2
<1>3. n \in Nat /\ \A j \in 1..n : order[j] \in K
  BY <1>1
<1>4. PICK g : /\ g[0] = cfg /\ whole = g[n]
               /\ \A j \in 1..n : g[j] = Settings!Applied(g[j - 1], order[j], Settings!LastOf(params, order[j]))
  <2> HIDE DEF fs, vs, Set, K, n, whole
  <2>1. order \in Seq(K) /\ \A k \in K : Settings!LastOf(params, k) \in W
    BY <1>1, <1>2
  <2>2. \E g : /\ g[0] = cfg /\ Settings!RangedOver(cfg, params, order) = g[Len(order)]
               /\ \A j \in 1..Len(order) : g[j] = Settings!Applied(g[j - 1], order[j], Settings!LastOf(params, order[j]))
    BY <2>1, RangesRun
  <2> QED BY <2>2 DEF n, whole
<1> HIDE DEF K, n
<1>5. \A j \in 1..n : /\ fs[j] = Settings!FieldOf(order[j]) /\ vs[j] = Settings!LastOf(params, order[j])
                      /\ j \in Set <=> (vs[j] # Blank \/ fs[j] = "password")
  OBVIOUS
<1> HIDE DEF fs, vs, Set, whole
<1>6. Overwrites(g, n, Set, fs, vs)
  BY <1>4, <1>5 DEF Overwrites, Settings!Applied
<1>7. /\ g[n] \in Filled(W)
      /\ \A f \in Fields : g[n][f] = IF Writing(n, Set, fs, f) = {} THEN g[0][f]
                                     ELSE vs[Max(Writing(n, Set, fs, f))]
  <2>1. \A j \in 1..n : vs[j] \in W
    BY <1>2, <1>3, <1>5
  <2> QED BY <1>3, <1>4, <1>6, <2>1, LastWriteCounts
<1>8. ASSUME OneName(params), NEW f \in Fields PROVE g[n][f] = Ranged(params, cfg)[f]
  <2> DEFINE at == At(params, f)
             writing == Writing(n, Set, fs, f)
  <2>1. writing \in SUBSET (1..n) /\ (writing # {} => Max(writing) \in writing)
    <3>1. writing \in SUBSET (1..n)
      BY DEF Writing
    <3> HIDE DEF writing
    <3> QED BY <1>3, <3>1, GreatestOfPart
  <2>2. at \in SUBSET (1..Len(params)) /\ Len(params) \in Nat /\ (at # {} => Max(at) \in at)
    <3>1. at \in SUBSET (1..Len(params)) /\ Len(params) \in Nat
      BY DEF At
    <3> HIDE DEF at
    <3> QED BY <3>1, GreatestOfPart
  <2>3. ASSUME NEW j \in 1..n, fs[j] = f
        PROVE  at # {} /\ vs[j] = Final(params, f)
    <3>1. order[j] \in K /\ Settings!FieldOf(order[j]) = f
      BY <1>3, <1>5, <2>3
    <3>2. PICK i \in DOMAIN params : params[i].key = order[j]
      BY <3>1 DEF K, Keys
    <3>3. i \in at
      BY <3>1, <3>2 DEF At
    <3>4. at = Named(params, order[j])
      <4>1. \A l \in DOMAIN params : Settings!FieldOf(params[l].key) = f <=> params[l].key = order[j]
        BY <1>8, <3>1, <3>2 DEF OneName
      <4> QED BY <4>1 DEF At, Named
    <3> HIDE DEF at
    <3>5. vs[j] = params[Max(at)].value
      BY <1>2, <1>5, <3>1, <3>4
    <3> QED BY <3>3, <3>5 DEF Final, at
  <2>4. ASSUME at # {} PROVE \E j \in 1..n : fs[j] = f
    <3>1. PICK i \in DOMAIN params : Settings!FieldOf(params[i].key) = f
      BY <2>4 DEF At
    <3>2. params[i].key \in K
      BY DEF K, Keys
    <3>3. PICK j \in 1..n : order[j] = params[i].key
      BY <1>1, <3>2 DEF n
    <3> QED BY <1>5, <3>1, <3>3
  <2>5. CASE at # {} /\ (Final(params, f) # Blank \/ f = "password")
    <3>1. PICK j \in 1..n : fs[j] = f
      BY <2>4, <2>5
    <3>2. j \in Set
      BY <1>5, <2>3, <2>5, <3>1
    <3>3. j \in writing
      BY <3>1, <3>2 DEF Writing
    <3>4. Max(writing) \in writing
      BY <2>1, <3>3
    <3>5. Max(writing) \in 1..n /\ fs[Max(writing)] = f
      BY <3>4 DEF Writing
    <3> HIDE DEF writing
    <3>6. vs[Max(writing)] = Final(params, f)
      BY <2>3, <3>5
    <3>7. g[n][f] = vs[Max(writing)]
      BY <1>7, <3>3 DEF writing
    <3>8. Ranged(params, cfg)[f] = Final(params, f)
      BY <2>5 DEF Ranged
    <3> QED BY <3>6, <3>7, <3>8
  <2>6. CASE ~(at # {} /\ (Final(params, f) # Blank \/ f = "password"))
    <3>1. writing = {}
      <4> SUFFICES ASSUME NEW j \in writing PROVE FALSE
        OBVIOUS
      <4>1. j \in 1..n /\ j \in Set /\ fs[j] = f
        BY DEF Writing
      <4> QED BY <1>5, <2>3, <2>6, <4>1
    <3>2. g[n][f] = cfg[f]
      BY <1>4, <1>7, <3>1
    <3>3. Ranged(params, cfg)[f] = cfg[f]
      BY <2>6 DEF Ranged
    <3> QED BY <3>2, <3>3
  <2> QED BY <2>5, <2>6
<1>9. OneName(params) => g[n] = Ranged(params, cfg)
  BY <1>7, <1>8 DEF Ranged, Filled
<1> QED BY <1>4, <1>7, <1>9 DEF whole

\* A connection has a user.
LEMMA UsersAreGiven ==
    ASSUME NEW W, NEW cfg \in Filled(W)
    PROVE  Settings!WithUser(cfg).user # Blank
BY Connections DEF Settings!WithUser, Filled, Fields

\* The parts of a URL, over what a configuration has.
PartOf(dsn, f, cfg) ==
    IF dsn[f] = Absent \/ (dsn[f] = Blank /\ f # "password") THEN cfg[f] ELSE dsn[f]
Parts(dsn, cfg) == [f \in Fields |-> PartOf(dsn, f, cfg)]

\* What ParseURL makes of them.
LEMMA URLIs ==
    ASSUME NEW dsn, dsn.form \in {"jdbc", "url"}
    PROVE  Settings!ParseDSN(dsn, "u", "p") =
              {Settings!WithUser(c) : c \in Settings!applyQueryParams(
                  Parts(dsn, Settings!Defaults("u", "p")), dsn.params)}
<1> DEFINE cfg == Settings!Defaults("u", "p")
           given(field, old) == IF dsn[field] \in {Absent, Blank} THEN old ELSE dsn[field]
           base == [host |-> given("host", cfg.host), port |-> given("port", cfg.port),
                    user |-> given("user", cfg.user), database |-> given("database", cfg.database),
                    password |-> IF dsn.password = Absent THEN cfg.password ELSE dsn.password]
<1>1. Settings!ParseDSN(dsn, "u", "p") = Settings!ParseURL(dsn, cfg)
  BY DEF Settings!ParseDSN
<1> HIDE DEF cfg
<1>2. Settings!ParseURL(dsn, cfg) = {Settings!WithUser(c) : c \in Settings!applyQueryParams(base, dsn.params)}
  BY DEF Settings!ParseURL
<1>3. base = Parts(dsn, cfg)
  BY DEF Parts, PartOf, Fields
<1> HIDE DEF base
<1> QED BY <1>1, <1>2, <1>3 DEF cfg

\* What the defaults are.
LEMMA DefaultsAre ==
    ASSUME NEW W, {"localhost", "5432", "u", "p", "postgres"} \subseteq W
    PROVE  Settings!Defaults("u", "p") \in Filled(W)
BY DEF Settings!Defaults, Filled, Fields

\* The connections of a URL with parameters alone.
LEMMA QueriesAre ==
    ASSUME NEW W, NEW S, NEW cfg \in Filled(W), NEW params \in Seq(S), \A x \in S : x.value \in W
    PROVE  LET made == {Settings!WithUser(c) : c \in Settings!applyQueryParams(cfg, params)} IN
           /\ \A c \in made : c.user # Blank
           /\ OneName(params) => made = {Settings!WithUser(Ranged(params, cfg))}
<1> DEFINE orders == Settings!SetToSeqs(Keys(params))
           ranged == Settings!applyQueryParams(cfg, params)
           made == {Settings!WithUser(c) : c \in ranged}
<1>1. ranged = {Settings!RangedOver(cfg, params, order) : order \in orders}
  BY DEF Settings!applyQueryParams, Keys
<1>2. orders # {}
  BY OrdersOfKeys
<1> HIDE DEF orders, ranged
<1>3. ASSUME NEW c \in ranged
      PROVE  c \in Filled(W) /\ (OneName(params) => c = Ranged(params, cfg))
  <2>1. PICK order \in orders : c = Settings!RangedOver(cfg, params, order)
    BY <1>1
  <2>2. order \in Settings!SetToSeqs(Keys(params))
    BY DEF orders
  <2> QED BY <2>1, <2>2, RangedAre
<1>4. \A c \in made : c.user # Blank
  BY <1>3, UsersAreGiven
<1>5. ASSUME OneName(params) PROVE made = {Settings!WithUser(Ranged(params, cfg))}
  <2>1. PICK order : order \in orders
    BY <1>2
  <2>2. Settings!RangedOver(cfg, params, order) \in ranged
    BY <1>1, <2>1
  <2>3. ranged = {Ranged(params, cfg)}
    BY <1>3, <1>5, <2>2
  <2> QED BY <2>3
<1> QED BY <1>4, <1>5 DEF ranged

\* What a DSN is, of its form, its parameters and its parts.
Dsn(form, params, of) == [form |-> form, params |-> params, host |-> of["host"], port |-> of["port"],
                          user |-> of["user"], password |-> of["password"], database |-> of["database"]]

\* Its parts are those given.
LEMMA PartsAre ==
    ASSUME NEW form, NEW params, NEW of, NEW f \in Fields
    PROVE  Dsn(form, params, of)[f] = of[f]
BY DEF Dsn, Fields

\* Of any parameters.
LEMMA FormsOfDsnAgree ==
    ASSUME kind = "dsn", input \in Seq(Alphabet["dsn"])
    PROVE  DsnFormsAgree
<1> DEFINE S == Alphabet["dsn"]
           W == {x.value : x \in S} \cup {"localhost", "5432", "u", "p", "postgres"}
           cfg == Settings!Defaults("u", "p")
           part(f) == IF \E i \in DOMAIN input : Settings!FieldOf(input[i].key) = f
                      THEN input[Max({i \in DOMAIN input : Settings!FieldOf(input[i].key) = f})].value ELSE Absent
           none == [f \in Fields |-> Absent]
           last == [f \in Fields |-> part(f)]
           solid == \A i \in DOMAIN input : input[i].value # Blank
           aliased == \E i, j \in DOMAIN input :
                         input[i].key # input[j].key /\ Settings!FieldOf(input[i].key) = Settings!FieldOf(input[j].key)
           url == Settings!ParseDSN(Dsn("url", input, none), "u", "p")
           keywords == Settings!ParseDSN(Dsn("keywords", input, none), "u", "p")
           authority == Settings!ParseDSN(Dsn("jdbc", <<>>, last), "u", "p")
<1>1. input \in Seq(S) /\ <<>> \in Seq(S) /\ \A x \in S : x.value \in W
  OBVIOUS
<1>2. cfg \in Filled(W)
  <2>1. {"localhost", "5432", "u", "p", "postgres"} \subseteq W
    OBVIOUS
  <2> HIDE DEF W
  <2> QED BY <2>1, DefaultsAre
<1>3. \A i \in DOMAIN input : input[i].value \in W /\ input[i].value # Absent
  BY Connections
<1> HIDE DEF S, W, cfg
<1>4. url = {Settings!WithUser(c) : c \in Settings!applyQueryParams(cfg, input)}
  <2> DEFINE d == Dsn("url", input, none)
  <2>1. d.form = "url" /\ d.params = input
    BY DEF Dsn
  <2>2. \A f \in Fields : d[f] = Absent
    BY PartsAre
  <2> HIDE DEF d
  <2>3. Parts(d, cfg) = cfg
    BY <1>2, <2>2 DEF Parts, PartOf, Filled
  <2>4. Settings!ParseDSN(d, "u", "p") = {Settings!WithUser(c) : c \in Settings!applyQueryParams(Parts(d, cfg), d.params)}
    BY <2>1, URLIs DEF cfg
  <2> QED BY <2>1, <2>3, <2>4 DEF d
<1>5. /\ \A c \in url : c.user # Blank
      /\ ~aliased => url = {Settings!WithUser(Ranged(input, cfg))}
  <2>1. ~aliased => OneName(input)
    BY DEF OneName
  <2> HIDE DEF url, aliased
  <2> QED BY <1>1, <1>2, <1>4, <2>1, QueriesAre
<1>6. /\ keywords = IF input = <<>> THEN {} ELSE {Settings!WithUser(Keyworded(input, cfg))}
      /\ \A c \in keywords : c.user # Blank
  <2> DEFINE d == Dsn("keywords", input, none)
             made == Settings!PutAll(cfg, input)
  <2>1. d.form = "keywords" /\ d.params = input
    BY DEF Dsn
  <2> HIDE DEF d
  <2>2. Settings!ParseDSN(d, "u", "p") = IF input = <<>> THEN {} ELSE {Settings!WithUser(made)}
    BY <2>1 DEF Settings!ParseDSN, Settings!ParseKeywords, cfg
  <2> HIDE DEF made
  <2>3. made = Keyworded(input, cfg)
    BY <1>1, <1>2, KeywordsAre DEF made
  <2>4. Keyworded(input, cfg) \in Filled(W)
    <3>1. \A f \in Fields : At(input, f) # {} => Max(At(input, f)) \in DOMAIN input
      <4> SUFFICES ASSUME NEW f \in Fields, At(input, f) # {} PROVE Max(At(input, f)) \in DOMAIN input
        OBVIOUS
      <4>1. At(input, f) \in SUBSET (1..Len(input)) /\ Len(input) \in Nat
        BY DEF At
      <4>2. Max(At(input, f)) \in At(input, f)
        BY <4>1, GreatestOfPart
      <4> QED BY <4>2 DEF At
    <3> QED BY <1>2, <1>3, <3>1 DEF Keyworded, Final, Filled
  <2>5. Settings!WithUser(made).user # Blank
    BY <2>3, <2>4, UsersAreGiven
  <2> QED BY <2>2, <2>3, <2>5 DEF d
<1>7. ASSUME NEW f \in Fields
      PROVE  /\ part(f) = IF At(input, f) = {} THEN Absent ELSE Final(input, f)
             /\ At(input, f) # {} => \E i \in DOMAIN input : Final(input, f) = input[i].value
  <2>1. {i \in DOMAIN input : Settings!FieldOf(input[i].key) = f} = At(input, f)
    BY DEF At
  <2>2. (\E i \in DOMAIN input : Settings!FieldOf(input[i].key) = f) <=> At(input, f) # {}
    BY DEF At
  <2>3. At(input, f) \in SUBSET (1..Len(input)) /\ Len(input) \in Nat
    BY DEF At
  <2>4. At(input, f) # {} => Max(At(input, f)) \in DOMAIN input
    <3>1. At(input, f) \subseteq DOMAIN input
      BY DEF At
    <3>2. At(input, f) # {} => Max(At(input, f)) \in At(input, f)
      BY <2>3, GreatestOfPart
    <3> QED BY <3>1, <3>2
  <2> QED BY <2>1, <2>2, <2>4 DEF Final
<1> HIDE DEF part
<1>8. authority = {Settings!WithUser(Parts(Dsn("jdbc", <<>>, last), cfg))}
  <2> DEFINE d == Dsn("jdbc", <<>>, last)
             empty == <<>>
  <2>1. d.form = "jdbc" /\ d.params = empty
    BY DEF Dsn
  <2>2. \A f \in Fields : d[f] = part(f)
    BY PartsAre
  <2> HIDE DEF d
  <2>3. Parts(d, cfg) \in Filled(W)
    BY <1>2, <1>3, <1>7, <2>2 DEF Parts, PartOf, Filled
  <2>4. Settings!ParseDSN(d, "u", "p") = {Settings!WithUser(c) : c \in Settings!applyQueryParams(Parts(d, cfg), empty)}
    BY <2>1, URLIs DEF cfg
  <2>5. OneName(empty) /\ Ranged(empty, Parts(d, cfg)) = Parts(d, cfg)
    <3>1. \A f : At(empty, f) = {}
      BY DEF At
    <3> QED BY <3>1 DEF OneName, Ranged, Parts
  <2>6. empty \in Seq(S)
    BY <1>1
  <2> HIDE DEF empty
  <2>7. {Settings!WithUser(c) : c \in Settings!applyQueryParams(Parts(d, cfg), empty)} = {Settings!WithUser(Parts(d, cfg))}
    <3> DEFINE base == Parts(d, cfg)
               made == {Settings!WithUser(c) : c \in Settings!applyQueryParams(base, empty)}
    <3>1. base \in Filled(W) /\ OneName(empty) /\ Ranged(empty, base) = base
      BY <2>3, <2>5
    <3> HIDE DEF base
    <3>2. OneName(empty) => made = {Settings!WithUser(Ranged(empty, base))}
      BY <1>1, <2>6, <3>1, QueriesAre
    <3>3. made = {Settings!WithUser(base)}
      <4> HIDE DEF made
      <4> QED BY <3>1, <3>2
    <3> QED BY <3>3 DEF base
  <2> QED BY <2>4, <2>7 DEF d, empty
<1>9. ASSUME solid
      PROVE  /\ Parts(Dsn("jdbc", <<>>, last), cfg) = Keyworded(input, cfg)
             /\ Ranged(input, cfg) = Keyworded(input, cfg)
  <2>1. \A f \in Fields : At(input, f) # {} => Final(input, f) # Blank /\ Final(input, f) # Absent
    BY <1>3, <1>7, <1>9
  <2>2. \A f \in Fields : Dsn("jdbc", <<>>, last)[f] = part(f)
    BY PartsAre
  <2>3. Parts(Dsn("jdbc", <<>>, last), cfg) = Keyworded(input, cfg)
    BY <1>7, <2>1, <2>2 DEF Parts, PartOf, Keyworded
  <2>4. Ranged(input, cfg) = Keyworded(input, cfg)
    BY <2>1 DEF Ranged, Keyworded
  <2> QED BY <2>3, <2>4
<1> HIDE DEF url, keywords, authority, solid, aliased
<1>10. /\ ~aliased => Cardinality(url) = 1
       /\ ~aliased /\ solid => url = authority
       /\ solid /\ input # <<>> => keywords = authority
       /\ \A c \in url \cup keywords : c.user # Blank
  <2>1. ~aliased => Cardinality(url) = 1
    BY <1>5, FS_Singleton
  <2> QED BY <1>5, <1>6, <1>8, <1>9, <2>1
<1> QED BY <1>10 DEF DsnFormsAgree, Dsn, Fields, part, url, keywords, authority, solid, aliased

-------------------------------------------------------------------------------

\* For every .env file in every environment, every database URL and every
\* sequence of messages of its server: the settings have one source, the forms of
\* a URL agree, and a connection is ready exactly after a startup in which each
\* SCRAM exchange was in one piece with a server that knew the password, and a
\* password is sent only on request (internal/config, internal/pgdriver).
THEOREM ConnectionsSettle == GrowSpec => []ConnectionsAreSettled
<1>1. ASSUME InputOK PROVE ConnectionsAreSettled
  <2>1. kind = "dotenv" => input \in Seq(Alphabet["dotenv"])
    BY <1>1 DEF InputOK
  <2>2. kind = "dsn" => input \in Seq(Alphabet["dsn"])
    BY <1>1 DEF InputOK
  <2>3. kind = "handshake" => input \in Seq(Message)
    <3> DEFINE A == Alphabet["handshake"]
               Z == Message
    <3>1. A \in SUBSET Z
      BY Connections DEF Message
    <3>2. kind = "handshake" => input \in Seq(A)
      BY <1>1 DEF InputOK
    <3> HIDE DEF A, Z
    <3>3. kind = "handshake" => input \in Seq(Z)
      BY <3>1, <3>2, LargerKind
    <3> QED BY <3>3 DEF Z
  <2>4. SettingsHaveOneSource
    BY <2>1, SettingsOfOneSource DEF SettingsHaveOneSource
  <2>5. DsnFormsAgree
    BY <2>2, FormsOfDsnAgree DEF DsnFormsAgree
  <2>6. HandshakeProvesTheServer
    BY <2>3, HandshakesProveTheServer DEF HandshakeProvesTheServer
  <2> QED BY <2>4, <2>5, <2>6 DEF ConnectionsAreSettled
<1> QED BY <1>1, InputsAreOfAKind, PTL
==============================================================================
