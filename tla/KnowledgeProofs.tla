--------------------------- MODULE KnowledgeProofs ---------------------------
(***************************************************************************)
(* Five components of MCKnowledge for all values of their constants: the   *)
(* bases and their pages (KnowledgeBases), the statistics (UsageStats),    *)
(* the blocks of a Feishu document (Sources), the texts of an index run    *)
(* (Ingest) and the scripts that complete an index (Backfill).             *)
(*                                                                         *)
(* They need facts about sequences and sums of any length.  These are      *)
(* argued from a least counterexample: a non-empty set of numbers has a    *)
(* least element because < is well-founded on Nat.  A recursive definition *)
(* is the function that satisfies its equation, so one is shown to exist   *)
(* (Stepwise) or to be the only one (FlattenStepwise, SumOfTable).         *)
(***************************************************************************)
EXTENDS KnowledgeBases, UsageStats, Sources, Ingest, Backfill, FiniteSetTheorems, SequenceTheorems, TLAPS

-----------------------------------------------------------------------------
(* Sequences, sums and numbers. *)

\* A set of numbers has a least one: how the proofs below go through data.
LEMMA LeastNat ==
    ASSUME NEW T \in SUBSET Nat, T # {}
    PROVE  \E n \in T : \A m \in T : n <= m
<1> DEFINE R == {ss \in Nat \X Nat : ss[1] < ss[2]}
<1>1. IsWellFoundedOn(R, Nat)
  BY NatLessThanWellFounded DEF OpToRel
<1> HIDE DEF R
<1>2. PICK n \in T : \A m \in T : <<m, n>> \notin R
  BY <1>1, WFMin
<1>3. ASSUME NEW m \in T PROVE n <= m
  <2>1. m < n => <<m, n>> \in R
    BY DEF R
  <2> QED
    BY <1>2, <2>1
<1> QED
  BY <1>3

Inductive(T, n) == 0 \in T /\ \A i \in 1..n : i - 1 \in T => i \in T

\* What holds at the start and passes from each number to the next holds up to the end.
LEMMA UpTo ==
    ASSUME NEW n \in Nat, NEW T, Inductive(T, n)
    PROVE  n \in T
<1> SUFFICES \A i \in 0..n : i \in T
  OBVIOUS
<1> DEFINE X == {i \in 0..n : i \notin T}
<1>1. X \in SUBSET Nat /\ \A i : i \in X <=> i \in 0..n /\ i \notin T
  OBVIOUS
<1> SUFFICES ASSUME X # {} PROVE FALSE
  BY <1>1
<1> HIDE DEF X
<1>2. PICK i \in X : \A j \in X : i <= j
  BY <1>1, LeastNat
<1>3. i \in 0..n /\ i \notin T /\ i # 0
  BY <1>1 DEF Inductive
<1>4. i \in 1..n /\ i - 1 \in 0..n /\ ~ (i <= i - 1)
  BY <1>3
<1>5. i - 1 \in T
  BY <1>1, <1>2, <1>4
<1> QED
  BY <1>3, <1>4, <1>5 DEF Inductive

Steps(A, n) == [1..n -> [A -> A]]

Follows(f, a, F, A, n) == f \in [0..n -> A] /\ f[0] = a /\ \A i \in 1..n : f[i] = F[i][f[i - 1]]

\* A value computed step by step from the one before has a function that holds them all.
LEMMA Stepwise ==
    ASSUME NEW A, NEW a \in A, NEW n \in Nat, NEW F \in Steps(A, n)
    PROVE  \E f : Follows(f, a, F, A, n)
<1> DEFINE T == {k \in 0..n : \E f : Follows(f, a, F, A, k)}
<1> USE DEF Steps
<1>1. 0 \in T
  <2> DEFINE f == [i \in 0..0 |-> a]
  <2>1. Follows(f, a, F, A, 0)
    BY DEF Follows
  <2>2. 0 \in 0..n
    OBVIOUS
  <2> HIDE DEF f
  <2> QED
    BY <2>1, <2>2
<1>2. ASSUME NEW k \in 1..n, k - 1 \in T PROVE k \in T
  <2>0. PICK f : Follows(f, a, F, A, k - 1)
    BY <1>2
  <2>1. f \in [0..k - 1 -> A] /\ f[0] = a /\ \A i \in 1..k - 1 : f[i] = F[i][f[i - 1]]
    BY <2>0 DEF Follows
  <2> DEFINE g == [i \in 0..k |-> IF i = k THEN F[k][f[k - 1]] ELSE f[i]]
  <2>2. k - 1 \in 0..k - 1 /\ k \in Nat /\ k # 0
    OBVIOUS
  <2>3. F[k][f[k - 1]] \in A
    BY <2>1, <2>2
  <2>4. g \in [0..k -> A]
    <3>1. \A i \in 0..k : i = k \/ i \in 0..k - 1
      BY <2>2
    <3> QED
      BY <2>1, <2>3, <3>1
  <2>5. g[0] = a
    BY <2>1, <2>2
  <2>6. ASSUME NEW i \in 1..k PROVE g[i] = F[i][g[i - 1]]
    <3>1. g[i - 1] = f[i - 1]
      BY <2>2
    <3>2. i = k \/ i \in 1..k - 1
      BY <2>2
    <3>3. i \in 1..k - 1 => g[i] = f[i] /\ f[i] = F[i][f[i - 1]]
      BY <2>1, <2>2
    <3> QED
      BY <3>1, <3>2, <3>3
  <2> HIDE DEF g
  <2>7. Follows(g, a, F, A, k)
    BY <2>4, <2>5, <2>6 DEF Follows
  <2>8. k \in 0..n
    BY <2>2
  <2> QED
    BY <2>7, <2>8
<1> HIDE DEF T
<1>3. n \in T
  <2>1. Inductive(T, n)
    BY <1>1, <1>2 DEF Inductive
  <2> QED
    BY <2>1, UpTo
<1> QED
  BY <1>3 DEF T

\* A sequence without repetitions is as long as the set it lists.
LEMMA LengthOfListed ==
    ASSUME NEW S, NEW s \in Seq(S), \A i, j \in DOMAIN s : s[i] = s[j] => i = j
    PROVE  Len(s) = Cardinality(ToSet(s))
<1>1. Len(s) \in Nat /\ DOMAIN s = 1..Len(s) /\ 1 \in Int /\ Len(s) \in Int
  OBVIOUS
<1>2. IsFiniteSet(1..Len(s)) /\ Cardinality(1..Len(s)) = Len(s)
  BY <1>1, FS_Interval
<1>3. s \in [1..Len(s) -> ToSet(s)]
  BY <1>1 DEF ToSet
<1>4. s \in Surjection(1..Len(s), ToSet(s)) /\ s \in Injection(1..Len(s), ToSet(s))
  BY <1>1, <1>3 DEF Surjection, Injection, IsInjective, ToSet
<1> QED
  BY <1>2, <1>4, FS_Surjection

\* What Append adds.
LEMMA Appended ==
    ASSUME NEW S, NEW s \in Seq(S), NEW x \in S
    PROVE  /\ Append(s, x) \in Seq(S) /\ ToSet(Append(s, x)) = ToSet(s) \cup {x}
           /\ x \notin ToSet(s) /\ (\A i, j \in DOMAIN s : s[i] = s[j] => i = j) =>
                \A i, j \in DOMAIN Append(s, x) : Append(s, x)[i] = Append(s, x)[j] => i = j
<1> DEFINE t == Append(s, x)
<1>1. t \in Seq(S) /\ Len(t) = Len(s) + 1 /\ Len(s) \in Nat
      /\ DOMAIN s = 1..Len(s) /\ DOMAIN t = 1..Len(s) + 1
      /\ (\A i \in 1..Len(s) : t[i] = s[i])
      /\ t[Len(s) + 1] = x
  OBVIOUS
<1> HIDE DEF t
<1>2. \A i \in DOMAIN t : i \in DOMAIN s \/ i = Len(s) + 1
  BY <1>1
<1>3. DOMAIN s \subseteq DOMAIN t /\ Len(s) + 1 \in DOMAIN t
  BY <1>1
<1>4. ToSet(t) = ToSet(s) \cup {x}
  <2>1. ASSUME NEW y \in ToSet(t) PROVE y \in ToSet(s) \cup {x}
    <3>1. PICK i \in DOMAIN t : y = t[i]
      BY DEF ToSet
    <3>2. i \in DOMAIN s => t[i] = s[i] /\ s[i] \in ToSet(s)
      BY <1>1 DEF ToSet
    <3> QED
      BY <1>1, <1>2, <3>1, <3>2
  <2>2. \A y \in ToSet(s) : y \in ToSet(t)
    <3>1. \A i \in DOMAIN s : t[i] = s[i] /\ i \in DOMAIN t
      BY <1>1, <1>3
    <3> QED
      BY <3>1 DEF ToSet
  <2>3. x \in ToSet(t)
    <3>1. t[Len(s) + 1] \in ToSet(t)
      BY <1>3 DEF ToSet
    <3> QED
      BY <1>1, <3>1
  <2> QED
    BY <2>1, <2>2, <2>3
<1>5. ASSUME x \notin ToSet(s), \A i, j \in DOMAIN s : s[i] = s[j] => i = j,
             NEW i \in DOMAIN t, NEW j \in DOMAIN t, t[i] = t[j]
      PROVE  i = j
  <2>1. \A k \in DOMAIN s : s[k] # x
    BY <1>5 DEF ToSet
  <2> QED
    BY <1>1, <1>2, <1>5, <2>1
<1> QED
  BY <1>1, <1>4, <1>5 DEF t

\* A sequence holds its first element and the rest.
LEMMA HeadAndRest ==
    ASSUME NEW S, NEW s \in Seq(S), s # <<>>
    PROVE  Head(s) \in S /\ Tail(s) \in Seq(S) /\ ToSet(s) = {Head(s)} \cup ToSet(Tail(s))
<1> DEFINE t == Tail(s)
           h == Head(s)
<1>1. /\ Len(s) \in Nat \ {0} /\ DOMAIN s = 1..Len(s) /\ h = s[1] /\ h \in S
      /\ t \in Seq(S) /\ DOMAIN t = 1..Len(s) - 1
      /\ \A i \in 1..Len(s) - 1 : t[i] = s[i + 1]
  OBVIOUS
<1> HIDE DEF t, h
<1>2. ASSUME NEW y \in ToSet(s) PROVE y \in {h} \cup ToSet(t)
  <2>1. PICK i \in DOMAIN s : y = s[i]
    BY DEF ToSet
  <2>2. i = 1 \/ (i - 1 \in DOMAIN t /\ t[i - 1] = s[i])
    BY <1>1
  <2> QED
    BY <1>1, <2>1, <2>2 DEF ToSet
<1>3. ASSUME NEW y \in ToSet(t) PROVE y \in ToSet(s)
  <2>1. PICK i \in DOMAIN t : y = t[i]
    BY DEF ToSet
  <2>2. i + 1 \in DOMAIN s /\ t[i] = s[i + 1]
    BY <1>1
  <2> QED
    BY <2>1, <2>2 DEF ToSet
<1>4. h \in ToSet(s)
  <2>1. 1 \in DOMAIN s
    BY <1>1
  <2> QED
    BY <1>1, <2>1 DEF ToSet
<1> QED
  BY <1>1, <1>2, <1>3, <1>4 DEF t, h

\* Two sequences one after the other hold what they hold.
LEMMA JoinedSets ==
    ASSUME NEW S, NEW s \in Seq(S), NEW t \in Seq(S)
    PROVE  s \o t \in Seq(S) /\ ToSet(s \o t) = ToSet(s) \cup ToSet(t)
<1> DEFINE u == s \o t
<1>1. /\ u \in Seq(S) /\ Len(s) \in Nat /\ Len(t) \in Nat
      /\ DOMAIN u = 1..Len(s) + Len(t) /\ DOMAIN s = 1..Len(s) /\ DOMAIN t = 1..Len(t)
      /\ \A i \in 1..Len(s) + Len(t) : u[i] = IF i <= Len(s) THEN s[i] ELSE t[i - Len(s)]
  OBVIOUS
<1> HIDE DEF u
<1>2. ASSUME NEW y \in ToSet(u) PROVE y \in ToSet(s) \cup ToSet(t)
  <2>1. PICK i \in DOMAIN u : y = u[i]
    BY DEF ToSet
  <2>2. (i \in DOMAIN s /\ u[i] = s[i]) \/ (i - Len(s) \in DOMAIN t /\ u[i] = t[i - Len(s)])
    BY <1>1
  <2> QED
    BY <2>1, <2>2 DEF ToSet
<1>3. ASSUME NEW y \in ToSet(s) PROVE y \in ToSet(u)
  <2>1. PICK i \in DOMAIN s : y = s[i]
    BY DEF ToSet
  <2>2. i \in DOMAIN u /\ u[i] = s[i]
    BY <1>1
  <2> QED
    BY <2>1, <2>2 DEF ToSet
<1>4. ASSUME NEW y \in ToSet(t) PROVE y \in ToSet(u)
  <2>1. PICK i \in DOMAIN t : y = t[i]
    BY DEF ToSet
  <2>2. Len(s) + i \in DOMAIN u /\ u[Len(s) + i] = t[i]
    BY <1>1
  <2> QED
    BY <2>1, <2>2 DEF ToSet
<1> QED
  BY <1>1, <1>2, <1>3, <1>4 DEF u

Values(S, n) == [1..n -> S]

Chosen(v, K, n) == {v[j] : j \in 1..n \cap K}

\* Values numbered from 1 are a sequence.
LEMMA ValuesAreListed ==
    ASSUME NEW S, NEW n \in Nat, NEW v \in Values(S, n)
    PROVE  v \in Seq(S) /\ Len(v) = n
<1>1. v \in [1..n -> S] /\ DOMAIN v = 1..n
  BY DEF Values
<1>2. v \in Seq(S)
  BY <1>1, SeqDef
<1> QED
  BY <1>1, <1>2

\* What a sequence put behind another one holds where.
LEMMA PutBehind ==
    ASSUME NEW S, NEW s \in Seq(S), NEW t \in Seq(S)
    PROVE  /\ s \o t \in Seq(S) /\ Len(s \o t) = Len(s) + Len(t)
           /\ DOMAIN (s \o t) = 1..Len(s) + Len(t)
           /\ \A i \in 1..Len(s) + Len(t) :
                 (s \o t)[i] = IF i <= Len(s) THEN s[i] ELSE t[i - Len(s)]
OBVIOUS

\* f gathers, from the first to the last, the values whose numbers are in K.
Gathers(f, v, K, n) ==
    /\ f = [i \in 0..n |-> f[i]]
    /\ f[0] = <<>>
    /\ \A i \in 1..n : f[i] = IF i \in K THEN Append(f[i - 1], v[i]) ELSE f[i - 1]

\* There is such a function.
LEMMA SomethingGathers ==
    ASSUME NEW n \in Nat, NEW S, NEW v \in Values(S, n), NEW K
    PROVE  \E f : Gathers(f, v, K, n)
<1> USE DEF Values
<1> DEFINE A == Seq(S)
           Body(i, t) == IF i \in K THEN Append(t, v[i]) ELSE t
           F == [i \in 1..n |-> [t \in A |-> Body(i, t)]]
<1>1. \A i \in 1..n, t \in A : Body(i, t) \in A
  OBVIOUS
<1>2. <<>> \in A
  OBVIOUS
<1>3. F \in Steps(A, n)
  BY <1>1 DEF Steps
<1>4. \A i \in 1..n, t \in A : F[i][t] = Body(i, t)
  OBVIOUS
<1> HIDE DEF F, A
<1>5. PICK f : Follows(f, <<>>, F, A, n)
  BY <1>2, <1>3, Stepwise
<1>6. f \in [0..n -> A] /\ f[0] = <<>> /\ \A i \in 1..n : f[i] = F[i][f[i - 1]]
  BY <1>5 DEF Follows
<1>7. ASSUME NEW i \in 1..n PROVE f[i] = Body(i, f[i - 1])
  <2>1. i - 1 \in 0..n
    OBVIOUS
  <2> QED
    BY <1>4, <1>6, <2>1
<1>8. Gathers(f, v, K, n)
  BY <1>6, <1>7 DEF Gathers
<1> QED
  BY <1>8

\* It gathers those values and no others.
LEMMA GathersThose ==
    ASSUME NEW n \in Nat, NEW S, NEW v \in Values(S, n), NEW K, NEW f, Gathers(f, v, K, n)
    PROVE  f[n] \in Seq(S) /\ ToSet(f[n]) = Chosen(v, K, n)
<1> USE DEF Values
<1> DEFINE A == Seq(S)
           T == {i \in 0..n : f[i] \in A /\ ToSet(f[i]) = {v[j] : j \in 1..i \cap K}}
<1>1. f[0] = <<>> /\ \A i \in 1..n : f[i] = IF i \in K THEN Append(f[i - 1], v[i]) ELSE f[i - 1]
  BY DEF Gathers
<1>2. 0 \in T
  <2>1. <<>> \in A /\ ToSet(<<>>) = {} /\ {v[j] : j \in 1..0 \cap K} = {} /\ 0 \in 0..n
    BY DEF ToSet
  <2> QED
    BY <1>1, <2>1
<1>3. ASSUME NEW i \in 1..n, i - 1 \in T PROVE i \in T
  <2> DEFINE t == f[i - 1]
  <2>1. t \in A /\ ToSet(t) = {v[j] : j \in 1..i - 1 \cap K}
    BY <1>3
  <2>2. v[i] \in S /\ i \in 0..n
    OBVIOUS
  <2>3. f[i] = IF i \in K THEN Append(t, v[i]) ELSE t
    BY <1>1
  <2>4. {v[j] : j \in 1..i \cap K} =
          IF i \in K THEN {v[j] : j \in 1..i - 1 \cap K} \cup {v[i]}
          ELSE {v[j] : j \in 1..i - 1 \cap K}
    <3>1. 1..i = 1..i - 1 \cup {i}
      OBVIOUS
    <3> QED
      BY <3>1
  <2> HIDE DEF t
  <2>5. Append(t, v[i]) \in A /\ ToSet(Append(t, v[i])) = ToSet(t) \cup {v[i]}
    BY <2>1, <2>2, Appended
  <2>6. f[i] \in A
    BY <2>1, <2>3, <2>5
  <2>7. ToSet(f[i]) = {v[j] : j \in 1..i \cap K}
    <3>1. CASE i \in K
      BY <2>1, <2>3, <2>4, <2>5, <3>1
    <3>2. CASE i \notin K
      BY <2>1, <2>3, <2>4, <3>2
    <3> QED
      BY <3>1, <3>2
  <2> QED
    BY <2>2, <2>6, <2>7
<1> HIDE DEF T
<1>4. Inductive(T, n)
  BY <1>2, <1>3 DEF Inductive
<1>5. n \in T
  BY <1>4, UpTo
<1> QED
  BY <1>5 DEF T, Chosen

Accumulates(g, seqs, m) ==
    \A i \in 1..m : g[i] = IF i = 1 THEN seqs[i] ELSE g[i - 1] \o seqs[i]

\* FlattenSeq of m sequences is what adding them one after the other gives.
LEMMA FlattenStepwise ==
    ASSUME NEW seqs, NEW m \in Nat \ {0}, Len(seqs) = m, NEW X, NEW g \in [1..m -> X],
           Accumulates(g, seqs, m)
    PROVE  FlattenSeq(seqs) = g[m]
<1>0. \A i \in 1..m : g[i] = IF i = 1 THEN seqs[i] ELSE g[i - 1] \o seqs[i]
  BY DEF Accumulates
<1> DEFINE Step(f) == f = [i \in 1..m |-> IF i = 1 THEN seqs[i] ELSE f[i - 1] \o seqs[i]]
           h == CHOOSE f : Step(f)
           T == {i \in 1..m : h[i] # g[i]}
<1>1. FlattenSeq(seqs) = h[m]
  BY DEF FlattenSeq
<1>2. Step(h)
  <2>1. Step(g)
    BY <1>0
  <2> HIDE DEF Step
  <2> QED
    BY <2>1
<1> HIDE DEF h
<1>3. \A i \in 1..m : h[i] = IF i = 1 THEN seqs[i] ELSE h[i - 1] \o seqs[i]
  BY <1>2
<1> HIDE DEF Step
<1>4. T \in SUBSET Nat /\ \A i : i \in T <=> i \in 1..m /\ h[i] # g[i]
  OBVIOUS
<1> HIDE DEF T
<1>5. T = {}
  <2> SUFFICES ASSUME T # {} PROVE FALSE
    OBVIOUS
  <2>1. PICK i \in T : \A j \in T : i <= j
    BY <1>4, LeastNat
  <2>2. i \in 1..m /\ h[i] # g[i]
    BY <1>4
  <2>3. i # 1
    BY <1>0, <1>3, <2>2
  <2>4. i - 1 \in 1..m /\ ~ (i <= i - 1)
    BY <2>2, <2>3
  <2>5. h[i - 1] = g[i - 1]
    BY <1>4, <2>1, <2>4
  <2> QED
    BY <1>0, <1>3, <2>2, <2>3, <2>5
<1>6. m \in 1..m
  OBVIOUS
<1> QED
  BY <1>1, <1>4, <1>5, <1>6

\* A quotient of numbers is a number.
LEMMA Quotient == \A a \in Nat, b \in Nat \ {0} : a \div b \in Nat
OBVIOUS

\* A product of natural numbers is one.
LEMMA ProductOfNats == \A a, b \in Nat : a * b \in Nat
OBVIOUS

\* FlattenSeq of sequences is a sequence.
LEMMA FlattenType ==
    ASSUME NEW X, NEW n \in Nat, NEW q \in [1..n -> Seq(X)]
    PROVE  FlattenSeq(q) \in Seq(X)
<1>1. Len(q) = n
  OBVIOUS
<1>2. CASE n = 0
  <2>1. q \in [1..0 -> X]
    BY <1>2
  <2>2. FlattenSeq(q) = q
    BY <1>1, <1>2 DEF FlattenSeq
  <2> QED
    BY <2>1, <2>2, SeqDef
<1>3. CASE n # 0
  <2> DEFINE A == Seq(X)
             Body(i, t) == IF i = 1 THEN q[i] ELSE t \o q[i]
             F == [i \in 1..n |-> [t \in A |-> Body(i, t)]]
  <2>1. \A i \in 1..n, t \in A : Body(i, t) \in A
    OBVIOUS
  <2>2. <<>> \in A
    OBVIOUS
  <2>3. F \in Steps(A, n)
    BY <2>1 DEF Steps
  <2>4. \A i \in 1..n, t \in A : F[i][t] = Body(i, t)
    OBVIOUS
  <2> HIDE DEF F, A
  <2>5. PICK f : Follows(f, <<>>, F, A, n)
    BY <2>2, <2>3, Stepwise
  <2>6. f \in [0..n -> A] /\ \A i \in 1..n : f[i] = F[i][f[i - 1]]
    BY <2>5 DEF Follows
  <2> DEFINE g == [i \in 1..n |-> f[i]]
  <2>7. g \in [1..n -> A]
    BY <2>6
  <2>8. ASSUME NEW i \in 1..n PROVE g[i] = IF i = 1 THEN q[i] ELSE g[i - 1] \o q[i]
    <3>1. i - 1 \in 0..n
      OBVIOUS
    <3>2. f[i] = Body(i, f[i - 1])
      BY <2>4, <2>6, <3>1
    <3>3. i # 1 => i - 1 \in 1..n
      OBVIOUS
    <3> QED
      BY <3>2, <3>3
  <2> HIDE DEF g
  <2>9. Accumulates(g, q, n)
    BY <2>8 DEF Accumulates
  <2>10. FlattenSeq(q) = g[n] /\ n \in 1..n
    <3>1. n \in Nat \ {0} /\ n \in 1..n
      BY <1>3
    <3> QED
      BY <1>1, <2>7, <2>9, <3>1, FlattenStepwise
  <2> QED
    BY <2>7, <2>10 DEF A
<1> QED
  BY <1>2, <1>3

\* Cutting a sequence in pages that reach its end loses and repeats nothing.
LEMMA PagesOfOne ==
    ASSUME NEW S, NEW s \in Seq(S), NEW size \in Nat \ {0}, NEW m \in Nat \ {0},
           Len(s) <= m * size
    PROVE  FlattenSeq([p \in 1..m |-> PageOf(s, p, size)]) = s
<1> DEFINE n == Len(s)
           End(i) == IF i * size < n THEN i * size ELSE n
           seqs == [p \in 1..m |-> PageOf(s, p, size)]
           g == [i \in 1..m |-> SubSeq(s, 1, End(i))]
<1>1. n \in Nat /\ \A i \in Nat : i * size \in Nat /\ (i + 1) * size = i * size + size
  OBVIOUS
<1>2. \A i \in 1..m : seqs[i] = SubSeq(s, (i - 1) * size + 1, End(i))
  BY DEF PageOf
<1>3. Len(seqs) = m
  <2>1. \A i \in 1..m : seqs[i] \in {seqs[j] : j \in 1..m}
    OBVIOUS
  <2>2. seqs \in [1..m -> {seqs[j] : j \in 1..m}]
    OBVIOUS
  <2> HIDE DEF seqs
  <2> QED
    BY <2>2
<1> HIDE DEF seqs
<1>4. ASSUME NEW i \in 1..m, i # 1
      PROVE  g[i] = g[i - 1] \o seqs[i]
  <2> DEFINE a == (i - 1) * size
  <2>1. a \in Nat /\ i * size = a + size /\ i - 1 \in 1..m
    BY <1>4
  <2> HIDE DEF a
  <2>2. CASE a <= n
    <3>1. End(i - 1) = a
      BY <1>1, <2>1, <2>2 DEF a
    <3>2. End(i) \in a..n
      BY <1>1, <2>1, <2>2
    <3>3. g[i - 1] = SubSeq(s, 1, a)
      BY <2>1, <3>1
    <3>4. seqs[i] = SubSeq(s, a + 1, End(i))
      BY <1>2 DEF a
    <3>5. SubSeq(s, 1, a) \o SubSeq(s, a + 1, End(i)) = SubSeq(s, 1, End(i))
      <4> HIDE DEF End
      <4>1. 1 \in 1..Len(s) + 1 /\ a \in 1 - 1..Len(s) /\ End(i) \in a..Len(s)
        BY <1>1, <2>1, <2>2, <3>2
      <4> QED
        BY <4>1, ConcatAdjacentSubSeq
    <3> QED
      BY <3>3, <3>4, <3>5
  <2>3. CASE a > n
    <3>1. End(i - 1) = n /\ End(i) = n
      BY <1>1, <2>1, <2>3 DEF a
    <3>2. seqs[i] = << >>
      <4>1. seqs[i] = SubSeq(s, a + 1, n)
        BY <1>2, <3>1 DEF a
      <4> QED
        BY <1>1, <2>1, <2>3, <4>1, SubSeqEmpty
    <3>3. g[i - 1] = s /\ g[i] = s
      BY <2>1, <3>1, SubSeqFull
    <3> QED
      BY <3>2, <3>3, ConcatEmptySeq
  <2>4. a <= n \/ a > n
    BY <1>1, <2>1
  <2> QED
    BY <2>2, <2>3, <2>4
<1>5. g[1] = seqs[1]
  <2>1. (1 - 1) * size + 1 = 1 /\ 1 \in 1..m
    OBVIOUS
  <2>2. seqs[1] = SubSeq(s, 1, End(1)) /\ g[1] = SubSeq(s, 1, End(1))
    BY <1>2, <2>1
  <2> QED
    BY <2>2
<1>6. End(m) = n
  BY <1>1
<1>7. g[m] = s
  BY <1>6, SubSeqFull
<1> DEFINE X == {SubSeq(s, 1, End(i)) : i \in 1..m}
<1>8. g \in [1..m -> X]
  OBVIOUS
<1> HIDE DEF g, X
<1>9. FlattenSeq(seqs) = g[m]
  <2>1. Accumulates(g, seqs, m)
    BY <1>4, <1>5 DEF Accumulates
  <2> HIDE DEF End, n
  <2> QED
    BY <1>3, <1>8, <2>1, FlattenStepwise
<1> QED
  BY <1>7, <1>9 DEF seqs

\* A list of all elements of a finite set without repetition holds all of them.
LEMMA ListsAll ==
    ASSUME NEW L, IsFiniteSet(L), NEW s \in SetToSeqs(L)
    PROVE  \A x \in L : \E i \in 1..Cardinality(L) : s[i] = x
<1> DEFINE n == Cardinality(L)
<1>1. n \in Nat
  BY FS_CardinalityType
<1>2. s \in [1..n -> L] /\ \A i, j \in 1..n : i # j => s[i] # s[j]
  BY DEF SetToSeqs
<1>3. IsFiniteSet(1..n) /\ Cardinality(1..n) = n
  BY <1>1, FS_Interval
<1> HIDE DEF n
<1>4. s \in Injection(1..n, L)
  BY <1>2 DEF Injection, IsInjective
<1>5. s \in Surjection(1..n, L)
  BY <1>3, <1>4, FS_Injection DEF n
<1> QED
  BY <1>5 DEF Surjection, n

\* Two functions that agree at every argument are one.
LEMMA SameValues ==
    ASSUME NEW D, NEW L, NEW s \in [D -> L], NEW t \in [D -> L], \A i \in D : s[i] = t[i]
    PROVE  s = t
OBVIOUS

\* There is one way to put a finite set in a given strict order.
LEMMA OneOrder ==
    ASSUME NEW L, IsFiniteSet(L), NEW R, NEW s \in SetToSeqs(L), NEW t \in SetToSeqs(L),
           \A x, y \in L : <<x, y>> \in R /\ <<y, x>> \in R => x = y,
           \A i, j \in DOMAIN s : i < j => <<s[i], s[j]>> \in R,
           \A i, j \in DOMAIN t : i < j => <<t[i], t[j]>> \in R
    PROVE  s = t
<1> DEFINE n == Cardinality(L)
           T == {i \in 1..n : s[i] # t[i]}
<1>1. n \in Nat
  BY FS_CardinalityType
<1>2. s \in [1..n -> L] /\ t \in [1..n -> L]
  BY DEF SetToSeqs
<1>3. \A x \in L : (\E i \in 1..n : s[i] = x) /\ (\E i \in 1..n : t[i] = x)
  BY ListsAll
<1> HIDE DEF n
<1>4. T \in SUBSET Nat /\ \A i : i \in T <=> i \in 1..n /\ s[i] # t[i]
  BY <1>1
<1> HIDE DEF T
<1>5. T = {}
  <2> SUFFICES ASSUME T # {} PROVE FALSE
    OBVIOUS
  <2>1. PICK i \in T : \A j \in T : i <= j
    BY <1>4, LeastNat
  <2>2. i \in 1..n /\ s[i] # t[i] /\ s[i] \in L /\ t[i] \in L
    BY <1>2, <1>4
  <2>3. \A j \in 1..n : j < i => s[j] = t[j]
    BY <1>1, <1>4, <2>1, <2>2
  <2>4. PICK j \in 1..n : t[j] = s[i]
    BY <1>3, <2>2
  <2>5. PICK k \in 1..n : s[k] = t[i]
    BY <1>3, <2>2
  <2>6. i < j /\ i < k
    <3>1. \A a, b \in 1..n : a # b => s[a] # s[b] /\ t[a] # t[b]
      BY <1>2 DEF SetToSeqs, n
    <3>2. j # i /\ k # i
      BY <2>2, <2>4, <2>5
    <3>3. ~ (j < i) /\ ~ (k < i)
      BY <2>2, <2>3, <2>4, <2>5, <3>1, <3>2
    <3> QED
      BY <1>1, <2>2, <2>4, <2>5, <3>2, <3>3
  <2>7. <<t[i], s[i]>> \in R /\ <<s[i], t[i]>> \in R
    BY <1>2, <2>2, <2>4, <2>5, <2>6
  <2> QED
    BY <2>2, <2>7
<1> QED
  <2>1. \A i \in 1..n : s[i] = t[i]
    BY <1>4, <1>5
  <2> DEFINE D == 1..n
  <2>2. s \in [D -> L] /\ t \in [D -> L] /\ \A i \in D : s[i] = t[i]
    BY <1>2, <2>1
  <2> HIDE DEF D
  <2> QED
    BY <2>2, SameValues

\* The pages a list is divided in reach its end.
LEMMA PagesSuffice ==
    ASSUME NEW n \in Nat, NEW size \in Nat \ {0}
    PROVE  PageCount(n, size) \in Nat \ {0} /\ n <= PageCount(n, size) * size
<1>1. CASE n = 0
  BY <1>1 DEF PageCount
<1>2. CASE n # 0
  <2> DEFINE a == n + size - 1
             m == a \div size
  <2>1. a \in Nat /\ a >= size
    BY <1>2
  <2>2. m \in Nat /\ m * size <= a /\ a < (m + 1) * size
    OBVIOUS
  <2>3. (m + 1) * size = m * size + size /\ m * size \in Nat
    BY <2>2
  <2> HIDE DEF m
  <2>4. m # 0 /\ n <= m * size
    BY <2>1, <2>2, <2>3
  <2> QED
    BY <1>2, <2>2, <2>4 DEF PageCount, m
<1> QED
  BY <1>1, <1>2

\* h adds up counts over every part of its domain, one chosen element at a time.
SumsUp(h, counts) ==
    \A s \in SUBSET DOMAIN counts :
        h[s] = IF s = {} THEN 0
               ELSE counts[CHOOSE x \in s : TRUE] + h[s \ {CHOOSE x \in s : TRUE}]

\* The sum over a finite table is the one function that adds up its entries.
LEMMA SumOfTable ==
    ASSUME NEW D, IsFiniteSet(D), NEW counts, DOMAIN counts = D,
           NEW X, NEW h \in [SUBSET D -> X], SumsUp(h, counts)
    PROVE  QueryTotal(counts) = h[D]
<1> DEFINE Step(f) ==
             f = [s \in SUBSET D |->
                    IF s = {} THEN 0
                    ELSE counts[CHOOSE x \in s : TRUE] + f[s \ {CHOOSE x \in s : TRUE}]]
           g == CHOOSE f : Step(f)
           Wrong == {s \in SUBSET D : g[s] # h[s]}
           T == {Cardinality(s) : s \in Wrong}
<1>1. QueryTotal(counts) = g[D]
  BY DEF QueryTotal, MapThenSumSet, MapThenFoldSet
<1>2. Step(g)
  <2>1. Step(h)
    <3>1. \A s \in SUBSET D :
            h[s] = IF s = {} THEN 0
                   ELSE counts[CHOOSE x \in s : TRUE] + h[s \ {CHOOSE x \in s : TRUE}]
      BY DEF SumsUp
    <3> QED
      BY <3>1
  <2> HIDE DEF Step
  <2> QED
    BY <2>1
<1>3. \A s \in SUBSET D : IsFiniteSet(s) /\ Cardinality(s) \in Nat
  BY FS_Subset, FS_CardinalityType
<1>4. \A s \in SUBSET D :
         g[s] = IF s = {} THEN 0
                ELSE counts[CHOOSE x \in s : TRUE] + g[s \ {CHOOSE x \in s : TRUE}]
  BY <1>2
<1> HIDE DEF g
<1>5. Wrong = {}
  <2> SUFFICES ASSUME Wrong # {} PROVE FALSE
    OBVIOUS
  <2>1. T \in SUBSET Nat /\ T # {}
    BY <1>3
  <2>2. PICK n \in T : \A m \in T : n <= m
    BY <2>1, LeastNat
  <2>3. PICK s \in Wrong : \A t \in Wrong : Cardinality(s) <= Cardinality(t)
    BY <2>2
  <2>4. s \in SUBSET D /\ g[s] # h[s]
    OBVIOUS
  <2>5. s # {}
    BY <1>4, <2>4 DEF SumsUp
  <2> DEFINE c == CHOOSE x \in s : TRUE
             t == s \ {c}
  <2>6. c \in s
    BY <2>5
  <2>7. g[s] = counts[c] + g[t] /\ h[s] = counts[c] + h[t]
    BY <1>4, <2>4, <2>5 DEF SumsUp
  <2> HIDE DEF c
  <2>8. t \in SUBSET D /\ Cardinality(t) = Cardinality(s) - 1
    BY <1>3, <2>4, <2>6, FS_RemoveElement
  <2>9. ~ (Cardinality(s) <= Cardinality(t))
    BY <1>3, <2>4, <2>8
  <2>10. g[t] = h[t]
    BY <2>3, <2>8, <2>9
  <2> QED
    BY <2>4, <2>7, <2>10
<1> QED
  BY <1>1, <1>5

\* Counting the rows of each day and adding up counts every row once.
LEMMA CountedByDay ==
    ASSUME NEW R, IsFiniteSet(R), NEW day, NEW D, IsFiniteSet(D), \A r \in R : day[r] \in D
    PROVE  QueryTotal([d \in D |-> Cardinality({r \in R : day[r] = d})]) = Cardinality(R)
<1> DEFINE counts == [d \in D |-> Cardinality({r \in R : day[r] = d})]
           On(s) == {r \in R : day[r] \in s}
           h == [s \in SUBSET D |-> Cardinality(On(s))]
           X == {Cardinality(On(s)) : s \in SUBSET D}
<1>1. \A s \in SUBSET D : IsFiniteSet(On(s)) /\ Cardinality(On(s)) \in Nat
  BY FS_Subset, FS_CardinalityType
<1>2. ASSUME NEW s \in SUBSET D, s # {}, NEW x \in s
      PROVE  h[s] = counts[x] + h[s \ {x}]
  <2>1. On(s) = On({x}) \cup On(s \ {x}) /\ On({x}) \cap On(s \ {x}) = {}
    BY <1>2
  <2>2. {r \in R : day[r] = x} = On({x})
    OBVIOUS
  <2>3. {x} \in SUBSET D /\ s \ {x} \in SUBSET D /\ x \in D
    BY <1>2
  <2>4. IsFiniteSet(On({x})) /\ IsFiniteSet(On(s \ {x}))
        /\ Cardinality(On({x})) \in Nat /\ Cardinality(On(s \ {x})) \in Nat
    BY <1>1, <2>3
  <2>5. counts[x] = Cardinality(On({x})) /\ h[s \ {x}] = Cardinality(On(s \ {x}))
        /\ h[s] = Cardinality(On(s))
    BY <2>2, <2>3
  <2> HIDE DEF On, counts, h
  <2>6. Cardinality(On(s)) = Cardinality(On({x})) + Cardinality(On(s \ {x})) - Cardinality({})
    BY <2>1, <2>4, FS_Union
  <2> QED
    BY <2>4, <2>5, <2>6, FS_EmptySet
<1>3. h[{}] = 0
  <2>1. On({}) = {}
    OBVIOUS
  <2> QED
    BY <2>1, FS_EmptySet
<1>4. h \in [SUBSET D -> X] /\ DOMAIN counts = D
  OBVIOUS
<1>5. h[D] = Cardinality(R)
  <2>1. On(D) = R
    OBVIOUS
  <2> QED
    BY <2>1
<1> HIDE DEF counts, h, On
<1>6. SumsUp(h, counts)
  <2>1. ASSUME NEW s \in SUBSET D, s # {}
        PROVE  h[s] = counts[CHOOSE x \in s : TRUE] + h[s \ {CHOOSE x \in s : TRUE}]
    <3>1. (CHOOSE x \in s : TRUE) \in s
      BY <2>1
    <3> QED
      BY <1>2, <2>1, <3>1
  <2> QED
    BY <1>3, <1>4, <2>1 DEF SumsUp
<1> HIDE DEF X
<1>7. QueryTotal(counts) = h[D]
  BY <1>4, <1>6, SumOfTable
<1> QED
  BY <1>5, <1>7 DEF counts

-----------------------------------------------------------------------------
(* Bases: deletion, objects, permissions, lists. *)

FilePlaces == {"new", "admitted", "put", "row", "rejected", "deleted", "cascaded"}

\* created counts the rows inserted before.
Moments == {0} \cup {1 + Cardinality(S) : S \in SUBSET Files}

FileType ==
    [at : FilePlaces, base : Bases \cup {"none"}, status : {"pending", "indexing", "ready", "failed"},
     created : Moments, raced : BOOLEAN, stuck : BOOLEAN]

RemovalType ==
    [at : {"idle", "loaded", "refused", "done"}, docs : SUBSET Files, talks : SUBSET Talks,
     met : BOOLEAN]

KbTypes ==
    /\ file \in [Files -> FileType]
    /\ removal \in [Bases -> RemovalType]

\* A document that a deletion under way has not loaded came after it looked.
LateRowsRaced ==
    \A b \in Bases, f \in Files :
        /\ removal[b].at = "loaded"
        /\ file[f].at = "row" /\ file[f].base = b
        /\ f \notin removal[b].docs
        => file[f].raced

KbInv == KbTypes /\ LateRowsRaced /\ DeletionSparesDocuments

-----------------------------------------------------------------------------

\* No document, no deletion.
LEMMA KbInitInv == KnowledgeBasesInit => KbInv
  BY DEF KnowledgeBasesInit, KbInv, KbTypes, FileType, RemovalType, FilePlaces, Moments,
         LateRowsRaced, DeletionSparesDocuments

\* A file that changes only in fields that do not count here, or leaves the rows.
LEMMA FileStep ==
    ASSUME KbInv, NEW g \in Files, NEW r \in FileType,
           file' = [file EXCEPT ![g] = r],
           removal' = removal,
           r.at \notin {"row", "cascaded"} \/ (r.at = "row" /\ file[g].at = "row"
                                              /\ r.base = file[g].base /\ r.raced = file[g].raced)
    PROVE  KbInv'
<1>1. KbTypes'
  BY DEF KbInv, KbTypes
<1>2. LateRowsRaced'
  BY DEF KbInv, KbTypes, LateRowsRaced, FileType
<1>3. DeletionSparesDocuments'
  BY DEF KbInv, KbTypes, DeletionSparesDocuments, FileType
<1> QED
  BY <1>1, <1>2, <1>3 DEF KbInv

\* A deletion that was only met by something, or that is refused.
LEMMA RemovalStep ==
    ASSUME KbInv, NEW b \in Bases, NEW r \in RemovalType,
           removal' = [removal EXCEPT ![b] = r],
           file' = file,
           r.at # "loaded" \/ (removal[b].at = "loaded" /\ r.docs = removal[b].docs)
    PROVE  KbInv'
<1>1. KbTypes'
  BY DEF KbInv, KbTypes
<1>2. LateRowsRaced'
  BY DEF KbInv, KbTypes, LateRowsRaced, RemovalType
<1>3. DeletionSparesDocuments'
  BY DEF KbInv, DeletionSparesDocuments
<1> QED
  BY <1>1, <1>2, <1>3 DEF KbInv

\* A discarded file is no row any more.
LEMMA DiscardStep ==
    ASSUME KbInv, NEW g \in Files, NEW at \in {"rejected", "deleted"}, Discard(g, at),
           removal' = removal
    PROVE  KbInv'
<1>1. CASE file' = [file EXCEPT ![g].at = at]
  <2> DEFINE r == [file[g] EXCEPT !.at = at]
  <2>1. r \in FileType /\ r.at \notin {"row", "cascaded"}
    BY DEF KbInv, KbTypes, FileType, FilePlaces
  <2>2. file' = [file EXCEPT ![g] = r]
    BY <1>1
  <2> HIDE DEF r
  <2> QED
    BY <2>1, <2>2, FileStep
<1>2. CASE file' = [file EXCEPT ![g].at = at, ![g].stuck = TRUE]
  <2> DEFINE r == [file[g] EXCEPT !.at = at, !.stuck = TRUE]
  <2>1. r \in FileType /\ r.at \notin {"row", "cascaded"}
    BY DEF KbInv, KbTypes, FileType, FilePlaces
  <2>2. file' = [file EXCEPT ![g] = r]
    BY <1>2 DEF KbInv, KbTypes
  <2> HIDE DEF r
  <2> QED
    BY <2>1, <2>2, FileStep
<1> QED
  BY <1>1, <1>2 DEF Discard

\* Every step keeps the invariant.
LEMMA KbStepInv == KbInv /\ [KnowledgeBasesNext]_kbVars => KbInv'
<1> SUFFICES ASSUME KbInv, [KnowledgeBasesNext]_kbVars PROVE KbInv'
  OBVIOUS
<1>1. ASSUME UNCHANGED <<file, removal>> PROVE KbInv'
  BY <1>1 DEF KbInv, KbTypes, LateRowsRaced, DeletionSparesDocuments
<1>2. ASSUME NEW u \in Users, NEW f \in Files, NEW b \in Bases, AdmitUpload(u, f, b)
      PROVE  KbInv'
  <2> DEFINE r == [file[f] EXCEPT !.at = "admitted", !.base = b]
  <2>1. r \in FileType /\ r.at \notin {"row", "cascaded"}
    BY DEF KbInv, KbTypes, FileType, FilePlaces
  <2>2. file' = [file EXCEPT ![f] = r] /\ removal' = removal
    BY <1>2 DEF AdmitUpload, KbInv, KbTypes
  <2> HIDE DEF r
  <2> QED
    BY <2>1, <2>2, FileStep
<1>3. ASSUME NEW f \in Files, PutObject(f) PROVE KbInv'
  <2>1. PICK at \in {"put", "rejected"} : file' = [file EXCEPT ![f].at = at]
    BY <1>3 DEF PutObject
  <2> DEFINE r == [file[f] EXCEPT !.at = at]
  <2>2. r \in FileType /\ r.at \notin {"row", "cascaded"}
    BY DEF KbInv, KbTypes, FileType, FilePlaces
  <2>3. file' = [file EXCEPT ![f] = r] /\ removal' = removal
    BY <1>3, <2>1 DEF PutObject
  <2> HIDE DEF r
  <2> QED
    BY <2>2, <2>3, FileStep
<1>4. ASSUME NEW f \in Files, InsertRow(f) PROVE KbInv'
  <2> DEFINE b == file[f].base
             n == 1 + Cardinality({g \in Files : file[g].created > 0})
             r == [file[f] EXCEPT !.at = "row", !.created = n, !.raced = removal[b].at = "loaded"]
             q == [removal[b] EXCEPT !.met = @ \/ removal[b].at = "loaded"]
  <2>1. CASE base[b].at = "here"
    <3>1. n \in Moments
      BY DEF Moments
    <3>2. r \in FileType
      BY <3>1 DEF KbInv, KbTypes, FileType, FilePlaces
    <3>3. file' = [file EXCEPT ![f] = r]
      BY <1>4, <2>1 DEF InsertRow, KbInv, KbTypes
    <3>4. removal' = [removal EXCEPT ![b] = q]
      BY <1>4, <2>1 DEF InsertRow
    <3>5. r.at = "row" /\ r.base = b /\ r.raced = (removal[b].at = "loaded")
      BY DEF KbInv, KbTypes, FileType
    <3>6. \A c \in Bases : removal'[c].at = removal[c].at /\ removal'[c].docs = removal[c].docs
      BY <3>4 DEF KbInv, KbTypes, RemovalType
    <3>7. removal' \in [Bases -> RemovalType]
      <4>1. b \in Bases => q \in RemovalType
        BY DEF KbInv, KbTypes, RemovalType
      <4> HIDE DEF q
      <4> QED
        BY <3>4, <4>1 DEF KbInv, KbTypes
    <3>8. KbTypes'
      BY <3>2, <3>3, <3>7 DEF KbInv, KbTypes
    <3> HIDE DEF r, q
    <3>9. LateRowsRaced'
      BY <3>3, <3>5, <3>6 DEF KbInv, KbTypes, LateRowsRaced
    <3>10. DeletionSparesDocuments'
      BY <3>3, <3>5 DEF KbInv, KbTypes, DeletionSparesDocuments
    <3> QED
      BY <3>8, <3>9, <3>10 DEF KbInv
  <2>2. CASE base[b].at # "here"
    BY <1>4, <2>2, DiscardStep DEF InsertRow
  <2> QED
    BY <2>1, <2>2
<1>5. ASSUME NEW u \in Users, NEW f \in Files, DeleteRow(u, f) PROVE KbInv'
  BY <1>5, DiscardStep DEF DeleteRow
<1>6. ASSUME NEW f \in Files, SetStatus(f) PROVE KbInv'
  <2>1. PICK s \in {"indexing", "ready", "failed"} : file' = [file EXCEPT ![f].status = s]
    BY <1>6 DEF SetStatus
  <2> DEFINE r == [file[f] EXCEPT !.status = s]
  <2>2. r \in FileType /\ r.at = "row" /\ file[f].at = "row" /\ r.base = file[f].base
        /\ r.raced = file[f].raced
    BY <1>6 DEF SetStatus, KbInv, KbTypes, FileType, FilePlaces
  <2>3. file' = [file EXCEPT ![f] = r] /\ removal' = removal
    BY <1>6, <2>1 DEF SetStatus
  <2> HIDE DEF r
  <2> QED
    BY <2>2, <2>3, FileStep
<1>7. ASSUME NEW u \in Users, NEW c \in Talks, NEW b \in Bases, OpenTalk(u, c, b) PROVE KbInv'
  <2> DEFINE r == [removal[b] EXCEPT !.met = @ \/ removal[b].at = "loaded"]
  <2>1. r \in RemovalType /\ r.at = removal[b].at /\ r.docs = removal[b].docs
    BY DEF KbInv, KbTypes, RemovalType
  <2>2. removal' = [removal EXCEPT ![b] = r] /\ file' = file
    BY <1>7 DEF OpenTalk
  <2> HIDE DEF r
  <2> QED
    BY <2>1, <2>2, RemovalStep
<1>8. ASSUME NEW u \in Users, NEW b \in Bases, LoadBase(u, b) PROVE KbInv'
  <2> DEFINE r == [at |-> "loaded", docs |-> RowsOf(b),
                   talks |-> {c \in Talks : talk[c] = b}, met |-> FALSE]
  <2>1. r \in RemovalType /\ r.docs = {f \in Files : file[f].at = "row" /\ file[f].base = b}
    BY DEF RemovalType, RowsOf
  <2>2. removal' = [removal EXCEPT ![b] = r] /\ file' = file
    BY <1>8 DEF LoadBase
  <2> HIDE DEF r
  <2>3. KbTypes'
    BY <2>1, <2>2 DEF KbInv, KbTypes
  <2>4. LateRowsRaced'
    BY <2>1, <2>2 DEF KbInv, KbTypes, LateRowsRaced
  <2>5. DeletionSparesDocuments'
    BY <2>2 DEF KbInv, DeletionSparesDocuments
  <2> QED
    BY <2>3, <2>4, <2>5 DEF KbInv
<1>9. ASSUME NEW b \in Bases, DropBase(b) PROVE KbInv'
  <2>1. CASE Refuses(b)
    <3> DEFINE r == [removal[b] EXCEPT !.at = "refused"]
    <3>1. r \in RemovalType /\ r.at # "loaded"
      BY DEF KbInv, KbTypes, RemovalType
    <3>2. removal' = [removal EXCEPT ![b] = r] /\ file' = file
      BY <1>9, <2>1 DEF DropBase
    <3> HIDE DEF r
    <3> QED
      BY <3>1, <3>2, RemovalStep
  <2>2. CASE ~Refuses(b)
    <3> DEFINE r == [removal[b] EXCEPT !.at = "done"]
    <3>1. r \in RemovalType /\ r.at = "done"
      BY DEF KbInv, KbTypes, RemovalType
    <3>2. removal' = [removal EXCEPT ![b] = r]
      BY <1>9, <2>2 DEF DropBase
    <3>3. file' = [f \in Files |-> IF f \in RowsOf(b)
                                   THEN [file[f] EXCEPT !.at = "cascaded"] ELSE file[f]]
      BY <1>9, <2>2 DEF DropBase
    <3>4. \A f \in RowsOf(b) : f \in Files /\ file[f].raced
      BY <1>9, <2>2 DEF DropBase, Refuses, RowsOf, KbInv, LateRowsRaced
    <3>5. ASSUME NEW f \in RowsOf(b)
          PROVE  file'[f] = [file[f] EXCEPT !.at = "cascaded"] /\ file'[f] \in FileType
                 /\ file'[f].at = "cascaded" /\ file'[f].raced
      BY <3>3, <3>4, <3>5 DEF KbInv, KbTypes, FileType, FilePlaces
    <3>6. \A f \in Files \ RowsOf(b) : file'[f] = file[f]
      BY <3>3
    <3> HIDE DEF r
    <3>7. KbTypes'
      BY <3>1, <3>2, <3>3, <3>5, <3>6 DEF KbInv, KbTypes
    <3>8. LateRowsRaced'
      BY <3>1, <3>2, <3>5, <3>6 DEF KbInv, KbTypes, LateRowsRaced
    <3>9. DeletionSparesDocuments'
      BY <3>5, <3>6 DEF KbInv, DeletionSparesDocuments
    <3> QED
      BY <3>7, <3>8, <3>9 DEF KbInv
  <2> QED
    BY <2>1, <2>2
<1>10. ASSUME NEW u \in Users, NEW b \in Bases, RenameBase(u, b) PROVE KbInv'
  BY <1>1, <1>10 DEF RenameBase
<1>11. ASSUME NEW u \in Users, NEW b \in Bases, NEW asked, CreateBase(u, b, asked) PROVE KbInv'
  BY <1>1, <1>11 DEF CreateBase
<1>12. ASSUME UNCHANGED kbVars PROVE KbInv'
  BY <1>1, <1>12 DEF kbVars
<1> QED
  BY <1>2, <1>3, <1>4, <1>5, <1>6, <1>7, <1>8, <1>9, <1>10, <1>11, <1>12 DEF KnowledgeBasesNext

\* Whatever uploads, deletions and conversations do meanwhile, a document whose row
\* was there when the deletion of its base looked is never removed by the database's
\* cascade (delete_knowledge_base in api/routers/kb.py).
THEOREM DeletionIsSafe == KnowledgeBasesSpec => []DeletionSparesDocuments
<1>1. KbInv => DeletionSparesDocuments
  BY DEF KbInv
<1> QED
  BY KbInitInv, KbStepInv, <1>1, PTL DEF KnowledgeBasesSpec

-----------------------------------------------------------------------------
(* Objects.                                                                *)

\* No object before it is put.
PutFirst == \A f \in Files : file[f].at \in {"new", "admitted"} => f \notin objects

ObjectInv == PutFirst /\ ObjectsFollowRows

\* What a step that writes one file owes the objects.
Settled(f) ==
    \/ file[f].at \in {"admitted", "put", "row"}
    \/ file[f].stuck
    \/ file[f].at = "cascaded" /\ file[f].raced

\* A step that changes one file and at most its object.
LEMMA ObjectStep ==
    ASSUME ObjectInv, NEW g \in Files, objects \subseteq Files, objects' \subseteq objects \cup {g},
           \A f \in Files \ {g} : file'[f] = file[f],
           file'[g].at \in {"new", "admitted"} => g \notin objects',
           g \in objects' => Settled(g)'
    PROVE  ObjectInv'
<1>1. PutFirst'
  BY DEF ObjectInv, PutFirst
<1>2. ASSUME NEW f \in objects' PROVE Settled(f)'
  <2>1. CASE f = g
    BY <1>2, <2>1
  <2>2. CASE f # g
    <3>1. f \in objects /\ file'[f] = file[f]
      BY <2>2
    <3> QED
      BY <3>1 DEF ObjectInv, ObjectsFollowRows, Settled
  <2> QED
    BY <2>1, <2>2
<1> QED
  BY <1>1, <1>2 DEF ObjectInv, ObjectsFollowRows, Settled

\* An object that is discarded is gone, or its removal failed.
LEMMA DiscardObject ==
    ASSUME KbInv, ObjectInv, objects \subseteq Files, NEW g \in Files,
           NEW at \in {"rejected", "deleted"}, Discard(g, at)
    PROVE  ObjectInv' /\ (objects \subseteq Files)'
<1>1. file[g] \in FileType /\ \A f \in Files \ {g} : file'[f] = file[f]
  BY DEF Discard, KbInv, KbTypes
<1>2. objects' \subseteq objects \cup {g} /\ file'[g].at = at /\ (g \in objects' => file'[g].stuck)
  BY <1>1 DEF Discard, KbInv, KbTypes, FileType
<1>3. g \in objects' => Settled(g)'
  BY <1>2 DEF Settled
<1>4. file'[g].at \notin {"new", "admitted"}
  BY <1>2
<1> QED
  BY <1>1, <1>2, <1>3, <1>4, ObjectStep

\* Every step keeps objects and rows together.
LEMMA ObjectStepInv ==
    ASSUME KbInv, ObjectInv, objects \subseteq Files, [KnowledgeBasesNext]_kbVars
    PROVE  ObjectInv' /\ (objects \subseteq Files)'
<1> DEFINE Goal == ObjectInv' /\ (objects \subseteq Files)'
<1>1. ASSUME UNCHANGED <<file, objects>> PROVE Goal
  BY <1>1 DEF ObjectInv, PutFirst, ObjectsFollowRows
<1>2. \A f \in Files : file[f] \in FileType
  BY DEF KbInv, KbTypes
<1>3. ASSUME NEW u \in Users, NEW f \in Files, NEW b \in Bases, AdmitUpload(u, f, b) PROVE Goal
  <2>1. file[f].at = "new" /\ file'[f].at = "admitted" /\ objects' = objects
        /\ \A g \in Files \ {f} : file'[g] = file[g]
    BY <1>2, <1>3 DEF AdmitUpload, KbInv, KbTypes, FileType
  <2>2. f \notin objects
    BY <2>1 DEF ObjectInv, PutFirst
  <2> QED
    BY <2>1, <2>2, ObjectStep
<1>4. ASSUME NEW f \in Files, PutObject(f) PROVE Goal
  <2>1. file[f].at = "admitted" /\ \A g \in Files \ {f} : file'[g] = file[g]
    BY <1>4 DEF PutObject, KbInv, KbTypes
  <2>2. f \notin objects
    BY <2>1 DEF ObjectInv, PutFirst
  <2>3. CASE objects' = objects \cup {f} /\ file' = [file EXCEPT ![f].at = "put"]
    <3>1. file'[f].at = "put"
      BY <1>2, <2>3 DEF KbInv, KbTypes, FileType
    <3>2. Settled(f)'
      BY <3>1 DEF Settled
    <3> QED
      BY <2>1, <2>3, <3>1, <3>2, ObjectStep
  <2>4. CASE objects' = objects /\ file' = [file EXCEPT ![f].at = "rejected"]
    BY <2>1, <2>2, <2>4, ObjectStep
  <2> QED
    BY <1>4, <2>3, <2>4 DEF PutObject
<1>5. ASSUME NEW f \in Files, InsertRow(f) PROVE Goal
  <2>1. CASE base[file[f].base].at = "here"
    <3> DEFINE n == [file[f] EXCEPT
                       !.at = "row", !.created = 1 + Cardinality({g \in Files : file[g].created > 0}),
                       !.raced = removal[file[f].base].at = "loaded"]
    <3>3. file' = [file EXCEPT ![f] = n] /\ objects' = objects
      BY <1>5, <2>1 DEF InsertRow, KbInv, KbTypes
    <3>4. n.at = "row"
      BY <1>2 DEF FileType
    <3> HIDE DEF n
    <3>1. file'[f].at = "row" /\ objects' = objects /\ \A g \in Files \ {f} : file'[g] = file[g]
      BY <3>3, <3>4 DEF KbInv, KbTypes
    <3>2. Settled(f)'
      BY <3>1 DEF Settled
    <3> QED
      BY <3>1, <3>2, ObjectStep
  <2>2. CASE base[file[f].base].at # "here"
    BY <1>5, <2>2, DiscardObject DEF InsertRow
  <2> QED
    BY <2>1, <2>2
<1>6. ASSUME NEW u \in Users, NEW f \in Files, DeleteRow(u, f) PROVE Goal
  BY <1>6, DiscardObject DEF DeleteRow
<1>7. ASSUME NEW f \in Files, SetStatus(f) PROVE Goal
  <2>1. file'[f].at = "row" /\ objects' = objects /\ \A g \in Files \ {f} : file'[g] = file[g]
    BY <1>2, <1>7 DEF SetStatus, KbInv, KbTypes, FileType
  <2>2. Settled(f)'
    BY <2>1 DEF Settled
  <2> QED
    BY <2>1, <2>2, ObjectStep
<1>8. ASSUME NEW b \in Bases, DropBase(b) PROVE Goal
  <2>1. objects' = objects
    BY <1>8 DEF DropBase
  <2>2. CASE Refuses(b)
    BY <1>1, <1>8, <2>2 DEF DropBase
  <2>3. CASE ~Refuses(b)
    <3>1. file' = [f \in Files |-> IF f \in RowsOf(b)
                                   THEN [file[f] EXCEPT !.at = "cascaded"] ELSE file[f]]
      BY <1>8, <2>3 DEF DropBase
    <3>2. \A f \in RowsOf(b) : f \in Files /\ file[f].raced
      BY <1>8, <2>3 DEF DropBase, Refuses, RowsOf, KbInv, LateRowsRaced
    <3>3. \A f \in RowsOf(b) : file'[f].at = "cascaded" /\ file'[f].raced
      BY <1>2, <3>1, <3>2 DEF FileType
    <3>4. \A f \in Files \ RowsOf(b) : file'[f] = file[f]
      BY <3>1
    <3>5. PutFirst'
      BY <2>1, <3>3, <3>4 DEF ObjectInv, PutFirst
    <3>6. ObjectsFollowRows'
      BY <2>1, <3>3, <3>4 DEF ObjectInv, ObjectsFollowRows
    <3> QED
      BY <2>1, <3>5, <3>6 DEF ObjectInv
  <2> QED
    BY <2>2, <2>3
<1>9. ASSUME NEW u \in Users, NEW b \in Bases,
             \/ RenameBase(u, b) \/ LoadBase(u, b)
             \/ (\E asked : CreateBase(u, b, asked)) \/ \E c \in Talks : OpenTalk(u, c, b)
      PROVE  Goal
  BY <1>1, <1>9 DEF RenameBase, LoadBase, CreateBase, OpenTalk
<1>10. ASSUME UNCHANGED kbVars PROVE Goal
  BY <1>1, <1>10 DEF kbVars
<1> QED
  BY <1>3, <1>4, <1>5, <1>6, <1>7, <1>8, <1>9, <1>10 DEF KnowledgeBasesNext

-----------------------------------------------------------------------------
(* Permissions.                                                            *)

\* Departments a request may name.
Offered == UNION {Departments[Profile[v].tenant] : v \in Users}

AnyDepartment == Offered \cup {Profile[v].dept : v \in Users} \cup {NoDepartment}

BaseType ==
    [at : {"none", "here", "gone"}, tenant : {"none"} \cup {Profile[u].tenant : u \in Users},
     dept : AnyDepartment, name : {"given", "changed"}, by : {"none"} \cup Users]

\* A base keeps the tenant, the department and the creator it was made with.
LEMMA CreatorStep ==
    ASSUME base \in [Bases -> BaseType], CreatorManages, [KnowledgeBasesNext]_kbVars
    PROVE  (base \in [Bases -> BaseType])' /\ CreatorManages'
<1> DEFINE Goal == (base \in [Bases -> BaseType])' /\ CreatorManages'
<1>1. ASSUME base' = base PROVE Goal
  BY <1>1 DEF CreatorManages, MayManage, VisibleBase, CanManage
<1>2. ASSUME NEW b \in Bases, NEW n \in BaseType, base' = [base EXCEPT ![b] = n],
             n.at = "here" => /\ n.tenant = Profile[n.by].tenant
                              /\ Profile[n.by].role \in Managers
                              /\ Profile[n.by].role = "admin"
                                    \/ n.dept \in {NoDepartment, Profile[n.by].dept}
      PROVE  Goal
  <2>1. base' \in [Bases -> BaseType] /\ base'[b] = n /\ \A c \in Bases \ {b} : base'[c] = base[c]
    BY <1>2
  <2>2. ASSUME NEW c \in Bases, NEW w, base'[c].at = "here", base'[c].by = w
        PROVE  MayManage(w, c)'
    <3>1. CASE c = b
      BY <1>2, <2>1, <2>2, <3>1 DEF MayManage, VisibleBase, CanManage
    <3>2. CASE c # b
      <4>1. base'[c] = base[c] /\ MayManage(w, c)
        BY <2>1, <2>2, <3>2 DEF CreatorManages
      <4> QED
        BY <4>1 DEF MayManage, VisibleBase, CanManage
    <3> QED
      BY <3>1, <3>2
  <2> QED
    BY <2>1, <2>2 DEF CreatorManages
<1>3. \A b \in Bases : base[b].at = "here" => MayManage(base[b].by, b)
  BY DEF CreatorManages
<1>4. ASSUME NEW u \in Users, NEW b \in Bases,
             NEW asked \in {NoDepartment} \cup Offered,
             CreateBase(u, b, asked)
      PROVE  Goal
  <2> DEFINE dept == IF Profile[u].role = "admin" \/ asked = NoDepartment
                     THEN asked ELSE Profile[u].dept
             n == [at |-> "here", tenant |-> Profile[u].tenant, name |-> "given", by |-> u,
                   dept |-> dept]
  <2>1. dept \in AnyDepartment /\ (Profile[u].role = "admin" \/ dept \in {NoDepartment, Profile[u].dept})
    <3>1. CASE Profile[u].role = "admin" \/ asked = NoDepartment
      BY <3>1 DEF AnyDepartment
    <3>2. CASE ~(Profile[u].role = "admin" \/ asked = NoDepartment)
      <4>1. dept = Profile[u].dept
        BY <3>2
      <4> QED
        BY <4>1 DEF AnyDepartment
    <3> QED
      BY <3>1, <3>2
  <2> HIDE DEF dept
  <2>2. n \in BaseType
    BY <2>1 DEF BaseType
  <2>3. base' = [base EXCEPT ![b] = n] /\ Profile[u].role \in Managers
    BY <1>4 DEF CreateBase, dept
  <2>4. n.at = "here" /\ n.tenant = Profile[n.by].tenant /\ n.by = u /\ n.dept = dept
    OBVIOUS
  <2> HIDE DEF n
  <2> QED
    BY <1>2, <2>1, <2>2, <2>3, <2>4
<1>5. ASSUME NEW u \in Users, NEW b \in Bases, RenameBase(u, b) PROVE Goal
  <2> DEFINE n == [base[b] EXCEPT !.name = "changed"]
  <2>1. n \in BaseType /\ n.at = base[b].at /\ n.tenant = base[b].tenant /\ n.dept = base[b].dept
        /\ n.by = base[b].by
    BY DEF BaseType
  <2>2. base' = [base EXCEPT ![b] = n]
    BY <1>5 DEF RenameBase
  <2> HIDE DEF n
  <2>3. base[b].at = "here" => /\ base[b].tenant = Profile[base[b].by].tenant
                               /\ Profile[base[b].by].role \in Managers
                               /\ Profile[base[b].by].role = "admin"
                                     \/ base[b].dept \in {NoDepartment, Profile[base[b].by].dept}
    BY <1>3 DEF MayManage, VisibleBase, CanManage
  <2> QED
    BY <1>2, <2>1, <2>2, <2>3
<1>6. ASSUME NEW b \in Bases, DropBase(b) PROVE Goal
  <2>1. CASE Refuses(b)
    BY <1>1, <1>6, <2>1 DEF DropBase
  <2>2. CASE ~Refuses(b)
    <3> DEFINE n == [base[b] EXCEPT !.at = "gone"]
    <3>1. n \in BaseType /\ n.at = "gone"
      BY DEF BaseType
    <3>2. base' = [base EXCEPT ![b] = n]
      BY <1>6, <2>2 DEF DropBase
    <3> HIDE DEF n
    <3> QED
      BY <1>2, <3>1, <3>2
  <2> QED
    BY <2>1, <2>2
<1>7. ASSUME NEW f \in Files,
             \/ PutObject(f) \/ InsertRow(f) \/ SetStatus(f) \/ \E u \in Users : DeleteRow(u, f)
             \/ \E u \in Users, b \in Bases : AdmitUpload(u, f, b)
      PROVE  Goal
  BY <1>1, <1>7 DEF PutObject, InsertRow, SetStatus, DeleteRow, AdmitUpload
<1>8. ASSUME NEW u \in Users, NEW b \in Bases, LoadBase(u, b) \/ \E c \in Talks : OpenTalk(u, c, b)
      PROVE  Goal
  BY <1>1, <1>8 DEF LoadBase, OpenTalk
<1>9. ASSUME UNCHANGED kbVars PROVE Goal
  BY <1>1, <1>9 DEF kbVars
<1> QED
  BY <1>4, <1>5, <1>6, <1>7, <1>8, <1>9 DEF KnowledgeBasesNext, Offered

-----------------------------------------------------------------------------
(* Lists.                                                                  *)

Inserted == {f \in Files : file[f].created > 0}

\* Rows were inserted one after the other, each at a moment of its own.
MomentsApart ==
    /\ \A f \in Files :
          /\ file[f].at \in {"new", "admitted", "put"} => file[f].created = 0
          /\ file[f].at = "row" => file[f].created > 0
          /\ file[f].created <= Cardinality(Inserted)
    /\ \A f, g \in Inserted : file[f].created = file[g].created => f = g

\* The moments of files are numbers, and their rows are finitely many.
LEMMA MomentsCount ==
    ASSUME KbInv
    PROVE  /\ \A f \in Files : file[f].created \in Nat
           /\ IsFiniteSet(Inserted) /\ Cardinality(Inserted) \in Nat
<1>1. \A S \in SUBSET Files : IsFiniteSet(S) /\ Cardinality(S) \in Nat
  BY KnowledgeBasesAssumption, FS_Subset, FS_CardinalityType
<1>2. \A f \in Files : file[f].created \in Moments
  BY DEF KbInv, KbTypes, FileType
<1>3. Moments \subseteq Nat
  BY <1>1 DEF Moments
<1> QED
  BY <1>1, <1>2, <1>3 DEF Inserted

\* A step that gives no file another moment.
LEMMA MomentsStay ==
    ASSUME MomentsApart, \A f \in Files : file'[f].created = file[f].created,
           \A f \in Files :
              /\ file'[f].at \in {"new", "admitted", "put"} =>
                    file[f].at \in {"new", "admitted", "put"}
              /\ file'[f].at = "row" => file[f].at = "row"
    PROVE  MomentsApart'
<1>1. Inserted' = Inserted
  BY DEF Inserted
<1>2. \A f \in Files :
        /\ file'[f].at \in {"new", "admitted", "put"} => file'[f].created = 0
        /\ file'[f].at = "row" => file'[f].created > 0
        /\ file'[f].created <= Cardinality(Inserted)
  BY DEF MomentsApart
<1>3. ASSUME NEW f \in Inserted, NEW g \in Inserted, file'[f].created = file'[g].created
      PROVE  f = g
  <2>1. f \in Files /\ g \in Files
    BY DEF Inserted
  <2>2. file[f].created = file[g].created
    BY <1>3, <2>1
  <2> QED
    BY <2>2 DEF MomentsApart
<1> QED
  BY <1>1, <1>2, <1>3 DEF MomentsApart

\* Every step keeps the moments apart.
LEMMA MomentsStep ==
    ASSUME KbInv, MomentsApart, [KnowledgeBasesNext]_kbVars
    PROVE  MomentsApart'
<1>0. file \in [Files -> FileType]
  BY DEF KbInv, KbTypes
\* A step that writes one file and not its moment.
<1>w. ASSUME NEW f \in Files, NEW r, file' = [file EXCEPT ![f] = r],
             r.created = file[f].created, r.at # "row" \/ file[f].at = "row",
             r.at \in {"admitted", "put"} => file[f].at \in {"new", "admitted"},
             r.at # "new"
      PROVE  MomentsApart'
  BY <1>0, <1>w, MomentsStay
<1>u. ASSUME file' = file PROVE MomentsApart'
  BY <1>u, MomentsStay
<1>d. ASSUME NEW f \in Files, NEW at \in {"rejected", "deleted"}, Discard(f, at)
      PROVE  MomentsApart'
  <2> DEFINE r == [file[f] EXCEPT !.at = at]
             q == [file[f] EXCEPT !.at = at, !.stuck = TRUE]
  <2>1. file' = [file EXCEPT ![f] = r] \/ file' = [file EXCEPT ![f] = q]
    BY <1>0, <1>d DEF Discard
  <2>2. r.at = at /\ r.created = file[f].created /\ q.at = at /\ q.created = file[f].created
    BY <1>0 DEF FileType
  <2> HIDE DEF r, q
  <2> QED
    BY <1>w, <2>1, <2>2
<1>1. ASSUME NEW u \in Users, NEW f \in Files, NEW b \in Bases, AdmitUpload(u, f, b)
      PROVE  MomentsApart'
  <2> DEFINE r == [file[f] EXCEPT !.at = "admitted", !.base = b]
  <2>1. file' = [file EXCEPT ![f] = r] /\ file[f].at = "new"
    BY <1>0, <1>1 DEF AdmitUpload
  <2>2. r.at = "admitted" /\ r.created = file[f].created
    BY <1>0 DEF FileType
  <2> HIDE DEF r
  <2> QED
    BY <1>w, <2>1, <2>2
<1>2. ASSUME NEW f \in Files, PutObject(f) PROVE MomentsApart'
  <2> DEFINE r(at) == [file[f] EXCEPT !.at = at]
  <2>1. (file' = [file EXCEPT ![f] = r("put")] \/ file' = [file EXCEPT ![f] = r("rejected")])
        /\ file[f].at = "admitted"
    BY <1>2 DEF PutObject
  <2>2. \A at \in {"put", "rejected"} : r(at).at = at /\ r(at).created = file[f].created
    BY <1>0 DEF FileType
  <2> HIDE DEF r
  <2> QED
    BY <1>w, <2>1, <2>2
<1>3. ASSUME NEW f \in Files, InsertRow(f) PROVE MomentsApart'
  <2>1. CASE base[file[f].base].at = "here"
    <3> DEFINE n == Cardinality(Inserted)
               r == [file[f] EXCEPT !.at = "row", !.created = 1 + n,
                                    !.raced = removal[file[f].base].at = "loaded"]
    <3>1. file' = [file EXCEPT ![f] = r] /\ file[f].at = "put"
      BY <1>0, <1>3, <2>1 DEF InsertRow, Inserted
    <3>2. r.at = "row" /\ r.created = 1 + n
      BY <1>0 DEF FileType
    <3>3. n \in Nat /\ IsFiniteSet(Inserted) /\ \A g \in Files : file[g].created \in Nat
      BY MomentsCount
    <3> HIDE DEF r, n
    <3>4. file[f].created = 0 /\ f \notin Inserted
      <4>1. file[f].created = 0
        BY <3>1 DEF MomentsApart
      <4>2. ~(0 > 0)
        OBVIOUS
      <4> QED
        BY <4>1, <4>2 DEF Inserted
    <3>5. file'[f] = r /\ \A g \in Files \ {f} : file'[g] = file[g]
      BY <1>0, <3>1
    <3>6. Inserted' = Inserted \cup {f}
      BY <3>2, <3>3, <3>5 DEF Inserted
    <3>7. Cardinality(Inserted') = n + 1
      BY <3>3, <3>4, <3>6, FS_AddElement DEF n
    <3>8. \A g \in Files \ {f} : file[g].created <= n
      BY DEF MomentsApart, n
    <3>9. ASSUME NEW g \in Files
          PROVE  /\ file'[g].at \in {"new", "admitted", "put"} => file'[g].created = 0
                 /\ file'[g].at = "row" => file'[g].created > 0
                 /\ file'[g].created <= Cardinality(Inserted')
      BY <3>2, <3>3, <3>5, <3>7, <3>8 DEF MomentsApart
    <3>10. ASSUME NEW g \in Inserted', NEW h \in Inserted', file'[g].created = file'[h].created
           PROVE  g = h
      <4>1. g \in Files /\ h \in Files
        BY DEF Inserted
      <4>2. CASE g # f /\ h # f
        BY <3>5, <3>6, <3>10, <4>1, <4>2 DEF MomentsApart
      <4>3. CASE g = f /\ h # f
        BY <3>2, <3>3, <3>5, <3>8, <3>10, <4>1, <4>3
      <4>4. CASE g # f /\ h = f
        BY <3>2, <3>3, <3>5, <3>8, <3>10, <4>1, <4>4
      <4> QED
        BY <4>2, <4>3, <4>4
    <3> QED
      BY <3>9, <3>10 DEF MomentsApart
  <2>2. CASE base[file[f].base].at # "here"
    BY <1>3, <1>d, <2>2 DEF InsertRow
  <2> QED
    BY <2>1, <2>2
<1>4. ASSUME NEW u \in Users, NEW f \in Files, DeleteRow(u, f) PROVE MomentsApart'
  BY <1>4, <1>d DEF DeleteRow
<1>5. ASSUME NEW f \in Files, SetStatus(f) PROVE MomentsApart'
  <2> DEFINE r(s) == [file[f] EXCEPT !.status = s]
  <2>1. file[f].at = "row"
        /\ \E s \in {"indexing", "ready", "failed"} : file' = [file EXCEPT ![f] = r(s)]
    BY <1>5 DEF SetStatus
  <2>2. \A s \in {"indexing", "ready", "failed"} :
           r(s).at = file[f].at /\ r(s).created = file[f].created
    BY <1>0 DEF FileType
  <2> HIDE DEF r
  <2> QED
    BY <1>w, <2>1, <2>2
<1>6. ASSUME NEW b \in Bases, DropBase(b) PROVE MomentsApart'
  <2>1. CASE Refuses(b)
    BY <1>6, <1>u, <2>1 DEF DropBase
  <2>2. CASE ~Refuses(b)
    <3>1. file' = [f \in Files |-> IF f \in RowsOf(b)
                                   THEN [file[f] EXCEPT !.at = "cascaded"] ELSE file[f]]
      BY <1>6, <2>2 DEF DropBase
    <3>2. \A f \in Files : LET r == [file[f] EXCEPT !.at = "cascaded"] IN
                           r.at = "cascaded" /\ r.created = file[f].created
      BY <1>0 DEF FileType
    <3> QED
      BY <3>1, <3>2, MomentsStay
  <2> QED
    BY <2>1, <2>2
<1>7. ASSUME NEW u \in Users, NEW b \in Bases,
             \/ RenameBase(u, b) \/ LoadBase(u, b)
             \/ (\E asked : CreateBase(u, b, asked)) \/ \E c \in Talks : OpenTalk(u, c, b)
      PROVE  MomentsApart'
  BY <1>7, <1>u DEF RenameBase, LoadBase, CreateBase, OpenTalk
<1>8. ASSUME UNCHANGED kbVars PROVE MomentsApart'
  BY <1>8, <1>u DEF kbVars
<1> QED
  BY <1>1, <1>2, <1>3, <1>4, <1>5, <1>6, <1>7, <1>8 DEF KnowledgeBasesNext

\* What a list may show is finite.
LEMMA ListedFinite ==
    ASSUME KbInv, NEW r \in PageLists
    PROVE  IsFiniteSet(Listed(r))
<1> USE KnowledgeBasesAssumption
<1>1. CASE r.of = "documents"
  <2>1. Listed(r) \in SUBSET Files
    BY <1>1 DEF Listed, RowsOf
  <2> QED
    BY <2>1, FS_Subset
<1>2. CASE r.of # "documents"
  <2>1. Listed(r) \in SUBSET (Files \X (1..ChunkCount))
    BY <1>2 DEF Listed, RowsOf, ChunksOfFile
  <2>2. IsFiniteSet(Files \X (1..ChunkCount))
    <3>1. 1 \in Int /\ ChunkCount \in Int
      OBVIOUS
    <3>2. IsFiniteSet(1..ChunkCount)
      BY <3>1, FS_Interval
    <3> QED
      BY <3>2, FS_Product
  <2> QED
    BY <2>1, <2>2, FS_Subset
<1> QED
  BY <1>1, <1>2

\* A list with a unique order has no two elements of which neither comes first.
LEMMA StrictOrder ==
    ASSUME KbInv, MomentsApart, NEW r \in PageLists, UniqueOrder(r),
           NEW x \in Listed(r), NEW y \in Listed(r), NotAfter(r, x, y), NotAfter(r, y, x)
    PROVE  x = y
<1> USE KnowledgeBasesAssumption
<1>1. CASE r.of = "documents"
  <2>1. x \in Files /\ y \in Files /\ file[x].at = "row" /\ file[y].at = "row"
    BY <1>1 DEF Listed, RowsOf
  <2>2. CASE r.sort = "created"
    <3>1. file[x].created = file[y].created
      BY <1>1, <2>1, <2>2, MomentsCount DEF NotAfter
    <3> QED
      BY <2>1, <3>1 DEF MomentsApart, Inserted
  <2>3. CASE r.sort # "created"
    <3>1. TitleOf[x] = TitleOf[y]
      BY <1>1, <2>1, <2>3 DEF NotAfter
    <3> QED
      BY <1>1, <2>3, <3>1 DEF UniqueOrder
  <2> QED
    BY <2>2, <2>3
<1>2. CASE r.of = "chunks"
  <2>1. \A z \in Listed(r) : z \in {r.file} \X (1..ChunkCount)
    BY <1>2 DEF Listed, RowsOf, ChunksOfFile
  <2>2. x[2] \in Nat /\ y[2] \in Nat
    BY <2>1
  <2>4. x[2] <= y[2] /\ y[2] <= x[2]
    <3>1. ~(r.of = "documents")
      BY <1>2
    <3> QED
      BY <1>2, <3>1 DEF NotAfter
  <2>5. x[2] = y[2]
    BY <2>2, <2>4
  <2> QED
    BY <2>1, <2>5
<1> QED
  BY <1>1, <1>2 DEF PageLists

\* The pages a list is turned through show it as it is.
LEMMA TurnsShowAll ==
    ASSUME KbInv, MomentsApart, NEW r \in PageLists, UniqueOrder(r), ServedSize(r) = r.asked,
           NEW seen \in Turns(r)
    PROVE  ToSet(seen) = Listed(r) /\ Len(seen) = Cardinality(Listed(r))
<1> DEFINE L == Listed(r)
           n == Cardinality(L)
           size == r.asked
           m == PageCount(n, size)
           R == {p \in L \X L : NotAfter(r, p[1], p[2])}
<1>1. IsFiniteSet(L) /\ n \in Nat /\ size \in Nat \ {0}
  BY KnowledgeBasesAssumption, ListedFinite, FS_CardinalityType DEF PageLists
<1>2. m \in Nat \ {0} /\ n <= m * size
  BY <1>1, PagesSuffice
<1>3. PICK answers \in [1..m -> AnswerOrders(r)] : seen = Shown(r, answers)
  BY DEF Turns
<1> HIDE DEF m
<1> DEFINE s == answers[1]
<1>4. s \in AnswerOrders(r)
  BY <1>2
<1>5. ASSUME NEW p \in 1..m PROVE answers[p] = s
  <2> DEFINE t == answers[p]
  <2>1. t \in AnswerOrders(r)
    OBVIOUS
  <2>2. \A x, y \in L : <<x, y>> \in R /\ <<y, x>> \in R => x = y
    BY StrictOrder
  <2>3. ASSUME NEW a \in AnswerOrders(r)
        PROVE  a \in SetToSeqs(L) /\ \A i, j \in DOMAIN a : i < j => <<a[i], a[j]>> \in R
    <3>1. a \in SetToSeqs(L) /\ \A i, j \in DOMAIN a : i < j => NotAfter(r, a[i], a[j])
      BY DEF AnswerOrders
    <3>2. \A i \in DOMAIN a : a[i] \in L
      BY <3>1 DEF SetToSeqs
    <3> QED
      BY <3>1, <3>2
  <2> HIDE DEF s, t, L, R
  <2>4. t = s
    BY <1>1, <1>4, <2>1, <2>2, <2>3, OneOrder
  <2> QED
    BY <2>4 DEF t
<1> HIDE DEF s
<1>6. seen = FlattenSeq([p \in 1..m |-> PageOf(s, p, size)])
  <2>1. DOMAIN answers = 1..m
    OBVIOUS
  <2>2. [p \in DOMAIN answers |-> PageOf(answers[p], p, ServedSize(r))]
        = [p \in 1..m |-> PageOf(s, p, size)]
    BY <1>5, <2>1
  <2> QED
    BY <1>3, <2>2 DEF Shown
<1>7. s \in [1..n -> L] /\ s \in SetToSeqs(L)
  BY <1>4 DEF AnswerOrders, SetToSeqs
<1> HIDE DEF n
<1>8. s \in Seq(L) /\ Len(s) = n /\ DOMAIN s = 1..n
  BY <1>1, <1>7
<1>9. seen = s
  <2> HIDE DEF L, size
  <2> QED
    BY <1>1, <1>2, <1>6, <1>8, PagesOfOne
<1>10. ToSet(s) = L
  <2>1. \A x \in L : \E i \in 1..n : s[i] = x
    BY <1>1, <1>7, ListsAll DEF n
  <2> QED
    BY <1>7, <1>8, <2>1 DEF ToSet
<1> QED
  BY <1>8, <1>9, <1>10 DEF n

\* Bases, objects and pages agree with the rows: whoever creates a base may manage it as
\* long as it is there (create_kb and core/permissions.py); an object without a row is one
\* whose removal failed or that a deletion of its base, racing with the upload, left
\* behind; a list turned from its first page to its last shows every row exactly once,
\* when its order is unique and the server allows the size (list_documents, list_chunks).
THEOREM BasesAgree == KnowledgeBasesSpec => []BasesInv
<1> DEFINE Typed == base \in [Bases -> BaseType]
           Known == objects \subseteq Files
           All == KbInv /\ ObjectInv /\ Known /\ Typed /\ CreatorManages /\ MomentsApart
<1>1. KnowledgeBasesInit => ObjectInv /\ Known /\ Typed /\ CreatorManages
  <2> SUFFICES ASSUME KnowledgeBasesInit PROVE ObjectInv /\ Known /\ Typed /\ CreatorManages
    OBVIOUS
  <2>1. ObjectInv /\ Known
    BY DEF KnowledgeBasesInit, ObjectInv, PutFirst, ObjectsFollowRows
  <2>2. NoDepartment \in AnyDepartment
    BY DEF AnyDepartment
  <2>3. Typed /\ \A b \in Bases : base[b].at = "none"
    BY <2>2 DEF KnowledgeBasesInit, BaseType
  <2> QED
    BY <2>1, <2>3 DEF CreatorManages
<1>2. KnowledgeBasesInit => MomentsApart
  <2> SUFFICES ASSUME KnowledgeBasesInit PROVE MomentsApart
    OBVIOUS
  <2>1. \A f \in Files : file[f].at = "new" /\ file[f].created = 0
    BY DEF KnowledgeBasesInit
  <2>2. Cardinality(Inserted) \in Nat
    BY KbInitInv, MomentsCount
  <2>3. Inserted = {}
    <3>1. ~(0 > 0)
      OBVIOUS
    <3> QED
      BY <2>1, <3>1 DEF Inserted
  <2>4. \A f \in Files : file[f].created <= Cardinality(Inserted)
    BY <2>1, <2>2
  <2> QED
    BY <2>1, <2>3, <2>4 DEF MomentsApart
<1>3. All /\ [KnowledgeBasesNext]_kbVars => All'
  BY KbStepInv, ObjectStepInv, CreatorStep, MomentsStep
<1>4. All => BasesInv
  <2> SUFFICES ASSUME All PROVE BasesInv
    OBVIOUS
  <2>1. PagesShowAll
    BY TurnsShowAll DEF PagesShowAll
  <2> QED
    BY <2>1 DEF BasesInv, ObjectInv
<1> HIDE DEF Typed, Known
<1> QED
  BY KbInitInv, <1>1, <1>2, <1>3, <1>4, PTL DEF KnowledgeBasesSpec

-----------------------------------------------------------------------------
(* Statistics. *)

RunRows ==
    [thread : ThreadIds, day : Nat, status : {"running", "completed", "failed"}, retries : Seq(Nat)]

MessageRows == [thread : ThreadIds, role : {"user", "assistant"}, latency : Nat, day : Nat]

\* Rows are of the day they were written on, which has come.
DaysPassed ==
    /\ today \in Nat \ {0}
    /\ runs \in Seq(RunRows)
    /\ messages \in Seq(MessageRows)
    /\ \A n \in DOMAIN messages : messages[n].day \in 1..today

\* Every step writes rows of today.
LEMMA DaysStep == DaysPassed /\ [UsageStatsNext]_statsVars => DaysPassed'
<1> SUFFICES ASSUME DaysPassed, [UsageStatsNext]_statsVars PROVE DaysPassed'
  OBVIOUS
<1> USE UsageStatsAssumption
<1>1. ASSUME NEW c \in ThreadIds, Converse(c) PROVE DaysPassed'
  <2> DEFINE ask == [thread |-> c, role |-> "user", latency |-> 0, day |-> today]
             answer(l) == [ask EXCEPT !.role = "assistant", !.latency = l]
  <2>1. ask \in MessageRows /\ ask.day = today
    BY DEF DaysPassed, MessageRows
  <2>2. \A l \in Latencies : answer(l) \in MessageRows /\ answer(l).day = today
    BY DEF DaysPassed, MessageRows
  <2>3. \/ messages' = Append(messages, ask)
        \/ \E l \in Latencies : messages' = messages \o <<ask, answer(l)>>
    BY <1>1 DEF Converse
  <2>4. runs' = runs /\ today' = today
    BY <1>1 DEF Converse
  <2>5. messages \in Seq(MessageRows) /\ Len(messages) \in Nat
        /\ \A n \in 1..Len(messages) : messages[n].day \in 1..today
    BY DEF DaysPassed
  <2>6. today \in 1..today
    BY DEF DaysPassed
  <2> HIDE DEF ask, answer
  <2>7. CASE messages' = Append(messages, ask)
    <3>1. messages' \in Seq(MessageRows) /\ Len(messages') = Len(messages) + 1
          /\ \A n \in 1..Len(messages') :
                messages'[n] = IF n = Len(messages) + 1 THEN ask ELSE messages[n]
      BY <2>1, <2>5, <2>7
    <3>2. ASSUME NEW n \in 1..Len(messages') PROVE messages'[n].day \in 1..today
      <4>1. n = Len(messages) + 1 \/ n \in 1..Len(messages)
        BY <2>5, <3>1
      <4> QED
        BY <2>1, <2>5, <2>6, <3>1, <4>1
    <3> QED
      BY <2>4, <3>1, <3>2 DEF DaysPassed
  <2>8. ASSUME NEW l \in Latencies, messages' = messages \o <<ask, answer(l)>> PROVE DaysPassed'
    <3> DEFINE both == <<ask, answer(l)>>
    <3>1. both \in Seq(MessageRows) /\ Len(both) = 2
          /\ \A k \in 1..2 : both[k].day = today
      BY <2>1, <2>2
    <3> HIDE DEF both
    <3>2. messages' \in Seq(MessageRows) /\ Len(messages') = Len(messages) + 2
          /\ \A n \in 1..Len(messages') :
                messages'[n] = IF n <= Len(messages) THEN messages[n] ELSE both[n - Len(messages)]
      BY <2>5, <2>8, <3>1 DEF both
    <3>3. ASSUME NEW n \in 1..Len(messages') PROVE messages'[n].day \in 1..today
      <4>1. n \in 1..Len(messages) \/ (n - Len(messages) \in 1..2 /\ ~ (n <= Len(messages)))
        BY <2>5, <3>2
      <4> QED
        BY <2>5, <2>6, <3>1, <3>2, <4>1, SMTT(30)
    <3> QED
      BY <2>4, <3>2, <3>3 DEF DaysPassed
  <2> QED
    BY <2>3, <2>7, <2>8
<1>2. ASSUME NEW c \in ThreadIds, StartRun(c) PROVE DaysPassed'
  <2> DEFINE row == [thread |-> c, day |-> today, status |-> "running", retries |-> <<>>]
  <2>1. row \in RunRows
    BY DEF DaysPassed, RunRows
  <2>2. runs' = Append(runs, row) /\ messages' = messages /\ today' = today
    BY <1>2 DEF StartRun
  <2> HIDE DEF row
  <2> QED
    BY <2>1, <2>2 DEF DaysPassed
<1>3. ASSUME NEW r \in DOMAIN runs, NEW row \in RunRows, runs' = [runs EXCEPT ![r] = row],
             messages' = messages, today' = today
      PROVE  DaysPassed'
  BY <1>3 DEF DaysPassed
<1>4. ASSUME NEW r \in DOMAIN runs, RecordRetry(r) PROVE DaysPassed'
  <2> DEFINE row == [runs[r] EXCEPT !.retries = Append(@, today)]
  <2>1. runs[r] \in RunRows
    BY DEF DaysPassed
  <2>2. row \in RunRows
    <3>1. runs[r].retries \in Seq(Nat) /\ today \in Nat
      BY <2>1 DEF DaysPassed, RunRows
    <3>2. Append(runs[r].retries, today) \in Seq(Nat)
      BY <3>1
    <3> QED
      BY <2>1, <3>2 DEF RunRows
  <2>3. runs' = [runs EXCEPT ![r] = row] /\ messages' = messages /\ today' = today
    BY <1>4 DEF RecordRetry
  <2> HIDE DEF row
  <2> QED
    BY <1>3, <2>2, <2>3
<1>5. ASSUME NEW r \in DOMAIN runs, NEW s \in {"completed", "failed"}, EndRun(r, s)
      PROVE  DaysPassed'
  <2> DEFINE row == [runs[r] EXCEPT !.status = s]
  <2>1. runs[r] \in RunRows
    BY DEF DaysPassed
  <2>2. row \in RunRows
    BY <2>1 DEF DaysPassed, RunRows
  <2>3. runs' = [runs EXCEPT ![r] = row] /\ messages' = messages /\ today' = today
    BY <1>5 DEF EndRun
  <2> HIDE DEF row
  <2> QED
    BY <1>3, <2>2, <2>3
<1>6. CASE NextDay
  BY <1>6 DEF NextDay, DaysPassed
<1>7. CASE UNCHANGED statsVars
  BY <1>7 DEF DaysPassed, statsVars
<1> QED
  BY <1>1, <1>2, <1>4, <1>5, <1>6, <1>7 DEF UsageStatsNext

\* The sums of the two trends, from the days their rows have.
LEMMA SumsMatch == DaysPassed => TrendAddsUp
<1> SUFFICES ASSUME DaysPassed, NEW u \in Viewers, NEW first \in 1..LastDay
             PROVE  /\ \A field \in {"total", "completed", "failed", "retried"} :
                          Total(AgentTrend(u, first), field) = AgentMetrics(u, first)[field]
                    /\ QueryTotal(Trend(u, today - 1)) = Cardinality(Queries(u))
  BY DEF TrendAddsUp
<1> DEFINE R == RunsInScope(u, first)
           day == [r \in DOMAIN runs |-> runs[r].day]
           D == {runs[r].day : r \in R}
           FieldRows(field) == CASE field = "total" -> R
                            [] field = "retried" -> Retried(R)
                            [] OTHER -> WithStatus(R, field)
<1>1. IsFiniteSet(DOMAIN runs) /\ IsFiniteSet(DOMAIN messages)
  <2>1. DOMAIN runs = 1..Len(runs) /\ Len(runs) \in Int
        /\ DOMAIN messages = 1..Len(messages) /\ Len(messages) \in Int /\ 1 \in Int
    BY DEF DaysPassed
  <2> QED
    BY <2>1, FS_Interval
<1>2. R \in SUBSET DOMAIN runs /\ IsFiniteSet(R)
  BY <1>1, FS_Subset DEF RunsInScope
<1>3. IsFiniteSet(D)
  <2> DEFINE f == [r \in R |-> runs[r].day]
  <2>1. f \in Surjection(R, D)
    BY DEF Surjection
  <2> QED
    BY <1>2, <2>1, FS_Surjection
<1>4. ASSUME NEW field \in {"total", "completed", "failed", "retried"}
      PROVE  Total(AgentTrend(u, first), field) = AgentMetrics(u, first)[field]
  <2> DEFINE S == FieldRows(field)
  <2>1. S \in SUBSET R
    BY DEF WithStatus, Retried
  <2>2. IsFiniteSet(S) /\ \A r \in S : day[r] \in D
    BY <1>2, <2>1, FS_Subset
  <2>3. AgentMetrics(u, first)[field] = Cardinality(S)
    BY DEF AgentMetrics
  <2>4. DOMAIN AgentTrend(u, first) = D
    BY DEF AgentTrend
  <2>5. ASSUME NEW d \in D
        PROVE  AgentTrend(u, first)[d][field] = Cardinality({r \in S : day[r] = d})
    <3>1. {r \in S : day[r] = d} = {r \in S : runs[r].day = d}
      BY <1>2, <2>1
    <3>2. AgentTrend(u, first)[d] =
            [total |-> Cardinality({r \in R : runs[r].day = d}),
             completed |-> Cardinality({r \in WithStatus(R, "completed") : runs[r].day = d}),
             failed |-> Cardinality({r \in WithStatus(R, "failed") : runs[r].day = d}),
             retried |-> Cardinality(RetryRuns(R, d))]
      BY DEF AgentTrend
    <3>3. RetryRuns(R, d) = {r \in Retried(R) : runs[r].day = d}
      BY DEF RetryRuns
    <3> HIDE DEF R, D
    <3> DEFINE On(T) == {r \in T : runs[r].day = d}
    <3>4. {r \in S : day[r] = d} = On(S)
      BY <3>1
    <3>5. AgentTrend(u, first)[d][field] =
            CASE field = "total" -> Cardinality(On(R))
              [] field = "retried" -> Cardinality(On(Retried(R)))
              [] OTHER -> Cardinality(On(WithStatus(R, field)))
      <4>1. AgentTrend(u, first)[d] =
              [total |-> Cardinality(On(R)),
               completed |-> Cardinality(On(WithStatus(R, "completed"))),
               failed |-> Cardinality(On(WithStatus(R, "failed"))),
               retried |-> Cardinality(On(Retried(R)))]
        BY <3>2, <3>3
      <4> HIDE DEF On
      <4> QED
        BY <4>1
    <3> HIDE DEF On
    <3> QED
      BY <3>4, <3>5
  <2>6. [d \in DOMAIN AgentTrend(u, first) |-> AgentTrend(u, first)[d][field]]
          = [d \in D |-> Cardinality({r \in S : day[r] = d})]
    BY <2>4, <2>5
  <2> HIDE DEF S, D, day
  <2>7. QueryTotal([d \in D |-> Cardinality({r \in S : day[r] = d})]) = Cardinality(S)
    BY <1>3, <2>2, CountedByDay
  <2> QED
    BY <2>3, <2>6, <2>7 DEF Total
<1>5. QueryTotal(Trend(u, today - 1)) = Cardinality(Queries(u))
  <2> DEFINE Q == Queries(u)
             on == [n \in DOMAIN messages |-> messages[n].day]
             Days == 1..today
  <2>1. Q \in SUBSET DOMAIN messages
    BY DEF Queries, Messages
  <2>2. IsFiniteSet(Q) /\ \A n \in Q : on[n] \in Days
    BY <1>1, <2>1, FS_Subset DEF DaysPassed
  <2>3. today - (today - 1) = 1 /\ 1 \in Int /\ today \in Int
    BY DEF DaysPassed
  <2>4. IsFiniteSet(Days)
    BY <2>3, FS_Interval
  <2>5. \A d \in Days : {n \in Q : messages[n].day = d} = {n \in Q : on[n] = d}
    BY <2>1
  <2>6. Trend(u, today - 1) = [d \in Days |-> Cardinality({n \in Q : on[n] = d})]
    BY <2>3, <2>5 DEF Trend
  <2> HIDE DEF Q, on, Days
  <2>7. QueryTotal([d \in Days |-> Cardinality({n \in Q : on[n] = d})]) = Cardinality(Q)
    BY <2>2, <2>4, CountedByDay
  <2> QED
    BY <2>6, <2>7 DEF Q
<1> QED
  BY <1>4, <1>5

\* The daily trends of runs and of questions add up to the totals the page shows beside
\* them, whatever users, conversations and days there are (api/routers/stats.py).
THEOREM TrendsAddUp == UsageStatsSpec => []TrendAddsUp
<1>1. UsageStatsInit => DaysPassed
  BY DEF UsageStatsInit, DaysPassed
<1> QED
  BY <1>1, DaysStep, SumsMatch, PTL DEF UsageStatsSpec

-----------------------------------------------------------------------------
(* Document sources. *)

BlockIds == DOMAIN Kids

Once(s) == \A i, j \in DOMAIN s : s[i] = s[j] => i = j

\* The blocks queued are those of the answer that have children.
LEMMA ParentsOf ==
    ASSUME NEW s \in Seq(BlockIds)
    PROVE  /\ ParentBlocks(s) \in Seq(BlockIds)
           /\ ToSet(ParentBlocks(s)) = {b \in ToSet(s) : Kids[b] # <<>>}
<1> DEFINE n == Len(s)
           A == Seq(BlockIds)
           Body(i, t) == IF Kids[s[i]] = <<>> THEN t ELSE Append(t, s[i])
           Step(f) == f = [i \in 0..n |-> IF i = 0 THEN <<>> ELSE Body(i, f[i - 1])]
           f == CHOOSE g : Step(g)
           F == [i \in 1..n |-> [t \in A |-> Body(i, t)]]
<1>1. ParentBlocks(s) = f[n]
  BY DEF ParentBlocks
<1>2. n \in Nat /\ (\A i \in 1..n : s[i] \in BlockIds) /\ <<>> \in A
  OBVIOUS
<1>3. \A i \in 1..n, t \in A : Body(i, t) \in A
  BY <1>2
<1>4. F \in Steps(A, n)
  BY <1>3 DEF Steps
<1>5. \A i \in 1..n, t \in A : F[i][t] = Body(i, t)
  OBVIOUS
<1> HIDE DEF F, A
<1> HIDE DEF n
<1>s. PICK g : Follows(g, <<>>, F, A, n)
  BY <1>2, <1>4, Stepwise
<1>6. g \in [0..n -> A] /\ g[0] = <<>> /\ \A i \in 1..n : g[i] = F[i][g[i - 1]]
  BY <1>s DEF Follows
<1>7. \A i \in 1..n : i - 1 \in 0..n /\ g[i] = Body(i, g[i - 1])
  BY <1>2, <1>5, <1>6
<1> HIDE DEF Body
<1>8. Step(g)
  <2>1. \A i \in 0..n : g[i] = IF i = 0 THEN <<>> ELSE Body(i, g[i - 1])
    BY <1>2, <1>6, <1>7
  <2> QED
    BY <1>6, <2>1
<1>9. Step(f)
  <2> HIDE DEF Step
  <2> QED
    BY <1>8
<1> HIDE DEF f
<1>e. \A i \in 0..n : f[i] = IF i = 0 THEN <<>> ELSE Body(i, f[i - 1])
  BY <1>9
<1>10. f[0] = <<>> /\ \A i \in 1..n : f[i] = Body(i, f[i - 1])
  BY <1>2, <1>e
<1> DEFINE T == {i \in 0..n : /\ f[i] \in A
                             /\ ToSet(f[i]) = {b \in {s[j] : j \in 1..i} : Kids[b] # <<>>}}
<1>11. 0 \in T
  BY <1>2, <1>10 DEF ToSet
<1>12. ASSUME NEW i \in 1..n, i - 1 \in T PROVE i \in T
  <2> DEFINE t == f[i - 1]
  <2>1. t \in A /\ ToSet(t) = {b \in {s[j] : j \in 1..i - 1} : Kids[b] # <<>>}
    BY <1>12
  <2>2. {s[j] : j \in 1..i} = {s[j] : j \in 1..i - 1} \cup {s[i]}
    BY <1>2
  <2>3. f[i] = IF Kids[s[i]] = <<>> THEN t ELSE Append(t, s[i])
    BY <1>10 DEF Body
  <2> HIDE DEF t
  <2>4. Append(t, s[i]) \in A /\ ToSet(Append(t, s[i])) = ToSet(t) \cup {s[i]}
    BY <1>2, <2>1, Appended DEF A
  <2>5. f[i] \in A
    BY <2>1, <2>3, <2>4
  <2>6. ToSet(f[i]) = {b \in {s[j] : j \in 1..i} : Kids[b] # <<>>}
    BY <2>1, <2>2, <2>3, <2>4
  <2>7. i \in 0..n
    BY <1>2
  <2> QED
    BY <2>5, <2>6, <2>7
<1> HIDE DEF T
<1>13. n \in T
  <2>1. Inductive(T, n)
    BY <1>11, <1>12 DEF Inductive
  <2> QED
    BY <1>2, <2>1, UpTo
<1>14. ToSet(s) = {s[j] : j \in 1..n}
  BY DEF ToSet, n
<1> QED
  BY <1>1, <1>13, <1>14 DEF T, A

\* An extended map holds the blocks it had and those of the answer, each once.
LEMMA ExtendedBy ==
    ASSUME NEW map \in Seq(BlockIds), Once(map), NEW kids \in Seq(BlockIds)
    PROVE  /\ Extended(map, kids) \in Seq(BlockIds) /\ Once(Extended(map, kids))
           /\ ToSet(Extended(map, kids)) = ToSet(map) \cup ToSet(kids)
<1> DEFINE n == Len(kids)
           A == Seq(BlockIds)
           Body(i, t) == IF Contains(t, kids[i]) THEN t ELSE Append(t, kids[i])
           Step(f) == f = [i \in 0..n |-> IF i = 0 THEN map ELSE Body(i, f[i - 1])]
           f == CHOOSE g : Step(g)
           F == [i \in 1..n |-> [t \in A |-> Body(i, t)]]
<1>1. Extended(map, kids) = f[n]
  BY DEF Extended
<1>2. n \in Nat /\ (\A i \in 1..n : kids[i] \in BlockIds) /\ map \in A
  OBVIOUS
<1>3. \A i \in 1..n, t \in A : Body(i, t) \in A
  BY <1>2
<1>4. F \in Steps(A, n)
  BY <1>3 DEF Steps
<1>5. \A i \in 1..n, t \in A : F[i][t] = Body(i, t)
  OBVIOUS
<1> HIDE DEF F, A
<1> HIDE DEF n
<1>s. PICK g : Follows(g, map, F, A, n)
  BY <1>2, <1>4, Stepwise
<1>6. g \in [0..n -> A] /\ g[0] = map /\ \A i \in 1..n : g[i] = F[i][g[i - 1]]
  BY <1>s DEF Follows
<1>7. \A i \in 1..n : i - 1 \in 0..n /\ g[i] = Body(i, g[i - 1])
  BY <1>2, <1>5, <1>6
<1> HIDE DEF Body
<1>8. Step(g)
  <2>1. \A i \in 0..n : g[i] = IF i = 0 THEN map ELSE Body(i, g[i - 1])
    BY <1>2, <1>6, <1>7
  <2> QED
    BY <1>6, <2>1
<1>9. Step(f)
  <2> HIDE DEF Step
  <2> QED
    BY <1>8
<1> HIDE DEF f
<1>e. \A i \in 0..n : f[i] = IF i = 0 THEN map ELSE Body(i, f[i - 1])
  BY <1>9
<1>10. f[0] = map /\ \A i \in 1..n : f[i] = Body(i, f[i - 1])
  BY <1>2, <1>e
<1> DEFINE T == {i \in 0..n : /\ f[i] \in A /\ Once(f[i])
                             /\ ToSet(f[i]) = ToSet(map) \cup {kids[j] : j \in 1..i}}
<1>11. 0 \in T
  BY <1>2, <1>10
<1>12. ASSUME NEW i \in 1..n, i - 1 \in T PROVE i \in T
  <2> DEFINE t == f[i - 1]
             x == kids[i]
  <2>1. t \in A /\ Once(t) /\ ToSet(t) = ToSet(map) \cup {kids[j] : j \in 1..i - 1}
    BY <1>12
  <2>2. {kids[j] : j \in 1..i} = {kids[j] : j \in 1..i - 1} \cup {x}
    BY <1>2
  <2>3. f[i] = IF Contains(t, x) THEN t ELSE Append(t, x)
    BY <1>10 DEF Body
  <2>4. x \in BlockIds
    BY <1>2
  <2> HIDE DEF t, x
  <2>5. Contains(t, x) <=> x \in ToSet(t)
    <3>1. DOMAIN t = 1..Len(t)
      BY <2>1 DEF A
    <3> QED
      BY <3>1 DEF Contains, ToSet
  <2>i. i \in 0..n
    BY <1>2
  <2>6. CASE x \in ToSet(t)
    <3>1. f[i] = t
      BY <2>3, <2>5, <2>6
    <3>2. ToSet(map) \cup {kids[j] : j \in 1..i} = ToSet(t)
      BY <2>1, <2>2, <2>6
    <3> QED
      BY <2>1, <2>i, <3>1, <3>2
  <2>7. CASE x \notin ToSet(t)
    <3>1. f[i] = Append(t, x)
      BY <2>3, <2>5, <2>7
    <3>2. Append(t, x) \in A /\ ToSet(Append(t, x)) = ToSet(t) \cup {x} /\ Once(Append(t, x))
      BY <2>1, <2>4, <2>7, Appended DEF A, Once
    <3> QED
      <4>1. ToSet(map) \cup {kids[j] : j \in 1..i} = ToSet(t) \cup {x}
        BY <2>1, <2>2
      <4> QED
        BY <2>i, <3>1, <3>2, <4>1
  <2> QED
    BY <2>6, <2>7
<1> HIDE DEF T
<1>13. n \in T
  <2>1. Inductive(T, n)
    BY <1>11, <1>12 DEF Inductive
  <2> QED
    BY <1>2, <2>1, UpTo
<1>14. ToSet(kids) = {kids[j] : j \in 1..n}
  BY DEF ToSet, n
<1> QED
  BY <1>1, <1>13, <1>14 DEF T, A

-----------------------------------------------------------------------------

ImportPlaces ==
    {"token", "drive", "resolve", "blocks", "children", "write", "export", "poll", "download",
     "result", "confirm", "over"}

ImportType ==
    [at : ImportPlaces, kind : {"docx", "wiki", "sheets"}, tenant : BOOLEAN, polls : Nat,
     failed : BOOLEAN, ending : {"none", "blocks", "file", "error"}]

GatherType == [map : Seq(BlockIds), queue : Seq(BlockIds), asked : Seq(BlockIds), answered : SUBSET BlockIds]

GatherTypes == import \in ImportType /\ gathered \in GatherType

\* What the answers so far have in them.
Answered == ToSet(First) \cup UNION {ToSet(Kids[b]) : b \in gathered.answered}

\* While blocks are gathered: the map holds what was answered, each block once, and a
\* block with children was asked for them or is queued.
Gathering ==
    import.at = "children" =>
        /\ Once(gathered.map)
        /\ ToSet(gathered.map) = Answered
        /\ \A b \in ToSet(gathered.map) :
              Kids[b] # <<>> => b \in ToSet(gathered.asked) \cup ToSet(gathered.queue)

SourcesSafe == GatherTypes /\ Once(gathered.asked) /\ Gathering /\ NothingLeftUnasked

\* Nothing is asked before the first page has come.
NotAskedYet ==
    import.at \in {"token", "drive", "resolve", "blocks"} =>
        gathered.asked = <<>> /\ gathered.answered = {}

GatherInv == SourcesSafe /\ NotAskedYet

\* The gathering says what the runs check of it.
LEMMA GatheringComplete == GatherInv => SourcesInv
<1> SUFFICES ASSUME GatherInv PROVE SourcesInv
  OBVIOUS
<1>1. AskedOnce
  BY DEF GatherInv, SourcesSafe, AskedOnce, Once
<1>2. MapIsComplete
  <2> SUFFICES ASSUME import.at = "children"
               PROVE  /\ ToSet(gathered.map) = Answered
                      /\ Len(gathered.map) = Cardinality(ToSet(gathered.map))
    BY DEF MapIsComplete, Answered
  <2>1. gathered.map \in Seq(BlockIds) /\ Once(gathered.map) /\ ToSet(gathered.map) = Answered
    BY DEF GatherInv, SourcesSafe, GatherTypes, GatherType, Gathering
  <2> QED
    BY <2>1, LengthOfListed DEF Once
<1> QED
  BY <1>1, <1>2 DEF GatherInv, SourcesSafe, SourcesInv

\* Before the first request.
LEMMA GatherInit == SourcesInit => GatherInv
<1> SUFFICES ASSUME SourcesInit PROVE GatherInv
  OBVIOUS
<1>1. import \in ImportType /\ import.at \in {"token", "drive"}
  <2>1. import \in [at : {"token", "drive"}, kind : {"docx", "wiki", "sheets"}, tenant : BOOLEAN,
                    polls : {0}, failed : {FALSE}, ending : {"none"}]
    BY DEF SourcesInit
  <2>2. {"token", "drive"} \subseteq ImportPlaces /\ {0} \subseteq Nat
        /\ {"none"} \subseteq {"none", "blocks", "file", "error"}
    BY DEF ImportPlaces
  <2>3. {FALSE} \subseteq BOOLEAN
    OBVIOUS
  <2> HIDE DEF ImportPlaces
  <2> QED
    BY <2>1, <2>2, <2>3 DEF ImportType
<1>2. gathered = [map |-> <<>>, queue |-> <<>>, asked |-> <<>>, answered |-> {}]
  BY DEF SourcesInit
<1>3. gathered \in GatherType
  BY <1>2 DEF GatherType
<1> QED
  BY <1>1, <1>2, <1>3 DEF GatherInv, SourcesSafe, GatherTypes, Gathering, NothingLeftUnasked,
     NotAskedYet, Once

\* A step that leaves the blocks alone and does not enter the gathering or the writing.
LEMMA ElsewhereStep ==
    ASSUME GatherInv, gathered' = gathered, import' \in ImportType,
           import'.at \in {"children", "write", "token", "drive", "resolve"} => import'.at = import.at,
           import'.at = "blocks" => import.at \in {"token", "resolve"}
    PROVE  GatherInv'
BY DEF GatherInv, SourcesSafe, GatherTypes, Gathering, Answered, NothingLeftUnasked, NotAskedYet, Once

\* The fetch of the children of the first block of the queue.
LEMMA ChildrenStep ==
    ASSUME GatherInv, FetchChildren
    PROVE  GatherInv'
<1> USE SourcesAssumption
<1> DEFINE b == Head(gathered.queue)
           rest == Tail(gathered.queue)
<1>1. /\ import \in ImportType /\ import.at = "children"
      /\ gathered.map \in Seq(BlockIds) /\ gathered.asked \in Seq(BlockIds)
      /\ gathered.queue \in Seq(BlockIds) /\ gathered.queue # <<>>
      /\ gathered.answered \in SUBSET BlockIds
      /\ Once(gathered.asked) /\ Once(gathered.map) /\ ToSet(gathered.map) = Answered
      /\ \A c \in ToSet(gathered.map) :
            Kids[c] # <<>> => c \in ToSet(gathered.asked) \cup ToSet(gathered.queue)
  BY DEF FetchChildren, GatherInv, SourcesSafe, GatherTypes, GatherType, Gathering
<1>2. b \in BlockIds /\ rest \in Seq(BlockIds) /\ ToSet(gathered.queue) = {b} \cup ToSet(rest)
  BY <1>1, HeadAndRest
<1>3. Kids[b] \in Seq(BlockIds)
  BY <1>2 DEF BlockIds
<1>4. AlreadyAsked(b) <=> b \in ToSet(gathered.asked)
  <2>1. DOMAIN gathered.asked = 1..Len(gathered.asked)
    BY <1>1
  <2> HIDE DEF b
  <2> QED
    BY <2>1 DEF AlreadyAsked, Contains, ToSet
<1>5. \/ /\ AlreadyAsked(b)
         /\ gathered' = [gathered EXCEPT !.queue = rest]
         /\ import' = import
      \/ /\ ~ AlreadyAsked(b)
         /\ \/ /\ gathered' = [gathered EXCEPT
                     !.map = Extended(@, Kids[b]),
                     !.queue = rest \o ParentBlocks(Kids[b]),
                     !.asked = Append(@, b), !.answered = @ \cup {b}]
               /\ import' = import
            \/ /\ gathered' = [gathered EXCEPT !.queue = rest, !.asked = Append(@, b)]
               /\ import' = [import EXCEPT !.failed = TRUE]
            \/ /\ gathered' = [gathered EXCEPT !.queue = <<>>, !.asked = Append(@, b)]
               /\ import' = [import EXCEPT !.at = "export", !.failed = TRUE]
  BY DEF FetchChildren, FailAt
<1>g. gathered \in GatherType
  BY DEF GatherInv, SourcesSafe, GatherTypes
<1> DEFINE asked == Append(gathered.asked, b)
<1>6. asked \in Seq(BlockIds) /\ ToSet(asked) = ToSet(gathered.asked) \cup {b}
      /\ (~ AlreadyAsked(b) => Once(asked))
  <2>1. gathered.asked \in Seq(BlockIds) /\ b \in BlockIds
    BY <1>1, <1>2
  <2>2. \A i, j \in DOMAIN gathered.asked : gathered.asked[i] = gathered.asked[j] => i = j
    BY <1>1 DEF Once
  <2> HIDE DEF b
  <2>3. asked \in Seq(BlockIds) /\ ToSet(asked) = ToSet(gathered.asked) \cup {b}
    BY <2>1, Appended
  <2>4. ASSUME ~ AlreadyAsked(b) PROVE Once(asked)
    <3>1. b \notin ToSet(gathered.asked)
      BY <1>4, <2>4
    <3>2. \A i, j \in DOMAIN asked : asked[i] = asked[j] => i = j
      BY <2>1, <2>2, <3>1, Appended
    <3> QED
      BY <3>2 DEF Once
  <2> QED
    BY <2>3, <2>4
<1> HIDE DEF b, rest, asked
<1>7. CASE AlreadyAsked(b) /\ gathered' = [gathered EXCEPT !.queue = rest] /\ import' = import
  <2>1. /\ gathered'.map = gathered.map /\ gathered'.queue = rest
        /\ gathered'.asked = gathered.asked /\ gathered'.answered = gathered.answered
        /\ gathered' \in GatherType
    BY <1>g, <1>2, <1>7 DEF GatherType
  <2>2. Gathering'
    BY <1>1, <1>2, <1>4, <1>7, <2>1 DEF Gathering, Answered, Once
  <2> QED
    BY <1>1, <1>7, <2>1, <2>2
       DEF GatherInv, SourcesSafe, GatherTypes, NothingLeftUnasked, NotAskedYet, Once
<1>8. CASE /\ ~ AlreadyAsked(b)
           /\ gathered' = [gathered EXCEPT
                 !.map = Extended(@, Kids[b]), !.queue = rest \o ParentBlocks(Kids[b]),
                 !.asked = asked, !.answered = @ \cup {b}]
           /\ import' = import
  <2> DEFINE map == Extended(gathered.map, Kids[b])
             queue == rest \o ParentBlocks(Kids[b])
  <2>1. map \in Seq(BlockIds) /\ Once(map) /\ ToSet(map) = ToSet(gathered.map) \cup ToSet(Kids[b])
    BY <1>1, <1>3, ExtendedBy
  <2>2. queue \in Seq(BlockIds)
        /\ ToSet(queue) = ToSet(rest) \cup {c \in ToSet(Kids[b]) : Kids[c] # <<>>}
    BY <1>2, <1>3, ParentsOf, JoinedSets
  <2> HIDE DEF map, queue
  <2>3. /\ gathered'.map = map /\ gathered'.queue = queue
        /\ gathered'.asked = asked /\ gathered'.answered = gathered.answered \cup {b}
        /\ gathered' \in GatherType
    BY <1>g, <1>2, <1>6, <1>8, <2>1, <2>2 DEF GatherType, map, queue
  <2>4. ToSet(map) = Answered'
    BY <1>1, <2>1, <2>3 DEF Answered
  <2>5. \A c \in ToSet(map) : Kids[c] # <<>> => c \in ToSet(asked) \cup ToSet(queue)
    BY <1>1, <1>2, <1>6, <2>1, <2>2
  <2>6. Gathering'
    BY <2>1, <2>3, <2>4, <2>5 DEF Gathering, Once
  <2> QED
    BY <1>1, <1>6, <1>8, <2>3, <2>6
       DEF GatherInv, SourcesSafe, GatherTypes, NothingLeftUnasked, NotAskedYet, Once
<1>9. CASE /\ ~ AlreadyAsked(b)
           /\ gathered' = [gathered EXCEPT !.queue = rest, !.asked = asked]
           /\ import' = [import EXCEPT !.failed = TRUE]
  <2>1. /\ gathered'.map = gathered.map /\ gathered'.queue = rest
        /\ gathered'.asked = asked /\ gathered'.answered = gathered.answered
        /\ gathered' \in GatherType
    BY <1>g, <1>2, <1>6, <1>9 DEF GatherType
  <2>2. import' \in ImportType /\ import'.at = "children"
    BY <1>1, <1>9 DEF ImportType
  <2>3. Gathering'
    BY <1>1, <1>2, <1>6, <2>1 DEF Gathering, Answered, Once
  <2> QED
    BY <1>6, <1>9, <2>1, <2>2, <2>3
       DEF GatherInv, SourcesSafe, GatherTypes, NothingLeftUnasked, NotAskedYet, Once
<1>10. CASE /\ ~ AlreadyAsked(b)
            /\ gathered' = [gathered EXCEPT !.queue = <<>>, !.asked = asked]
            /\ import' = [import EXCEPT !.at = "export", !.failed = TRUE]
  <2>1. gathered'.asked = asked /\ gathered' \in GatherType
    <3>1. <<>> \in Seq(BlockIds)
      OBVIOUS
    <3> QED
      BY <1>g, <1>6, <1>10, <3>1 DEF GatherType
  <2>2. import' \in ImportType /\ import'.at = "export"
    BY <1>1, <1>10 DEF ImportType, ImportPlaces
  <2> QED
    BY <1>6, <1>10, <2>1, <2>2
       DEF GatherInv, SourcesSafe, GatherTypes, Gathering, NothingLeftUnasked, NotAskedYet, Once
<1> QED
  BY <1>5, <1>7, <1>8, <1>9, <1>10 DEF asked

\* Every step of an import.
LEMMA GatherStep == GatherInv /\ [SourcesNext]_sourcesVars => GatherInv'
<1> SUFFICES ASSUME GatherInv, [SourcesNext]_sourcesVars PROVE GatherInv'
  OBVIOUS
<1> USE SourcesAssumption
<1>0. import \in ImportType /\ gathered \in GatherType
  BY DEF GatherInv, SourcesSafe, GatherTypes
<1>t. \A at \in ImportPlaces :
        /\ [import EXCEPT !.at = at] \in ImportType /\ [import EXCEPT !.at = at].at = at
        /\ [import EXCEPT !.at = at, !.failed = TRUE] \in ImportType
        /\ [import EXCEPT !.at = at, !.failed = TRUE].at = at
  BY <1>0 DEF ImportType
<1>o. \A e \in {"blocks", "file", "error"} :
        /\ [import EXCEPT !.at = "over", !.ending = e] \in ImportType
        /\ [import EXCEPT !.at = "over", !.ending = e].at = "over"
        /\ [import EXCEPT !.at = "over", !.ending = e, !.failed = TRUE] \in ImportType
        /\ [import EXCEPT !.at = "over", !.ending = e, !.failed = TRUE].at = "over"
  BY <1>0 DEF ImportType, ImportPlaces
<1>m. ASSUME NEW at \in ImportPlaces, MoveTo(at) PROVE import' \in ImportType /\ import'.at = at
  BY <1>t, <1>m DEF MoveTo
<1>f. ASSUME NEW at \in ImportPlaces, FailAt(at) PROVE import' \in ImportType /\ import'.at = at
  BY <1>t, <1>f DEF FailAt
<1>b. ASSUME Break PROVE import' \in ImportType /\ import'.at = "over"
  BY <1>o, <1>b DEF Break
<1>v. ASSUME NEW e \in {"blocks", "file", "error"}, Give(e)
      PROVE  import' \in ImportType /\ import'.at = "over"
  BY <1>o, <1>v DEF Give
<1>1. CASE GetToken
  <2>1. import.at = "token" /\ gathered' = gathered
    BY <1>1 DEF GetToken
  <2>2. MoveTo("resolve") \/ MoveTo("blocks") \/ MoveTo("export") \/ Break
    <3>1. import.kind \in {"docx", "wiki", "sheets"}
      BY <1>0 DEF ImportType
    <3>2. FirstStop \in {"resolve", "blocks", "export"}
      BY <3>1 DEF FirstStop
    <3> QED
      BY <1>1, <3>2 DEF GetToken
  <2>3. import' \in ImportType /\ import'.at \in {"resolve", "blocks", "export", "over"}
    BY <1>m, <1>b, <2>2 DEF ImportPlaces
  <2>4. CASE import'.at # "resolve"
    BY <2>1, <2>3, <2>4, ElsewhereStep
  <2>5. CASE import'.at = "resolve"
    BY <2>1, <2>3, <2>5 DEF GatherInv, SourcesSafe, GatherTypes, Gathering, Answered,
       NothingLeftUnasked, NotAskedYet, Once
  <2> QED
    BY <2>4, <2>5
<1>2. CASE ResolveWiki
  BY <1>2, <1>m, <1>b, ElsewhereStep DEF ResolveWiki, ImportPlaces
<1>3. CASE FetchFirst
  <2>1. CASE FailAt("export") /\ gathered' = gathered
    BY <1>f, <2>1, ElsewhereStep DEF ImportPlaces
  <2>2. CASE /\ MoveTo(IF First = <<>> THEN "export" ELSE "children")
             /\ gathered' = [gathered EXCEPT !.map = Extended(<<>>, First),
                                             !.queue = ParentBlocks(First)]
    <3> DEFINE map == Extended(<<>>, First)
               queue == ParentBlocks(First)
    <3>1. First \in Seq(BlockIds) /\ <<>> \in Seq(BlockIds) /\ Once(<<>>) /\ ToSet(<<>>) = {}
      BY DEF BlockIds, Once, ToSet
    <3>2. map \in Seq(BlockIds) /\ Once(map) /\ ToSet(map) = ToSet(First)
      BY <3>1, ExtendedBy
    <3>3. queue \in Seq(BlockIds) /\ ToSet(queue) = {c \in ToSet(First) : Kids[c] # <<>>}
      BY <3>1, ParentsOf
    <3> HIDE DEF map, queue
    <3>4. gathered.asked = <<>> /\ gathered.answered = {}
      BY <1>3 DEF FetchFirst, GatherInv, NotAskedYet
    <3>5. /\ gathered'.map = map /\ gathered'.queue = queue /\ gathered'.asked = <<>>
          /\ gathered'.answered = {} /\ gathered' \in GatherType
      BY <1>0, <2>2, <3>2, <3>3, <3>4 DEF GatherType, map, queue
    <3>6. import' \in ImportType /\ import'.at \in {"export", "children"}
      BY <1>m, <2>2 DEF ImportPlaces
    <3>7. Answered' = ToSet(First)
      BY <3>5 DEF Answered
    <3>8. Gathering'
      BY <3>2, <3>3, <3>5, <3>7 DEF Gathering, Once
    <3> QED
      BY <3>1, <3>5, <3>6, <3>8
         DEF GatherInv, SourcesSafe, GatherTypes, NothingLeftUnasked, NotAskedYet, Once
  <2> QED
    BY <1>3, <2>1, <2>2 DEF FetchFirst
<1>4. CASE FetchChildren
  BY <1>4, ChildrenStep
<1>5. CASE BeginWriting
  <2>1. import.at = "children" /\ gathered.queue = <<>> /\ gathered' = gathered
    BY <1>5 DEF BeginWriting
  <2>2. import' \in ImportType /\ import'.at = "write"
    BY <1>5, <1>m DEF BeginWriting, ImportPlaces
  <2>3. ToSet(gathered.queue) = {}
    BY <2>1 DEF ToSet
  <2>4. NothingLeftUnasked'
    BY <2>1, <2>3 DEF GatherInv, SourcesSafe, Gathering, NothingLeftUnasked
  <2> QED
    BY <1>0, <2>1, <2>2, <2>4
       DEF GatherInv, SourcesSafe, GatherTypes, Gathering, NotAskedYet, Once
<1>6. CASE WriteBlock
  <2> DEFINE rest == Tail(gathered.map)
  <2>1. import.at = "write" /\ gathered.map # <<>> /\ gathered' = [gathered EXCEPT !.map = rest]
    BY <1>6 DEF WriteBlock
  <2>2. import' = import \/ import' = [import EXCEPT !.failed = TRUE]
    BY <1>6 DEF WriteBlock
  <2>3. import' \in ImportType /\ import'.at = "write"
    BY <1>0, <2>1, <2>2 DEF ImportType
  <2>4. gathered.map \in Seq(BlockIds)
    BY <1>0 DEF GatherType
  <2>5. rest \in Seq(BlockIds) /\ ToSet(rest) \subseteq ToSet(gathered.map)
    BY <2>1, <2>4, HeadAndRest
  <2> HIDE DEF rest
  <2>6. gathered' \in GatherType /\ gathered'.map = rest /\ gathered'.asked = gathered.asked
    BY <1>0, <2>1, <2>5 DEF GatherType
  <2> QED
    BY <2>1, <2>3, <2>5, <2>6
       DEF GatherInv, SourcesSafe, GatherTypes, Gathering, NothingLeftUnasked, NotAskedYet, Once
<1>7. CASE GiveBlocks
  BY <1>7, <1>m, <1>v, ElsewhereStep DEF GiveBlocks, ImportPlaces
<1>8. CASE CreateExport
  BY <1>8, <1>m, <1>b, ElsewhereStep DEF CreateExport, ImportPlaces
<1>9. CASE PollExport
  <2>1. import.at = "poll" /\ gathered' = gathered
    BY <1>9 DEF PollExport
  <2>2. ASSUME import' = [import EXCEPT !.polls = @ + 1]
        PROVE  import' \in ImportType /\ import'.at = "poll"
    <3>1. import.polls + 1 \in Nat
      BY <1>0 DEF ImportType
    <3> QED
      BY <1>0, <2>1, <2>2, <3>1 DEF ImportType
  <2>3. import' \in ImportType /\ import'.at \in {"download", "poll", "over"}
    BY <1>9, <1>m, <1>b, <2>2 DEF PollExport, ImportPlaces
  <2> QED
    BY <2>1, <2>3, ElsewhereStep
<1>10. CASE Download
  BY <1>10, <1>m, <1>b, ElsewhereStep DEF Download, ImportPlaces
<1>11. CASE FetchDrive
  BY <1>11, <1>m, <1>b, ElsewhereStep DEF FetchDrive, ImportPlaces
<1>12. CASE GiveFile
  BY <1>12, <1>v, ElsewhereStep DEF GiveFile
<1>13. CASE UNCHANGED sourcesVars
  BY <1>0, <1>13, ElsewhereStep DEF sourcesVars, GatherInv, SourcesSafe, GatherTypes, Gathering,
     Answered, NothingLeftUnasked, NotAskedYet, Once
<1> QED
  BY <1>1, <1>2, <1>3, <1>4, <1>5, <1>6, <1>7, <1>8, <1>9, <1>10, <1>11, <1>12, <1>13
     DEF SourcesNext

\* The blocks of a Feishu document are gathered once each and completely, whatever blocks
\* list each other as children and whichever requests fail (FeishuSource, core/sources).
THEOREM BlocksGathered == SourcesSpec => []SourcesInv
BY GatherInit, GatherStep, GatheringComplete, PTL DEF SourcesSpec

-----------------------------------------------------------------------------
(* Texts and vectors of an index run. *)

TextType == [page : PageNumbers, by : {"layer", "ocr", "vision"}, length : Nat, content : Nat]

AnswerType == [page : PageNumbers, raw : Nat, kept : Nat]

\* A text read on a page is a text of that page, as long as it was read.
LEMMA TextsFrom ==
    ASSUME NEW p \in PageNumbers, NEW by \in {"layer", "ocr", "vision"}, NEW read,
           read.raw \in Nat, read.kept \in Nat, NEW links \in Nat
    PROVE  /\ TextFrom(p, by, read, links) \in TextType
           /\ TextFrom(p, by, read, links).page = p
           /\ TextFrom(p, by, read, links).by = by
           /\ TextFrom(p, by, read, links).length = read.raw
<1> USE IngestAssumption
<1>1. LinkLength \in Nat
  OBVIOUS
<1>2. links * LinkLength \in Nat
  BY <1>1, ProductOfNats
<1> DEFINE more == links * LinkLength
<1>3. read.kept + more \in Nat
  <2> HIDE DEF more
  <2>1. more \in Nat
    BY <1>2 DEF more
  <2> QED
    BY <2>1
<1>4. TextFrom(p, by, read, links)
        = [page |-> p, by |-> by, length |-> read.raw, content |-> read.kept + more]
  BY DEF TextFrom
<1> DEFINE all == read.kept + more
<1> HIDE DEF all, more
<1>5. all \in Nat
  BY <1>3 DEF all
<1> QED
  BY <1>4, <1>5 DEF TextType, all

\* What the layers and the model say.
LEMMA ReadLengths ==
    /\ \A p \in PageNumbers : Layer[p].raw \in Nat /\ Layer[p].kept \in Nat /\ Pictures[p] \in Nat
    /\ \A answer \in Transcripts \cup {NothingRead} : answer.raw \in Nat /\ answer.kept \in Nat
<1> USE IngestAssumption
<1>1. \A p \in PageNumbers : Layer[p] \in Lengths /\ Pictures[p] \in Nat
  <2> HIDE DEF Lengths
  <2> QED
    BY DEF PageNumbers
<1> QED
  BY <1>1 DEF Lengths, NothingRead

PieceType == [text : TextType, part : Nat]

\* The pages to transcribe are those with little text.
LEMMA PoorPages == Poor \in Seq(PageNumbers) /\ ToSet(Poor) = {p \in PageNumbers : Layer[p].raw < ShortText}
<1> USE IngestAssumption
<1> DEFINE n == Len(Layer)
           K == {p \in PageNumbers : Layer[p].raw < ShortText}
           v == [p \in 1..n |-> p]
           Step(f) == f = [p \in 0..n |->
                             IF p = 0 THEN <<>>
                             ELSE IF Layer[p].raw < ShortText THEN Append(f[p - 1], p) ELSE f[p - 1]]
           f == CHOOSE g : Step(g)
<1>1. Poor = f[n]
  BY DEF Poor
<1>2. n \in Nat /\ PageNumbers = 1..n /\ v \in Values(PageNumbers, n)
  BY DEF PageNumbers, Values
<1>3. \A p \in 1..n : v[p] = p /\ (p \in K <=> Layer[p].raw < ShortText)
  BY <1>2
<1> HIDE DEF n, v, K
<1>4. PICK g : Gathers(g, v, K, n)
  BY <1>2, SomethingGathers
<1>5. Step(g)
  <2>1. ASSUME NEW p \in 0..n
        PROVE  g[p] = IF p = 0 THEN <<>>
                      ELSE IF Layer[p].raw < ShortText THEN Append(g[p - 1], p) ELSE g[p - 1]
    <3>1. p = 0 \/ p \in 1..n
      BY <1>2
    <3>2. g[0] = <<>>
      BY <1>4 DEF Gathers
    <3>3. ASSUME p \in 1..n
          PROVE  g[p] = IF Layer[p].raw < ShortText
                        THEN Append(g[p - 1], p) ELSE g[p - 1]
      <4>1. g[p] = IF p \in K THEN Append(g[p - 1], v[p]) ELSE g[p - 1]
        BY <1>4, <3>3 DEF Gathers
      <4> QED
        BY <1>3, <3>3, <4>1
    <3>4. p \in 1..n => p # 0
      BY <1>2
    <3> QED
      BY <3>1, <3>2, <3>3, <3>4
  <2>2. g = [p \in 0..n |-> g[p]]
    BY <1>4 DEF Gathers
  <2> QED
    BY <2>1, <2>2
<1>6. Step(f)
  <2> HIDE DEF Step
  <2> QED
    BY <1>5
<1> HIDE DEF f
<1>7. /\ f = [p \in 0..n |-> f[p]]
      /\ \A p \in 0..n : f[p] = IF p = 0 THEN <<>>
                               ELSE IF Layer[p].raw < ShortText THEN Append(f[p - 1], p) ELSE f[p - 1]
  BY <1>6
<1>8. Gathers(f, v, K, n)
  <2>1. 0 \in 0..n /\ \A p \in 1..n : p \in 0..n /\ p # 0
    BY <1>2
  <2> QED
    BY <1>3, <1>7, <2>1 DEF Gathers
<1>9. f[n] \in Seq(PageNumbers) /\ ToSet(f[n]) = Chosen(v, K, n)
  BY <1>2, <1>8, GathersThose
<1>10. Chosen(v, K, n) = K
  <2>1. \A j \in 1..n \cap K : v[j] = j
    BY <1>3
  <2>2. Chosen(v, K, n) = 1..n \cap K
    BY <2>1 DEF Chosen
  <2>3. K \subseteq 1..n
    BY <1>2 DEF K
  <2> QED
    BY <2>2, <2>3
<1> QED
  BY <1>1, <1>9, <1>10 DEF K

\* The documents are the texts of the pages that have one or an image.
LEMMA DocumentsOfPages ==
    ASSUME \A p \in PageNumbers : TextOfPage(p) \in TextType
    PROVE  /\ PageTexts \in Seq(TextType)
           /\ ToSet(PageTexts) =
                {TextOfPage(p) : p \in {q \in PageNumbers : TextOfPage(q).length > 0 \/ Pictures[q] > 0}}
<1> USE IngestAssumption
<1> DEFINE n == Len(Layer)
           K == {p \in PageNumbers : TextOfPage(p).length > 0 \/ Pictures[p] > 0}
           v == [p \in 1..n |-> TextOfPage(p)]
           Step(f) == f = [p \in 0..n |->
                             IF p = 0 THEN <<>>
                             ELSE IF TextOfPage(p).length > 0 \/ Pictures[p] > 0
                             THEN Append(f[p - 1], TextOfPage(p)) ELSE f[p - 1]]
           f == CHOOSE g : Step(g)
<1>1. PageTexts = f[n]
  BY DEF PageTexts
<1>2. n \in Nat /\ PageNumbers = 1..n /\ v \in Values(TextType, n)
  BY DEF PageNumbers, Values
<1>3. \A p \in 1..n : v[p] = TextOfPage(p)
                      /\ (p \in K <=> TextOfPage(p).length > 0 \/ Pictures[p] > 0)
  BY <1>2
<1> HIDE DEF n, v, K
<1>4. PICK g : Gathers(g, v, K, n)
  BY <1>2, SomethingGathers
<1>5. Step(g)
  <2>1. ASSUME NEW p \in 0..n
        PROVE  g[p] = IF p = 0 THEN <<>>
                      ELSE IF TextOfPage(p).length > 0 \/ Pictures[p] > 0
                      THEN Append(g[p - 1], TextOfPage(p)) ELSE g[p - 1]
    <3>1. p = 0 \/ p \in 1..n
      BY <1>2
    <3>2. g[0] = <<>>
      BY <1>4 DEF Gathers
    <3>3. ASSUME p \in 1..n
          PROVE  g[p] = IF TextOfPage(p).length > 0 \/ Pictures[p] > 0
                        THEN Append(g[p - 1], TextOfPage(p)) ELSE g[p - 1]
      <4>1. g[p] = IF p \in K THEN Append(g[p - 1], v[p]) ELSE g[p - 1]
        BY <1>4, <3>3 DEF Gathers
      <4> QED
        BY <1>3, <3>3, <4>1
    <3>4. p \in 1..n => p # 0
      BY <1>2
    <3> QED
      BY <3>1, <3>2, <3>3, <3>4
  <2>2. g = [p \in 0..n |-> g[p]]
    BY <1>4 DEF Gathers
  <2> QED
    BY <2>1, <2>2
<1>6. Step(f)
  <2> HIDE DEF Step
  <2> QED
    BY <1>5
<1> HIDE DEF f
<1>7. /\ f = [p \in 0..n |-> f[p]]
      /\ \A p \in 0..n : f[p] = IF p = 0 THEN <<>>
                               ELSE IF TextOfPage(p).length > 0 \/ Pictures[p] > 0
                               THEN Append(f[p - 1], TextOfPage(p)) ELSE f[p - 1]
  BY <1>6
<1>8. Gathers(f, v, K, n)
  <2>1. 0 \in 0..n /\ \A p \in 1..n : p \in 0..n /\ p # 0
    BY <1>2
  <2> QED
    BY <1>3, <1>7, <2>1 DEF Gathers
<1>9. f[n] \in Seq(TextType) /\ ToSet(f[n]) = Chosen(v, K, n)
  BY <1>2, <1>8, GathersThose
<1>10. Chosen(v, K, n) = {TextOfPage(p) : p \in K}
  BY <1>2, <1>3 DEF K, Chosen
<1> QED
  BY <1>1, <1>9, <1>10 DEF K

PiecesIn(ts) == FlattenSeq([n \in DOMAIN ts |-> PiecesOf(ts[n])])

\* The pieces of texts are a sequence of pieces.
LEMMA PiecesAre ==
    ASSUME NEW ts \in Seq(TextType)
    PROVE  PiecesIn(ts) \in Seq(PieceType)
<1> USE IngestAssumption
<1>1. ASSUME NEW t \in TextType PROVE PiecesOf(t) \in Seq(PieceType)
  <2> DEFINE k == (t.content + PieceLength - 1) \div PieceLength
  <2>1. t.content \in Nat /\ PieceLength \in Nat \ {0}
    BY DEF TextType
  <2> DEFINE a == t.content + PieceLength - 1
  <2>2. k \in Nat
    <3>1. a \in Nat
      BY <2>1
    <3>2. a \div PieceLength \in Nat
      BY <2>1, <3>1, Quotient
    <3> QED
      BY <3>2
  <2>3. PiecesOf(t) = [n \in 1..k |-> [text |-> t, part |-> n]]
    BY DEF PiecesOf
  <2> HIDE DEF k
  <2>4. PiecesOf(t) \in [1..k -> PieceType]
    BY <2>2, <2>3 DEF PieceType
  <2> QED
    BY <2>2, <2>4, SeqDef
<1>2. Len(ts) \in Nat /\ DOMAIN ts = 1..Len(ts) /\ \A n \in 1..Len(ts) : ts[n] \in TextType
  OBVIOUS
<1> DEFINE q == [n \in 1..Len(ts) |-> PiecesOf(ts[n])]
<1>3. q \in [1..Len(ts) -> Seq(PieceType)]
  BY <1>1, <1>2
<1>4. PiecesIn(ts) = FlattenSeq(q)
  BY <1>2 DEF PiecesIn
<1> HIDE DEF q
<1> QED
  BY <1>2, <1>3, <1>4, FlattenType

-----------------------------------------------------------------------------

VectorType == [of : PieceType, by : {"service", "ollama", "empty"}]

JobType ==
    [at : {"download", "parse", "ocr", "chunk", "embed", "ready", "failed"},
     kind : {"pdf", "text", "image"}, vision : BOOLEAN, ollama : BOOLEAN, attempt : Nat, sent : Nat]

OcrType ==
    [waiting : Seq(PageNumbers), reading : SUBSET PageNumbers,
     ended : Seq(AnswerType)]

IngestTypes ==
    /\ job \in JobType /\ ocr \in OcrType
    /\ texts \in Seq(TextType) /\ vectors \in Seq(VectorType)

\* Pages whose transcription has ended.
EndedPages == {e.page : e \in ToSet(ocr.ended)}

\* While pages are transcribed, each poor one waits, is read or has ended.
NoPageForgotten ==
    job.at = "ocr" => ToSet(Poor) \subseteq ToSet(ocr.waiting) \cup ocr.reading \cup EndedPages

\* Texts and vectors are of the attempt under way.
NothingEarly ==
    /\ job.at \in {"download", "parse", "ocr"} => texts = <<>>
    /\ job.at \in {"download", "parse", "ocr", "chunk"} => vectors = <<>> /\ job.sent = 0

\* There are no more vectors than pieces sent; while none was missing, they are those of
\* the first pieces, in their order.
VectorsOf ==
    /\ Len(vectors) <= job.sent /\ job.sent <= Len(Pieces)
    /\ Len(vectors) = job.sent => \A n \in DOMAIN vectors : vectors[n].of = Pieces[n]

IngestSafe == IngestTypes /\ NoPageForgotten /\ NothingEarly /\ VectorsOf /\ IngestInv

\* Without vectors nothing is in the wrong place.
LEMMA NoVectors == texts \in Seq(TextType) /\ vectors = <<>> /\ job.sent = 0 => VectorsOf
<1> SUFFICES ASSUME texts \in Seq(TextType), vectors = <<>>, job.sent = 0 PROVE VectorsOf
  OBVIOUS
<1>1. Pieces \in Seq(PieceType)
  BY PiecesAre DEF Pieces, PiecesIn
<1> QED
  BY <1>1 DEF VectorsOf

\* The same after a step.
LEMMA NoVectorsNext ==
    texts' \in Seq(TextType) /\ vectors' = <<>> /\ job'.sent = 0 => VectorsOf'
<1> SUFFICES ASSUME texts' \in Seq(TextType), vectors' = <<>>, job'.sent = 0 PROVE VectorsOf'
  OBVIOUS
<1>1. Pieces' = PiecesIn(texts')
  BY DEF Pieces, PiecesIn
<1>2. Pieces' \in Seq(PieceType)
  BY <1>1, PiecesAre
<1> QED
  BY <1>2 DEF VectorsOf

\* No attempt yet.
LEMMA IngestStart == IngestInit => IngestSafe
<1> SUFFICES ASSUME IngestInit PROVE IngestSafe
  OBVIOUS
<1>1. job \in [at : {"download"}, kind : {"pdf", "text", "image"}, vision : BOOLEAN,
               ollama : BOOLEAN, attempt : {1}, sent : {0}]
  BY DEF IngestInit
<1>2. job \in JobType /\ job.at = "download" /\ job.sent = 0
  <2>1. {1} \subseteq Nat /\ {0} \subseteq Nat
    OBVIOUS
  <2> QED
    BY <1>1, <2>1 DEF JobType
<1>3. ocr \in OcrType
  BY DEF IngestInit, NoOcr, OcrType
<1>4. texts = <<>> /\ vectors = <<>>
  BY DEF IngestInit
<1>5. VectorsOf
  BY <1>2, <1>4, NoVectors
<1>6. IngestInv
  BY <1>2, <1>4 DEF IngestInv, PageTextIsOwn, NoTextLost, VectorsFit
<1> QED
  BY <1>2, <1>3, <1>4, <1>5, <1>6
     DEF IngestSafe, IngestTypes, NoPageForgotten, NothingEarly

\* An exception leaves nothing of the attempt but its images.
LEMMA RaiseStep == IngestSafe /\ Raise => IngestSafe'
<1> SUFFICES ASSUME IngestSafe, Raise PROVE IngestSafe'
  OBVIOUS
<1>1. job \in JobType
  BY DEF IngestSafe, IngestTypes
<1>2. job' \in JobType /\ job'.at \in {"download", "failed"} /\ job'.sent = 0
  <2>1. job.attempt + 1 \in Nat
    BY <1>1 DEF JobType
  <2> QED
    BY <1>1, <2>1 DEF Raise, JobType
<1>3. ocr' \in OcrType
  BY DEF Raise, NoOcr, OcrType
<1>4. texts' = <<>> /\ vectors' = <<>>
  BY DEF Raise
<1>5. VectorsOf'
  BY <1>2, <1>4, NoVectorsNext
<1>6. IngestInv'
  BY <1>2, <1>4 DEF IngestInv, PageTextIsOwn, NoTextLost, VectorsFit
<1> QED
  BY <1>2, <1>3, <1>4, <1>5, <1>6
     DEF IngestSafe, IngestTypes, NoPageForgotten, NothingEarly

\* A step between the attempts' first places, without texts.
LEMMA EarlyStep ==
    ASSUME IngestSafe, job' \in JobType, ocr' \in OcrType, texts' = texts, vectors' = vectors,
           job.at \in {"download", "parse", "ocr"}, job'.at \in {"download", "parse", "ocr"},
           job'.sent = job.sent, NoPageForgotten'
    PROVE  IngestSafe'
<1>1. texts' = <<>> /\ vectors' = <<>> /\ job'.sent = 0
  BY DEF IngestSafe, NothingEarly
<1>2. VectorsOf'
  BY <1>1, NoVectorsNext
<1>3. IngestInv'
  BY <1>1 DEF IngestInv, PageTextIsOwn, NoTextLost, VectorsFit
<1> QED
  BY <1>1, <1>2, <1>3 DEF IngestSafe, IngestTypes, NothingEarly

\* The texts of a file that is not a PDF.
LEMMA ParsedStep ==
    ASSUME IngestSafe, job.at = "parse", job.kind # "pdf", Proceed("chunk"),
           NEW t \in TextType, t.by # "ocr", texts' = <<t>>, ocr' = ocr, vectors' = vectors
    PROVE  IngestSafe'
<1>1. job \in JobType /\ vectors = <<>> /\ job.sent = 0 /\ ocr \in OcrType
  BY DEF IngestSafe, IngestTypes, NothingEarly
<1>2. job' \in JobType /\ job'.at = "chunk" /\ job'.kind = job.kind /\ job'.sent = 0
  BY <1>1 DEF Proceed, JobType
<1>3. texts' \in Seq(TextType) /\ DOMAIN texts' = {1} /\ texts'[1] = t
  OBVIOUS
<1>4. VectorsOf'
  BY <1>1, <1>2, <1>3, NoVectorsNext
<1>5. IngestInv'
  BY <1>2, <1>3 DEF IngestInv, PageTextIsOwn, NoTextLost, VectorsFit
<1> QED
  BY <1>1, <1>2, <1>3, <1>4, <1>5
     DEF IngestSafe, IngestTypes, NoPageForgotten, NothingEarly

\* The pages given to the threads, and what they give back.
LEMMA TranscribeStep ==
    ASSUME IngestSafe, ReadLayers \/ StartOcr \/ \E p \in PageNumbers : EndOcr(p)
    PROVE  IngestSafe'
<1> USE IngestAssumption
<1>0. job \in JobType /\ ocr \in OcrType
  BY DEF IngestSafe, IngestTypes
<1>1. CASE ReadLayers
  <2>1. CASE Raise
    BY <2>1, RaiseStep
  <2>2. CASE /\ ocr' = [NoOcr EXCEPT !.waiting = Poor]
             /\ Proceed("ocr") /\ UNCHANGED <<texts, vectors, inserted>>
    <3>1. job' \in JobType /\ job'.at = "ocr" /\ job.at = "parse" /\ job'.sent = job.sent
      BY <1>0, <1>1, <2>2 DEF ReadLayers, Proceed, JobType
    <3>2. ocr' \in OcrType /\ ocr'.waiting = Poor
      <4>1. <<>> \in Seq(AnswerType) /\ {} \in SUBSET PageNumbers
        OBVIOUS
      <4> QED
        BY <2>2, <4>1, PoorPages DEF NoOcr, OcrType
    <3>3. NoPageForgotten'
      BY <3>2 DEF NoPageForgotten
    <3> QED
      BY <2>2, <3>1, <3>2, <3>3, EarlyStep
  <2> QED
    BY <1>1, <2>1, <2>2 DEF ReadLayers
<1>2. CASE StartOcr
  <2> DEFINE p == Head(ocr.waiting)
             rest == Tail(ocr.waiting)
  <2>1. /\ ocr.waiting \in Seq(PageNumbers) /\ ocr.waiting # <<>> /\ job.at = "ocr"
        /\ job' = job /\ texts' = texts /\ vectors' = vectors
        /\ ocr' = [ocr EXCEPT !.waiting = rest, !.reading = ocr.reading \cup {p}]
    BY <1>0, <1>2 DEF StartOcr, OcrType
  <2>2. p \in PageNumbers /\ rest \in Seq(PageNumbers)
        /\ ToSet(ocr.waiting) = {p} \cup ToSet(rest)
    BY <2>1, HeadAndRest
  <2> HIDE DEF p, rest
  <2>3. /\ ocr' \in OcrType /\ ocr'.waiting = rest /\ ocr'.reading = ocr.reading \cup {p}
        /\ ocr'.ended = ocr.ended
    BY <1>0, <2>1, <2>2 DEF OcrType
  <2>4. EndedPages' = EndedPages
    BY <2>3 DEF EndedPages
  <2>5. NoPageForgotten'
    BY <2>1, <2>2, <2>3, <2>4 DEF NoPageForgotten, IngestSafe
  <2> QED
    BY <1>0, <2>1, <2>3, <2>5, EarlyStep
<1>3. ASSUME NEW p \in PageNumbers, EndOcr(p) PROVE IngestSafe'
  <2>1. PICK answer \in (IF job.vision THEN Transcripts ELSE {}) \cup {NothingRead} :
          ocr' = [ocr EXCEPT !.reading = ocr.reading \ {p},
                             !.ended = Append(ocr.ended,
                                 [page |-> p, raw |-> answer.raw, kept |-> answer.kept])]
    BY <1>3 DEF EndOcr
  <2>2. answer.raw \in Nat /\ answer.kept \in Nat
    <3>1. answer \in Transcripts \cup {NothingRead}
      BY <2>1
    <3> QED
      BY <3>1, ReadLengths
  <2> DEFINE e == [page |-> p, raw |-> answer.raw, kept |-> answer.kept]
             E == AnswerType
             ended == Append(ocr.ended, e)
  <2>3. e \in E /\ e.page = p
    BY <2>2 DEF AnswerType
  <2>4. ocr.ended \in Seq(E)
    BY <1>0 DEF OcrType
  <2> HIDE DEF e
  <2>5. ended \in Seq(E) /\ ToSet(ended) = ToSet(ocr.ended) \cup {e}
    <3> HIDE DEF E
    <3> QED
      BY <2>3, <2>4, Appended
  <2> HIDE DEF ended
  <2>6. /\ ocr' \in OcrType /\ ocr'.waiting = ocr.waiting /\ ocr'.reading = ocr.reading \ {p}
        /\ ocr'.ended = ended
    BY <1>0, <2>1, <2>5 DEF OcrType, ended, e
  <2>7. EndedPages' = EndedPages \cup {p}
    BY <2>3, <2>5, <2>6 DEF EndedPages
  <2>8. job' = job /\ texts' = texts /\ vectors' = vectors /\ job.at = "ocr"
    BY <1>3 DEF EndOcr
  <2>9. NoPageForgotten'
    BY <2>6, <2>7, <2>8 DEF NoPageForgotten, IngestSafe
  <2> QED
    BY <1>0, <2>6, <2>8, <2>9, EarlyStep
<1> QED
  BY <1>1, <1>2, <1>3

\* The documents of a PDF, when the last page was read.
LEMMA AssembleStep ==
    ASSUME IngestSafe, Assemble
    PROVE  IngestSafe'
<1> USE IngestAssumption
<1>0. /\ job \in JobType /\ ocr \in OcrType /\ vectors = <<>> /\ job.sent = 0 /\ job.at = "ocr"
      /\ ocr.waiting = <<>> /\ ocr.reading = {}
  BY DEF IngestSafe, IngestTypes, NothingEarly, Assemble
<1>e. \A m \in DOMAIN ocr.ended : ocr.ended[m] \in AnswerType
  <2>1. ocr.ended \in Seq(AnswerType)
    BY <1>0 DEF OcrType
  <2> HIDE DEF AnswerType
  <2> QED
    BY <2>1
<1>1. CASE Raise
  BY <1>1, RaiseStep
<1>2. CASE texts' = PageTexts /\ Proceed("chunk") /\ UNCHANGED <<ocr, vectors, inserted>>
  <2>1. job' \in JobType /\ job'.at = "chunk" /\ job'.sent = 0 /\ vectors' = <<>> /\ ocr' = ocr
    BY <1>0, <1>2 DEF Proceed, JobType
  <2>2. ToSet(Poor) \subseteq EndedPages
    <3>1. ToSet(<<>>) = {}
      BY DEF ToSet
    <3> QED
      BY <1>0, <3>1 DEF IngestSafe, NoPageForgotten
  <2>3. ASSUME NEW p \in ToSet(Poor)
        PROVE  AnswerOf(p) \in ToSet(ocr.ended) /\ AnswerOf(p).page = p
               /\ AnswerOf(p).raw \in Nat /\ AnswerOf(p).kept \in Nat
    <3>1. PICK e \in ToSet(ocr.ended) : e.page = p
      BY <2>2 DEF EndedPages
    <3>2. PICK n \in DOMAIN ocr.ended : ocr.ended[n] = e
      BY DEF ToSet
    <3> DEFINE m == CHOOSE k \in DOMAIN ocr.ended : ocr.ended[k].page = p
    <3>3. m \in DOMAIN ocr.ended /\ ocr.ended[m].page = p
      BY <3>1, <3>2
    <3>4. AnswerOf(p) = ocr.ended[m]
      BY DEF AnswerOf
    <3> HIDE DEF m
    <3>5. ocr.ended[m] \in AnswerType
      BY <1>e, <3>3
    <3>6. /\ ocr.ended[m].raw \in Nat /\ ocr.ended[m].kept \in Nat
          /\ ocr.ended[m] \in ToSet(ocr.ended)
      BY <3>3, <3>5 DEF AnswerType, ToSet
    <3> QED
      BY <3>3, <3>4, <3>6
  <2>4. ASSUME NEW p \in PageNumbers
        PROVE  /\ TextOfPage(p) \in TextType /\ TextOfPage(p).page = p
               /\ TextOfPage(p).length >= Layer[p].raw
               /\ TextOfPage(p).by = "ocr" =>
                     \E answer \in ToSet(ocr.ended) :
                        TextOfPage(p) = TextFrom(answer.page, "ocr", answer, Pictures[answer.page])
    <3>1. Layer[p].raw \in Nat /\ Layer[p].kept \in Nat /\ Pictures[p] \in Nat
      BY ReadLengths
    <3>2. CASE Contains(Poor, p) /\ Richer(p, AnswerOf(p))
      <4>1. p \in ToSet(Poor)
        <5>1. DOMAIN Poor = 1..Len(Poor)
          BY PoorPages
        <5> QED
          BY <3>2, <5>1 DEF Contains, ToSet
      <4> DEFINE answer == AnswerOf(p)
      <4>2. TextOfPage(p) = TextFrom(p, "ocr", answer, Pictures[p])
        BY <3>2 DEF TextOfPage
      <4>3. /\ answer \in ToSet(ocr.ended) /\ answer.page = p
            /\ answer.raw \in Nat /\ answer.kept \in Nat
        BY <2>3, <4>1
      <4>4. answer.raw > Layer[p].raw
        BY <3>2 DEF Richer
      <4> HIDE DEF answer
      <4>5. /\ TextOfPage(p) \in TextType /\ TextOfPage(p).page = p
            /\ TextOfPage(p).length = answer.raw
        BY <3>1, <4>2, <4>3, TextsFrom
      <4>6. TextOfPage(p).length >= Layer[p].raw
        BY <3>1, <4>3, <4>4, <4>5
      <4>7. TextOfPage(p) = TextFrom(answer.page, "ocr", answer, Pictures[answer.page])
        BY <4>2, <4>3
      <4> QED
        BY <4>3, <4>5, <4>6, <4>7
    <3>3. CASE ~ (Contains(Poor, p) /\ Richer(p, AnswerOf(p)))
      <4>1. TextOfPage(p) = TextFrom(p, "layer", Layer[p], Pictures[p])
        BY <3>3 DEF TextOfPage
      <4>2. /\ TextOfPage(p) \in TextType /\ TextOfPage(p).page = p
            /\ TextOfPage(p).length = Layer[p].raw /\ TextOfPage(p).by = "layer"
        BY <3>1, <4>1, TextsFrom
      <4>3. TextOfPage(p).length >= Layer[p].raw
        BY <3>1, <4>2
      <4> QED
        BY <4>2, <4>3
    <3> QED
      BY <3>2, <3>3
  <2>5. /\ PageTexts \in Seq(TextType)
        /\ ToSet(PageTexts) =
             {TextOfPage(p) : p \in {q \in PageNumbers : TextOfPage(q).length > 0 \/ Pictures[q] > 0}}
    BY <2>4, DocumentsOfPages
  <2>6. ASSUME NEW n \in DOMAIN PageTexts, PageTexts[n].by = "ocr"
        PROVE  \E answer \in ToSet(ocr.ended) :
                  PageTexts[n] = TextFrom(answer.page, "ocr", answer, Pictures[answer.page])
    <3>1. PageTexts[n] \in ToSet(PageTexts)
      BY DEF ToSet
    <3>2. PICK p \in PageNumbers : PageTexts[n] = TextOfPage(p)
      BY <2>5, <3>1
    <3> QED
      BY <2>4, <2>6, <3>2
  <2>7. ASSUME NEW p \in PageNumbers, Layer[p].raw > 0 \/ Pictures[p] > 0
        PROVE  \E n \in DOMAIN PageTexts :
                  PageTexts[n].page = p /\ PageTexts[n].length >= Layer[p].raw
    <3>1. TextOfPage(p).length > 0 \/ Pictures[p] > 0
      <4> DEFINE t == TextOfPage(p)
      <4>1. t \in TextType /\ t.length >= Layer[p].raw
        BY <2>4
      <4> HIDE DEF t
      <4>2. Layer[p].raw \in Nat /\ t.length \in Nat
        BY <4>1, ReadLengths DEF TextType
      <4>3. Layer[p].raw > 0 => t.length > 0
        BY <4>1, <4>2
      <4> QED
        BY <2>7, <4>3 DEF t
    <3>2. TextOfPage(p) \in ToSet(PageTexts)
      BY <2>5, <3>1
    <3>3. PICK n \in DOMAIN PageTexts : PageTexts[n] = TextOfPage(p)
      BY <3>2 DEF ToSet
    <3> QED
      BY <2>4, <3>3
  <2>8. IngestInv'
    <3>1. PageTextIsOwn'
      BY <1>2, <2>1, <2>6 DEF PageTextIsOwn
    <3>2. NoTextLost'
      BY <1>2, <2>7 DEF NoTextLost
    <3>3. VectorsFit'
      BY <2>1 DEF VectorsFit
    <3> QED
      BY <3>1, <3>2, <3>3 DEF IngestInv
  <2>9. texts' \in Seq(TextType)
    BY <1>2, <2>5
  <2>10. VectorsOf'
    BY <2>1, <2>9, NoVectorsNext
  <2> QED
    BY <1>0, <2>1, <2>8, <2>9, <2>10
       DEF IngestSafe, IngestTypes, NoPageForgotten, NothingEarly
<1> QED
  BY <1>1, <1>2 DEF Assemble

\* A step after the texts are there that changes no text and has not made it ready.
LEMMA LateStep ==
    ASSUME IngestSafe, job' \in JobType, job'.kind = job.kind, ocr' = ocr, texts' = texts,
           job'.at \in {"embed", "failed"}, vectors' \in Seq(VectorType), VectorsOf'
    PROVE  IngestSafe'
<1>1. IngestInv'
  BY DEF IngestSafe, IngestInv, PageTextIsOwn, NoTextLost, VectorsFit
<1> QED
  BY <1>1 DEF IngestSafe, IngestTypes, NoPageForgotten, NothingEarly

\* A batch of vectors is that of the next pieces.
LEMMA EmbedStep ==
    ASSUME IngestSafe, EmbedBatch
    PROVE  IngestSafe'
<1> USE IngestAssumption
<1>1. CASE Raise
  BY <1>1, RaiseStep
<1>0. /\ job \in JobType /\ vectors \in Seq(VectorType) /\ texts \in Seq(TextType)
      /\ job.at = "embed" /\ job.sent < Len(Pieces) /\ Len(vectors) <= job.sent
      /\ Len(vectors) = job.sent => \A n \in DOMAIN vectors : vectors[n].of = Pieces[n]
  BY DEF IngestSafe, IngestTypes, EmbedBatch, VectorsOf
<1>p. Pieces \in Seq(PieceType)
  BY <1>0, PiecesAre DEF Pieces, PiecesIn
<1> DEFINE a == Len(vectors)
           s == job.sent
           k == Len(Batch)
<1>n. a \in Nat /\ s \in Nat /\ a <= s
  BY <1>0 DEF JobType
<1>b. /\ k \in Nat /\ s + k <= Len(Pieces) /\ DOMAIN Batch = 1..k
      /\ Batch \in Seq(PieceType)
      /\ \A n \in 1..k : Batch[n] = Pieces[s + n] /\ Batch[n] \in PieceType
  <2> DEFINE e == IF s + BatchLength < Len(Pieces) THEN s + BatchLength ELSE Len(Pieces)
  <2>1. s \in Nat /\ Len(Pieces) \in Nat /\ BatchLength \in Nat /\ s < Len(Pieces)
    BY <1>0, <1>n, <1>p
  <2>2. Batch = SubSeq(Pieces, s + 1, e)
    BY DEF Batch
  <2>3. e \in s..Len(Pieces)
    BY <2>1
  <2> HIDE DEF e, s, k
  <2>4. /\ Len(SubSeq(Pieces, s + 1, e)) = e - s
        /\ DOMAIN SubSeq(Pieces, s + 1, e) = 1..e - s
        /\ \A n \in 1..e - s : SubSeq(Pieces, s + 1, e)[n] = Pieces[s + n]
    BY <1>p, <2>1, <2>3
  <2>5. k = e - s
    BY <2>2, <2>4 DEF k
  <2>6. k \in Nat /\ s + k <= Len(Pieces) /\ \A n \in 1..k : s + n \in 1..Len(Pieces)
    BY <2>1, <2>3, <2>5
  <2>7. \A n \in 1..k : Pieces[s + n] \in PieceType
    BY <1>p, <2>6
  <2>8. \A n \in 1..k : Batch[n] = Pieces[s + n] /\ Batch[n] \in PieceType
    BY <2>2, <2>4, <2>5, <2>7
  <2>9. DOMAIN Batch = 1..k
    BY <2>2, <2>4, <2>5
  <2>10. Batch \in Seq(PieceType)
    <3>1. SubSeq(Pieces, s + 1, e) \in Seq(PieceType)
      <4>1. \A i \in (s + 1)..e : i \in 1..Len(Pieces)
        BY <2>1, <2>3
      <4> HIDE DEF PieceType
      <4> QED
        BY <1>p, <2>1, <2>3, <4>1, SubSeqProperties
    <3> QED
      BY <2>2, <3>1
  <2> QED
    BY <2>6, <2>8, <2>9, <2>10
<1>2. ASSUME NEW m \in 0..k, NEW more, more \in [1..m -> VectorType],
             \A n \in 1..m : more[n].of = Batch[n], vectors' = vectors \o more,
             job' = [job EXCEPT !.sent = @ + Len(Batch)], UNCHANGED <<ocr, texts, inserted>>
      PROVE  IngestSafe'
  <2>j. job' \in JobType /\ job'.kind = job.kind /\ job'.at = "embed" /\ job'.sent = s + k
    <3>1. job.sent + Len(Batch) \in Nat
      BY <1>n, <1>b
    <3> QED
      BY <1>0, <1>2, <3>1 DEF JobType
  <2> HIDE DEF k, a, s
  <2>m. m \in Nat /\ m <= k
    BY <1>b, <1>2
  <2>1. more \in Seq(VectorType) /\ Len(more) = m
    <3>1. more \in Values(VectorType, m)
      BY <1>2 DEF Values
    <3> HIDE DEF VectorType
    <3> QED
      BY <2>m, <3>1, ValuesAreListed
  <2>a. a = Len(vectors)
    BY DEF a
  <2>2. /\ vectors' \in Seq(VectorType) /\ Len(vectors') = a + m /\ DOMAIN vectors' = 1..a + m
        /\ \A n \in 1..a + m : vectors'[n] = IF n <= a THEN vectors[n] ELSE more[n - a]
    <3> HIDE DEF VectorType
    <3>1. vectors' = vectors \o more
      BY <1>2
    <3>2. vectors \in Seq(VectorType)
      BY <1>0
    <3>3. /\ vectors \o more \in Seq(VectorType) /\ Len(vectors \o more) = Len(vectors) + Len(more)
          /\ DOMAIN (vectors \o more) = 1..Len(vectors) + Len(more)
          /\ \A i \in 1..Len(vectors) + Len(more) :
                (vectors \o more)[i] = IF i <= Len(vectors) THEN vectors[i] ELSE more[i - Len(vectors)]
      BY <2>1, <3>2, PutBehind
    <3> QED
      BY <2>1, <2>a, <3>1, <3>3
  <2>3. ASSUME a + m = s + k, NEW n \in 1..a + m PROVE vectors'[n].of = Pieces[n]
    <3>0. a = s /\ m = k
      BY <1>n, <1>b, <2>m, <2>3
    <3>1. CASE n <= a
      <4>1. n \in DOMAIN vectors
        BY <1>0, <1>n, <2>m, <2>a, <3>1
      <4>2. vectors[n].of = Pieces[n]
        BY <1>0, <2>a, <3>0, <4>1 DEF s
      <4> QED
        BY <2>2, <3>1, <4>2
    <3>2. CASE ~ (n <= a)
      <4>1. n - a \in 1..k /\ s + (n - a) = n
        BY <1>n, <1>b, <3>0, <3>2
      <4> QED
        BY <1>2, <1>b, <2>2, <3>0, <3>2, <4>1
    <3> QED
      BY <3>1, <3>2
  <2>4. Pieces' = Pieces
    BY <1>2 DEF Pieces
  <2>5. VectorsOf'
    <3>1. Len(vectors') <= job'.sent /\ job'.sent <= Len(Pieces)
      BY <1>n, <1>b, <2>m, <2>2, <2>j
    <3> QED
      BY <2>2, <2>3, <2>4, <2>j, <3>1 DEF VectorsOf
  <2> QED
    BY <1>2, <2>2, <2>5, <2>j, LateStep
<1>3. ASSUME NEW given \in 0..Len(Batch),
             vectors' = vectors \o VectorsBy("service", SubSeq(Batch, 1, given)),
             job' = [job EXCEPT !.sent = @ + Len(Batch)], UNCHANGED <<ocr, texts, inserted>>
      PROVE  IngestSafe'
  <2> DEFINE more == VectorsBy("service", SubSeq(Batch, 1, given))
  <2>0. given \in 0..k /\ given \in Nat /\ given <= Len(Batch)
    BY <1>b, <1>3
  <2> HIDE DEF k
  <2>1. /\ DOMAIN SubSeq(Batch, 1, given) = 1..given
        /\ \A n \in 1..given : SubSeq(Batch, 1, given)[n] = Batch[n]
    BY <1>b, <2>0
  <2>2. \A n \in 1..given : Batch[n] \in PieceType
    BY <1>b, <2>0
  <2>3. more \in [1..given -> VectorType] /\ \A n \in 1..given : more[n].of = Batch[n]
    BY <2>1, <2>2 DEF VectorsBy, VectorType
  <2> HIDE DEF more
  <2> QED
    BY <1>2, <1>3, <2>0, <2>3 DEF more
<1>4. ASSUME NEW missing \in SUBSET DOMAIN Batch,
             vectors' = vectors \o [n \in DOMAIN Batch |->
                 [of |-> Batch[n], by |-> IF n \in missing THEN "empty" ELSE "ollama"]],
             job' = [job EXCEPT !.sent = @ + Len(Batch)], UNCHANGED <<ocr, texts, inserted>>
      PROVE  IngestSafe'
  <2> DEFINE more == [n \in DOMAIN Batch |->
                        [of |-> Batch[n], by |-> IF n \in missing THEN "empty" ELSE "ollama"]]
  <2>0. k \in 0..k
    BY <1>b
  <2>1. more \in [1..k -> VectorType] /\ \A n \in 1..k : more[n].of = Batch[n]
    BY <1>b DEF VectorType
  <2> HIDE DEF more, k
  <2> QED
    BY <1>2, <1>4, <2>0, <2>1 DEF more
<1> QED
  BY <1>1, <1>3, <1>4 DEF EmbedBatch

\* The chunks are inserted when each piece has its vector.
LEMMA InsertStep ==
    ASSUME IngestSafe, Insert
    PROVE  IngestSafe'
<1>0. job.sent = Len(Pieces)
  <2>1. job \in JobType /\ texts \in Seq(TextType) /\ job.sent <= Len(Pieces) /\ job.sent >= Len(Pieces)
    BY DEF IngestSafe, IngestTypes, VectorsOf, Insert
  <2>2. job.sent \in Nat /\ Len(Pieces) \in Nat
    BY <2>1, PiecesAre DEF Pieces, PiecesIn, JobType
  <2> QED
    BY <2>1, <2>2
<1>1. CASE Raise
  BY <1>1, RaiseStep
<1>2. CASE /\ Len(vectors) = Len(Pieces)
           /\ inserted' = [n \in DOMAIN Pieces |-> [piece |-> Pieces[n], vector |-> vectors[n]]]
           /\ Proceed("ready") /\ UNCHANGED <<ocr, texts, vectors>>
  <2>1. /\ job \in JobType /\ vectors \in Seq(VectorType) /\ texts \in Seq(TextType)
        /\ \A n \in DOMAIN vectors : vectors[n].of = Pieces[n]
    BY <1>0, <1>2 DEF IngestSafe, IngestTypes, VectorsOf
  <2>2. Pieces \in Seq(PieceType)
    BY <2>1, PiecesAre DEF Pieces, PiecesIn
  <2>3. DOMAIN vectors = DOMAIN Pieces
    BY <1>2, <2>1, <2>2
  <2>4. Pieces' = Pieces
    BY <1>2 DEF Pieces
  <2>5. job' \in JobType /\ job'.kind = job.kind /\ job'.at = "ready" /\ job'.sent = job.sent
    BY <1>2, <2>1 DEF Proceed, JobType
  <2>6. VectorsFit'
    <3>1. \A n \in DOMAIN Pieces :
             inserted'[n].piece = Pieces[n] /\ inserted'[n].vector = vectors[n]
      BY <1>2
    <3>2. DOMAIN inserted' = DOMAIN Pieces
      BY <1>2
    <3>3. [n \in DOMAIN inserted' |-> inserted'[n].piece] = Pieces
      BY <2>2, <3>1, <3>2
    <3> QED
      BY <2>1, <2>3, <2>4, <3>1, <3>2, <3>3 DEF VectorsFit
  <2>7. IngestInv'
    BY <1>2, <2>5, <2>6 DEF IngestSafe, IngestInv, PageTextIsOwn, NoTextLost
  <2>8. VectorsOf'
    BY <1>2, <2>4, <2>5 DEF IngestSafe, VectorsOf
  <2> QED
    BY <1>2, <2>5, <2>7, <2>8
       DEF IngestSafe, IngestTypes, NoPageForgotten, NothingEarly
<1> QED
  BY <1>1, <1>2 DEF Insert

\* Every step of an index run.
LEMMA IngestStep == IngestSafe /\ [IngestNext]_ingestVars => IngestSafe'
<1> SUFFICES ASSUME IngestSafe, [IngestNext]_ingestVars PROVE IngestSafe'
  OBVIOUS
<1> USE IngestAssumption
<1>0. job \in JobType /\ ocr \in OcrType /\ texts \in Seq(TextType) /\ vectors \in Seq(VectorType)
  BY DEF IngestSafe, IngestTypes
<1>1. CASE DownloadFile
  <2>1. CASE Raise
    BY <2>1, RaiseStep
  <2>2. CASE Proceed("parse") /\ UNCHANGED <<ocr, texts, vectors, inserted>>
    <3>1. job' \in JobType /\ job'.at = "parse" /\ job.at = "download" /\ job'.sent = job.sent
      BY <1>0, <1>1, <2>2 DEF DownloadFile, Proceed, JobType
    <3>2. NoPageForgotten'
      BY <3>1 DEF NoPageForgotten
    <3> QED
      BY <1>0, <2>2, <3>1, <3>2, EarlyStep
  <2> QED
    BY <1>1, <2>1, <2>2 DEF DownloadFile
<1>2. CASE ParseText
  <2>1. CASE Raise
    BY <2>1, RaiseStep
  <2>2. ASSUME NEW p \in PageNumbers, texts' = <<TextFrom(1, "layer", Layer[p], 0)>>,
               Proceed("chunk"), UNCHANGED <<ocr, vectors, inserted>>
        PROVE  IngestSafe'
    <3> DEFINE t == TextFrom(1, "layer", Layer[p], 0)
    <3>1. 1 \in PageNumbers
      BY DEF PageNumbers
    <3>2. t \in TextType /\ t.by # "ocr"
      BY <3>1, ReadLengths, TextsFrom
    <3>3. job.at = "parse" /\ job.kind # "pdf"
      BY <1>2 DEF ParseText
    <3> HIDE DEF t
    <3> QED
      BY <2>2, <3>2, <3>3, ParsedStep DEF t
  <2> QED
    BY <1>2, <2>1, <2>2 DEF ParseText
<1>3. CASE ParseImage
  <2>1. CASE Raise
    BY <2>1, RaiseStep
  <2>2. ASSUME NEW answer \in Transcripts, texts' = <<TextFrom(1, "vision", answer, 0)>>,
               Proceed("chunk"), UNCHANGED <<ocr, vectors, inserted>>
        PROVE  IngestSafe'
    <3> DEFINE t == TextFrom(1, "vision", answer, 0)
    <3>1. 1 \in PageNumbers
      BY DEF PageNumbers
    <3>2. t \in TextType /\ t.by # "ocr"
      BY <3>1, ReadLengths, TextsFrom
    <3>3. job.at = "parse" /\ job.kind # "pdf"
      BY <1>3 DEF ParseImage
    <3> HIDE DEF t
    <3> QED
      BY <2>2, <3>2, <3>3, ParsedStep DEF t
  <2> QED
    BY <1>3, <2>1, <2>2 DEF ParseImage
<1>4. CASE ReadLayers \/ StartOcr \/ \E p \in PageNumbers : EndOcr(p)
  BY <1>4, TranscribeStep
<1>5. CASE Assemble
  BY <1>5, AssembleStep
<1>6. CASE Chunk
  <2>1. job' \in JobType /\ job'.at \in {"embed", "failed"} /\ job'.kind = job.kind
        /\ job'.sent = job.sent
    BY <1>0, <1>6 DEF Chunk, Proceed, JobType
  <2>2. ocr' = ocr /\ texts' = texts /\ vectors' = vectors
    BY <1>6 DEF Chunk
  <2>3. Pieces' = Pieces
    BY <2>2 DEF Pieces
  <2>4. VectorsOf'
    BY <2>1, <2>2, <2>3 DEF IngestSafe, VectorsOf
  <2> QED
    BY <1>0, <2>1, <2>2, <2>4, LateStep
<1>7. CASE EmbedBatch
  BY <1>7, EmbedStep
<1>8. CASE Insert
  BY <1>8, InsertStep
<1>9. CASE UNCHANGED ingestVars
  <2>1. Pieces' = Pieces
    BY <1>9 DEF Pieces, ingestVars
  <2> QED
    BY <1>9, <2>1 DEF ingestVars, IngestSafe, IngestTypes, NoPageForgotten, EndedPages,
       NothingEarly, VectorsOf, IngestInv, PageTextIsOwn, NoTextLost, VectorsFit
<1> QED
  BY <1>1, <1>2, <1>3, <1>4, <1>5, <1>6, <1>7, <1>8, <1>9 DEF IngestNext

\* Whatever the order in which the threads of the OCR end, the batches and the services
\* that embed them, each text is that of its page and each vector that of its piece
\* (pdf_parser.py, indexing.py, embedding/client.py).
THEOREM TextsAndVectorsFit == IngestSpec => []IngestInv
<1>1. IngestSafe => IngestInv
  BY DEF IngestSafe
<1> QED
  BY <1>1, IngestStart, IngestStep, PTL DEF IngestSpec

-----------------------------------------------------------------------------
(* Backfill: LexicalComplete and ContextsComplete for any number of        *)
(* documents, of chunks and of documents in a page, any number of index    *)
(* runs and of passes.                                                     *)
(*                                                                         *)
(* The invariants follow the cursor of a script: behind it every document  *)
(* has its records, or its blocks, unless a failure was counted or the     *)
(* document is still in the page.  Of the document in hand, the chunks     *)
(* without a current record are among those the lexical script has read;   *)
(* the context script has read all chunks and all blocks, or has met an    *)
(* index run.                                                              *)

AnyChunk == [run : Nat, n : Nat]

AnyBlock == {"run", "script"} \X Nat

RowType ==
    [exists : BOOLEAN, runs : Nat, chunks : SUBSET AnyChunk, lex : SUBSET AnyChunk,
     old : SUBSET AnyChunk, blocks : SUBSET AnyBlock,
     links : SUBSET (AnyChunk \X AnyBlock), met : BOOLEAN]

RunType ==
    [pc : {"idle", "snapshot", "delete"}, chunks : SUBSET AnyChunk, blocks : SUBSET AnyBlock]

PassType ==
    [pc : {"page", "decide", "due", "snapshot", "write", "finished"}, last : 0..LastDoc,
     page : SUBSET Ids, doc : 0..LastDoc, chunks : SUBSET AnyChunk,
     rows : SUBSET AnyBlock, failed : Nat, pass : Nat]

BackfillTypes ==
    /\ store \in [Ids -> RowType]
    /\ worker \in [Ids -> RunType]
    /\ script \in [Kinds -> PassType]
    /\ \A k \in Kinds : script[k].pc \in {"page", "finished"} <=> script[k].doc = 0

Indexed(d) == store[d].chunks \subseteq store[d].lex

Behind(d) ==
    d <= script["lexical"].last /\ d \notin script["lexical"].page
        /\ d # script["lexical"].doc /\ script["lexical"].failed = 0 => Indexed(d)

InHand(d) ==
    d = script["lexical"].doc =>
        store[d].chunks \ store[d].lex \subseteq script["lexical"].chunks

Gone(d) == ~store[d].exists => store[d].chunks = {}

Beyond(d) ==
    script["lexical"].pc = "finished" /\ d > script["lexical"].last => ~store[d].exists

AtRest == script["lexical"].pc = "finished" => script["lexical"].page = {}

Cursor ==
    /\ AtRest
    /\ \A d \in Ids : Behind(d) /\ InHand(d) /\ Gone(d) /\ Beyond(d)

BackfillInv == BackfillTypes /\ Cursor

-----------------------------------------------------------------------------

\* The page takes the first of the documents that wait: one that waits and is not
\* behind the page's last is in it (ORDER BY id LIMIT in main).
LEMMA PageIsPrefix ==
    ASSUME NEW k, NEW d \in Waiting(k), NEW last \in NextPage(k), d <= last
    PROVE  d \in NextPage(k)
<1> DEFINE Upto(x) == {e \in Waiting(k) : e <= x}
<1>1. Waiting(k) \subseteq 1..LastDoc /\ last \in Waiting(k) /\ BatchSize \in Nat
      /\ LastDoc \in Nat
  BY BackfillAssumption DEF Waiting, Ids, NextPage
<1>2. IsFiniteSet(Upto(last))
  BY <1>1, FS_Interval, FS_Subset
<1>3. Upto(d) \subseteq Upto(last)
  BY <1>1
<1>4. Cardinality(Upto(d)) <= Cardinality(Upto(last))
  BY <1>2, <1>3, FS_Subset
<1>5. Cardinality(Upto(last)) <= BatchSize
  BY DEF NextPage
<1>6. Cardinality(Upto(d)) \in Nat /\ Cardinality(Upto(last)) \in Nat
  BY <1>2, <1>3, FS_Subset, FS_CardinalityType
<1>7. Cardinality(Upto(d)) <= BatchSize
  BY <1>1, <1>4, <1>5, <1>6
<1> QED
  BY <1>7 DEF NextPage

\* The invariant holds of every state the older versions of the program leave.
LEMMA BackfillInitInv == BackfillInit => BackfillInv
<1> SUFFICES ASSUME BackfillInit PROVE BackfillInv
  OBVIOUS
<1> USE BackfillAssumption
<1>1. \A d \in Ids : \E l \in {"none", "old", "new"}, g \in BOOLEAN : store[d] = Rows(0, l, g)
  BY DEF BackfillInit
<1>2. ChunksOf(0) \subseteq AnyChunk
  BY DEF ChunksOf, AnyChunk
<1>3. BackfillTypes
  <2>1. \A l \in {"none", "old", "new"}, g \in BOOLEAN : Rows(0, l, g) \in RowType
    BY <1>2 DEF Rows, AnyBlock, RowType
  <2>2. worker \in [Ids -> RunType]
    BY DEF BackfillInit, NoWorker, RunType
  <2>3. script \in [Kinds -> PassType]
    BY DEF BackfillInit, NoScript, PassType
  <2>4. \A k \in Kinds : script[k].pc \in {"page", "finished"} <=> script[k].doc = 0
    BY DEF BackfillInit, NoScript
  <2> QED
    BY <2>1, <2>2, <2>3, <2>4, <1>1 DEF BackfillTypes, BackfillInit
<1>4. script["lexical"] = NoScript
  BY DEF BackfillInit, Kinds
<1>5. AtRest
  BY <1>4 DEF AtRest, NoScript
<1>6. \A d \in Ids : store[d].exists
  <2>1. \A l \in {"none", "old", "new"}, g \in BOOLEAN : Rows(0, l, g).exists
    BY DEF Rows
  <2> QED
    BY <1>1, <2>1
<1>7. \A d \in Ids : Behind(d) /\ InHand(d) /\ Gone(d) /\ Beyond(d)
  BY <1>4, <1>6 DEF Behind, InHand, Gone, Beyond, NoScript, Ids
<1> QED
  BY <1>3, <1>5, <1>7 DEF BackfillInv, Cursor

-----------------------------------------------------------------------------

\* What an index run, the deletion and the scripts make of the rows of a document
\* are rows again.
LEMMA MarkedTyped ==
    ASSUME NEW s \in RowType, NEW m \in BOOLEAN
    PROVE  [s EXCEPT !.met = m] \in RowType
  BY DEF RowType

\* The rows of a document that is deleted keep their types.
LEMMA DeletedTyped ==
    ASSUME NEW s \in RowType
    PROVE  [s EXCEPT !.exists = FALSE, !.chunks = {}, !.lex = {}, !.old = {},
                     !.blocks = {}, !.links = {}] \in RowType
  BY DEF RowType

\* So do the rows of a document whose lexical records are written (index_document_sync).
LEMMA IndexedTyped ==
    ASSUME NEW s \in RowType, NEW C \in SUBSET AnyChunk
    PROVE  [[s EXCEPT !.lex = @ \union C] EXCEPT !.old = @ \ C] \in RowType
<1>1. s.lex \union C \in SUBSET AnyChunk /\ s.old \ C \in SUBSET AnyChunk
  BY DEF RowType
<1>2. [s EXCEPT !.lex = s.lex \union C] \in RowType
  BY <1>1 DEF RowType
<1>3. [s EXCEPT !.lex = s.lex \union C].old = s.old
  BY DEF RowType
<1> QED
  BY <1>1, <1>2, <1>3 DEF RowType

\* So do the rows of a document whose blocks are replaced (_apply_document).
LEMMA RegroupedTyped ==
    ASSUME NEW s \in RowType, NEW C \in SUBSET AnyChunk, NEW B \in SUBSET AnyBlock,
           NEW block \in AnyBlock
    PROVE  Regrouped(s, C, B, block) \in RowType
<1> DEFINE L == {l \in s.links : l[1] \notin C /\ l[2] \notin B}
                \union (C \intersect s.chunks) \X {block}
<1>1. (s.blocks \ B) \union {block} \in SUBSET AnyBlock
  BY DEF RowType
<1>2. L \in SUBSET (AnyChunk \X AnyBlock)
  BY DEF RowType
<1> HIDE DEF L
<1>3. [s EXCEPT !.blocks = (s.blocks \ B) \union {block}, !.links = L] \in RowType
  BY <1>1, <1>2 DEF RowType
<1> QED
  BY <1>3 DEF Regrouped, L

\* The rows an index run leaves are rows.
LEMMA ReplacedTyped ==
    ASSUME NEW s \in RowType, NEW w \in RunType
    PROVE  Replaced(s, w) \in RowType
<1> DEFINE new == ChunksOf(s.runs + 1)
           C == (s.chunks \ w.chunks) \union new
           X == (s.lex \ w.chunks) \union new
           B == (s.blocks \ w.blocks) \union {<<"run", s.runs + 1>>}
           L == {l \in s.links : l[1] \notin w.chunks /\ l[2] \notin w.blocks}
                \union new \X {<<"run", s.runs + 1>>}
<1>1. new \subseteq AnyChunk /\ <<"run", s.runs + 1>> \in AnyBlock /\ s.runs + 1 \in Nat
  BY BackfillAssumption DEF ChunksOf, AnyChunk, AnyBlock, RowType
<1> HIDE DEF new
<1>2. C \in SUBSET AnyChunk /\ X \in SUBSET AnyChunk /\ s.old \ w.chunks \in SUBSET AnyChunk
  BY <1>1 DEF RowType, RunType
<1>3. B \in SUBSET AnyBlock
  BY <1>1 DEF RowType, RunType
<1>4. L \in SUBSET (AnyChunk \X AnyBlock)
  BY <1>1 DEF RowType, RunType
<1>5. Replaced(s, w) = [s EXCEPT !.runs = s.runs + 1, !.chunks = C, !.lex = X,
                                 !.old = s.old \ w.chunks, !.blocks = B, !.links = L]
  BY DEF Replaced, LexOf, new
<1> HIDE DEF C, X, B, L
<1>6. [s EXCEPT !.runs = s.runs + 1, !.chunks = C, !.lex = X,
                !.old = s.old \ w.chunks, !.blocks = B, !.links = L] \in RowType
  BY <1>1, <1>2, <1>3, <1>4 DEF RowType
<1> QED
  BY <1>5, <1>6

\* What the scripts make of their own records.
LEMMA PcTyped ==
    ASSUME NEW p \in PassType, NEW pc \in {"page", "decide", "due", "snapshot", "write", "finished"}
    PROVE  [p EXCEPT !.pc = pc] \in PassType /\ [p EXCEPT !.pc = pc].doc = p.doc
           /\ [p EXCEPT !.pc = pc].pc = pc
  BY DEF PassType

\* A pass that reads its next page keeps its types (_list_documents).
LEMMA PagedTyped ==
    ASSUME NEW p \in PassType, NEW D \in SUBSET Ids, NEW d \in Ids
    PROVE  [[p EXCEPT !.page = D] EXCEPT !.last = d] \in PassType
<1>1. [p EXCEPT !.page = D] \in PassType
  BY DEF PassType
<1>2. d \in 0..LastDoc
  BY BackfillAssumption DEF Ids
<1> QED
  BY <1>1, <1>2 DEF PassType

\* So does one that reads the chunks of a document (_get_chunks).
LEMMA ReadTyped ==
    ASSUME NEW p \in PassType, NEW D \in SUBSET Ids, NEW d \in Ids, NEW C \in SUBSET AnyChunk
    PROVE  [p EXCEPT !.pc = "decide", !.doc = d, !.page = D, !.chunks = C] \in PassType
<1>1. d \in 0..LastDoc
  BY BackfillAssumption DEF Ids
<1> QED
  BY <1>1 DEF PassType

\* So does one whose DELETE sees the blocks of the document.
LEMMA DueTyped ==
    ASSUME NEW p \in PassType, NEW B \in SUBSET AnyBlock
    PROVE  [p EXCEPT !.pc = "snapshot", !.rows = B] \in PassType
<1> DEFINE q == [p EXCEPT !.pc = "snapshot"]
<1>1. q \in PassType
  BY DEF PassType
<1>2. [p EXCEPT !.pc = "snapshot", !.rows = B] = [q EXCEPT !.rows = B]
  BY DEF PassType
<1> HIDE DEF q
<1>3. [q EXCEPT !.rows = B] \in PassType
  BY <1>1 DEF PassType
<1> QED
  BY <1>2, <1>3

\* So does a script that is started again.
LEMMA AgainTyped ==
    ASSUME NEW p \in PassType
    PROVE  [NoScript EXCEPT !.pass = p.pass + 1] \in PassType
<1>1. p.pass + 1 \in Nat
  BY DEF PassType
<1>2. NoScript \in PassType
  BY BackfillAssumption DEF NoScript, PassType
<1> QED
  BY <1>1, <1>2 DEF PassType

\* Every step keeps the types, and a script is at work on a document exactly between
\* its first statement and its end.
LEMMA BackfillStepTypes ==
    ASSUME BackfillTypes, [BackfillNext]_backfillVars
    PROVE  BackfillTypes'
<1> USE BackfillAssumption
<1>0. /\ store \in [Ids -> RowType] /\ worker \in [Ids -> RunType]
      /\ script \in [Kinds -> PassType]
      /\ \A k \in Kinds : script[k].pc \in {"page", "finished"} <=> script[k].doc = 0
  BY DEF BackfillTypes
<1>n. Kinds = {"lexical", "contexts"} /\ Ids \subseteq 1..LastDoc
  BY DEF Kinds, Ids
<1>e. \A k \in Kinds : /\ Ended(k) \in PassType /\ FailedAt(k) \in PassType
                       /\ Ended(k).pc = "page" /\ Ended(k).doc = 0
                       /\ FailedAt(k).pc = "page" /\ FailedAt(k).doc = 0
  <2> TAKE k \in Kinds
  <2> DEFINE p == script[k]
  <2>1. p \in PassType
    BY <1>0
  <2>2. Ended(k) = [p EXCEPT !.pc = "page", !.doc = 0, !.chunks = {}, !.rows = {}]
    BY DEF Ended
  <2>3. FailedAt(k) = [Ended(k) EXCEPT !.failed = @ + 1]
    BY DEF FailedAt
  <2> HIDE DEF p
  <2>4. Ended(k).pc = "page" /\ Ended(k).doc = 0
    BY <2>1, <2>2 DEF PassType
  <2>5. Ended(k) \in PassType
    <3>1. [p EXCEPT !.pc = "page", !.chunks = {}] \in PassType
      BY <2>1 DEF PassType
    <3>2. 0 \in 0..LastDoc
      BY BackfillAssumption
    <3>3. \A q \in PassType : [q EXCEPT !.doc = 0, !.rows = {}] \in PassType
      BY <3>2 DEF PassType
    <3>4. Ended(k) = [[p EXCEPT !.pc = "page", !.chunks = {}] EXCEPT !.doc = 0, !.rows = {}]
      BY <2>1, <2>2 DEF PassType
    <3> QED
      BY <3>1, <3>3, <3>4
  <2>6. FailedAt(k) \in PassType /\ FailedAt(k).pc = "page" /\ FailedAt(k).doc = 0
    BY <2>3, <2>4, <2>5 DEF PassType
  <2> QED
    BY <2>4, <2>5, <2>6
\* A step that changes the record of one script, or of none.
<1>s. ASSUME store' \in [Ids -> RowType], worker' \in [Ids -> RunType],
             NEW k \in Kinds, NEW p \in PassType,
             p.pc \in {"page", "finished"} <=> p.doc = 0,
             script' = [script EXCEPT ![k] = p]
      PROVE  BackfillTypes'
  BY <1>0, <1>s DEF BackfillTypes
<1>w. ASSUME store' \in [Ids -> RowType], worker' \in [Ids -> RunType], script' = script
      PROVE  BackfillTypes'
  BY <1>0, <1>w DEF BackfillTypes
<1>1. ASSUME NEW d \in Ids, BeginInsert(d) PROVE BackfillTypes'
  <2>1. store' = [store EXCEPT ![d] = [store[d] EXCEPT !.met = @ \/ script["contexts"].doc = d]]
    BY <1>1 DEF BeginInsert
  <2>3. [store[d] EXCEPT !.met = @ \/ script["contexts"].doc = d] \in RowType
    <3>1. store[d] \in RowType /\ store[d].met \in BOOLEAN
      BY <1>0 DEF RowType
    <3>2. (store[d].met \/ script["contexts"].doc = d) \in BOOLEAN
      BY <3>1
    <3> QED
      BY <3>1, <3>2, MarkedTyped
  <2>4. store' \in [Ids -> RowType]
    BY <1>0, <2>1, <2>3
  <2>5. worker' \in [Ids -> RunType]
    <3>1. store[d].chunks \in SUBSET AnyChunk /\ store[d].blocks \in SUBSET AnyBlock
      BY <1>0 DEF RowType
    <3>2. [pc |-> "snapshot", chunks |-> store[d].chunks, blocks |-> store[d].blocks] \in RunType
      BY <3>1 DEF RunType
    <3> QED
      BY <1>0, <1>1, <3>2 DEF BeginInsert
  <2> QED
    BY <1>1, <1>w, <2>4, <2>5 DEF BeginInsert
<1>2. ASSUME NEW d \in Ids, DeleteOld(d) PROVE BackfillTypes'
  <2>1. worker' = [worker EXCEPT ![d] = [worker[d] EXCEPT !.pc = "delete"]]
    BY <1>2 DEF DeleteOld
  <2>2. [worker[d] EXCEPT !.pc = "delete"] \in RunType
    BY <1>0 DEF RunType
  <2>3. worker' \in [Ids -> RunType] /\ store' = store /\ script' = script
    BY <1>0, <1>2, <2>1, <2>2 DEF DeleteOld
  <2> QED
    BY <1>0, <1>w, <2>3
<1>3. ASSUME NEW d \in Ids, EndInsert(d) PROVE BackfillTypes'
  <2>1. NoWorker \in RunType
    BY DEF NoWorker, RunType
  <2>2. Replaced(store[d], worker[d]) \in RowType
    BY <1>0, ReplacedTyped
  <2>4. store' \in [Ids -> RowType] /\ worker' \in [Ids -> RunType]
    BY <1>0, <1>3, <2>1, <2>2 DEF EndInsert
  <2> QED
    BY <1>3, <1>w, <2>4 DEF EndInsert
<1>4. ASSUME NEW d \in Ids, Delete(d) PROVE BackfillTypes'
  <2>1. [store[d] EXCEPT !.exists = FALSE, !.chunks = {}, !.lex = {}, !.old = {},
                         !.blocks = {}, !.links = {}] \in RowType
    BY <1>0, DeletedTyped
  <2>2. store' \in [Ids -> RowType]
    BY <1>0, <1>4, <2>1 DEF Delete
  <2> QED
    BY <1>0, <1>4, <1>w, <2>2 DEF Delete
<1>5. ASSUME NEW k \in Kinds, Page(k) PROVE BackfillTypes'
  <2>1. NextPage(k) \in SUBSET Ids
    BY DEF NextPage, Waiting
  <2>2. CASE script' = [script EXCEPT ![k].pc = "finished"]
    <3> DEFINE p == [script[k] EXCEPT !.pc = "finished"]
    <3>1. p \in PassType /\ p.doc = script[k].doc /\ p.pc = "finished"
      BY <1>0, PcTyped
    <3>2. p.doc = 0
      BY <1>0, <1>5, <3>1 DEF Page
    <3>3. script' = [script EXCEPT ![k] = p]
      BY <2>2
    <3> QED
      BY <1>0, <1>5, <1>s, <3>1, <3>2, <3>3 DEF Page
  <2>3. ASSUME NEW last \in NextPage(k),
               script' = [script EXCEPT ![k].page = NextPage(k), ![k].last = last]
        PROVE  BackfillTypes'
    <3> DEFINE p == [[script[k] EXCEPT !.page = NextPage(k)] EXCEPT !.last = last]
    <3>1. p \in PassType
      BY <1>0, <2>1, PagedTyped
    <3>2. p.pc = "page" /\ p.doc = 0
      BY <1>0, <1>5 DEF Page, PassType
    <3>3. script' = [script EXCEPT ![k] = p]
      BY <1>0, <2>3
    <3> QED
      BY <1>0, <1>5, <1>s, <3>1, <3>2, <3>3 DEF Page
  <2> QED
    BY <1>5, <2>2, <2>3 DEF Page
<1>6. ASSUME NEW k \in Kinds, Read(k) PROVE BackfillTypes'
  <2>1. PICK d \in script[k].page :
          /\ script' = [script EXCEPT ![k] =
                [script[k] EXCEPT !.pc = "decide", !.doc = d,
                                  !.page = script[k].page \ {d},
                                  !.chunks = store[d].chunks]]
          /\ store' = [store EXCEPT ![d].met =
                          @ \/ (k = "contexts" /\ worker[d].pc # "idle")]
          /\ worker' = worker
    BY <1>6 DEF Read
  <2>2. d \in Ids
    BY <1>0 DEF PassType
  <2>3. [store[d] EXCEPT !.met = @ \/ (k = "contexts" /\ worker[d].pc # "idle")] \in RowType
    <3>1. store[d] \in RowType /\ store[d].met \in BOOLEAN
      BY <1>0, <2>2 DEF RowType
    <3>2. (store[d].met \/ (k = "contexts" /\ worker[d].pc # "idle")) \in BOOLEAN
      BY <3>1
    <3> QED
      BY <3>1, <3>2, MarkedTyped
  <2>4. store' \in [Ids -> RowType]
    BY <1>0, <2>1, <2>2, <2>3
  <2> DEFINE p == [script[k] EXCEPT !.pc = "decide", !.doc = d, !.page = script[k].page \ {d},
                                    !.chunks = store[d].chunks]
  <2>5. script[k].page \ {d} \in SUBSET Ids /\ store[d].chunks \in SUBSET AnyChunk
    BY <1>0, <2>2 DEF PassType, RowType
  <2>6. p \in PassType
    BY <1>0, <2>2, <2>5, ReadTyped
  <2>7. p.pc = "decide" /\ p.doc = d /\ d # 0
    BY <1>0, <1>n, <2>2 DEF PassType
  <2>8. script' = [script EXCEPT ![k] = p]
    BY <2>1
  <2> QED
    BY <1>0, <1>s, <2>1, <2>4, <2>6, <2>7, <2>8
<1>7. ASSUME NEW k \in Kinds, Decide(k) PROVE BackfillTypes'
  <2>1. CASE script' = [script EXCEPT ![k] = Ended(k)]
    BY <1>0, <1>e, <1>s, <1>7, <2>1 DEF Decide
  <2>2. CASE script' = [script EXCEPT ![k] = [@ EXCEPT !.pc = "due"]]
    <3> DEFINE p == [script[k] EXCEPT !.pc = "due"]
    <3>1. p \in PassType /\ p.doc = script[k].doc /\ p.pc = "due"
      BY <1>0, PcTyped
    <3>2. p.doc # 0
      BY <1>0, <1>7, <3>1 DEF Decide
    <3>3. script' = [script EXCEPT ![k] = p]
      BY <2>2
    <3> QED
      BY <1>0, <1>s, <1>7, <3>1, <3>2, <3>3 DEF Decide
  <2> QED
    BY <1>7, <2>1, <2>2 DEF Decide
<1>7a. CASE SeeBlocks
  <2> DEFINE k == "contexts"
             B == store[script[k].doc].blocks
             p == [script[k] EXCEPT !.pc = "snapshot", !.rows = B]
  <2>1. k \in Kinds /\ script[k].doc \in Ids
    BY <1>0, <1>n, <1>7a DEF SeeBlocks, PassType, Ids
  <2>2. B \in SUBSET AnyBlock
    BY <1>0, <2>1 DEF RowType
  <2>3. p \in PassType
    BY <1>0, <2>1, <2>2, DueTyped
  <2>4. p.pc = "snapshot" /\ p.doc # 0
    BY <1>0, <1>n, <2>1 DEF PassType, Ids
  <2>5. script' = [script EXCEPT ![k] = p]
    BY <1>7a DEF SeeBlocks
  <2> HIDE DEF p
  <2> QED
    BY <1>0, <1>s, <1>7a, <2>1, <2>3, <2>4, <2>5 DEF SeeBlocks
<1>8. CASE WriteLexical
  <2> DEFINE k == "lexical"
             p == [script[k] EXCEPT !.pc = "write"]
  <2>1. p \in PassType /\ k \in Kinds /\ p.doc = script[k].doc /\ p.pc = "write"
    BY <1>0, <1>n, PcTyped
  <2>2. p.doc # 0
    BY <1>0, <1>n, <1>8, <2>1 DEF WriteLexical
  <2>3. script' = [script EXCEPT ![k] = p] \/ script' = [script EXCEPT ![k] = FailedAt(k)]
    BY <1>8 DEF WriteLexical
  <2> QED
    BY <1>0, <1>e, <1>s, <1>8, <2>1, <2>2, <2>3 DEF WriteLexical
<1>9. CASE CommitLexical
  <2> DEFINE k == "lexical"
             d == script[k].doc
             C == script[k].chunks
  <2>1. k \in Kinds /\ d \in Ids /\ C \in SUBSET AnyChunk
    BY <1>0, <1>n, <1>9 DEF CommitLexical, PassType, Ids
  <2>2. [[store[d] EXCEPT !.lex = @ \union C] EXCEPT !.old = @ \ C] \in RowType
    BY <1>0, <2>1, IndexedTyped
  <2>3. store' = [store EXCEPT ![d] = [[store[d] EXCEPT !.lex = @ \union C] EXCEPT !.old = @ \ C]]
    BY <1>0, <1>9, <2>1 DEF CommitLexical, LexOf
  <2>4. store' \in [Ids -> RowType]
    BY <1>0, <2>1, <2>2, <2>3
  <2> QED
    BY <1>0, <1>e, <1>s, <1>9, <2>1, <2>4 DEF CommitLexical
<1>10. CASE DeleteBlocks
  <2> DEFINE k == "contexts"
             p == [script[k] EXCEPT !.pc = "write"]
  <2>1. p \in PassType /\ k \in Kinds /\ p.doc = script[k].doc /\ p.pc = "write"
    BY <1>0, <1>n, PcTyped
  <2>2. p.doc # 0
    BY <1>0, <1>n, <1>10, <2>1 DEF DeleteBlocks
  <2>3. script' = [script EXCEPT ![k] = p]
    BY <1>10 DEF DeleteBlocks
  <2> QED
    BY <1>0, <1>s, <1>10, <2>1, <2>2, <2>3 DEF DeleteBlocks
<1>11. CASE CommitContexts
  <2> DEFINE k == "contexts"
             d == script[k].doc
             block == <<"script", script[k].pass>>
  <2>1. k \in Kinds /\ d \in Ids /\ block \in AnyBlock
        /\ script[k].chunks \in SUBSET AnyChunk /\ script[k].rows \in SUBSET AnyBlock
    BY <1>0, <1>n, <1>11 DEF CommitContexts, PassType, Ids, AnyBlock
  <2>2. Regrouped(store[d], script[k].chunks, script[k].rows, block) \in RowType
    BY <1>0, <2>1, RegroupedTyped
  <2>3. store' \in [Ids -> RowType]
    BY <1>0, <1>11, <2>1, <2>2 DEF CommitContexts
  <2>4. script' = [script EXCEPT ![k] = Ended(k)] \/ script' = [script EXCEPT ![k] = FailedAt(k)]
    BY <1>11 DEF CommitContexts
  <2> QED
    BY <1>0, <1>e, <1>s, <1>11, <2>1, <2>3, <2>4 DEF CommitContexts
<1>12. ASSUME NEW k \in Kinds, RunAgain(k) PROVE BackfillTypes'
  <2> DEFINE p == [NoScript EXCEPT !.pass = script[k].pass + 1]
  <2>1. p \in PassType
    BY <1>0, AgainTyped
  <2>2. p.pc = "page" /\ p.doc = 0
    BY DEF NoScript
  <2> QED
    BY <1>0, <1>s, <1>12, <2>1, <2>2 DEF RunAgain
<1>13. CASE UNCHANGED backfillVars
  BY <1>0, <1>w, <1>13 DEF backfillVars
<1> QED
  BY <1>1, <1>2, <1>3, <1>4, <1>5, <1>6, <1>7, <1>7a, <1>8, <1>9, <1>10, <1>11, <1>12, <1>13
     DEF BackfillNext

-----------------------------------------------------------------------------

\* No step takes the record of a chunk away or adds a chunk without one, and a
\* deleted document does not come back (index_document_sync in the transaction of
\* the chunks, ON DELETE CASCADE).
Kept ==
    \A d \in Ids :
        /\ store'[d].chunks \ store'[d].lex \subseteq store[d].chunks \ store[d].lex
        /\ store'[d].exists => store[d].exists
        /\ ~store'[d].exists => store'[d].chunks = {}

\* What the rows of a document keep from step to step.
LEMMA RowsKept ==
    ASSUME BackfillInv, [BackfillNext]_backfillVars
    PROVE  Kept
<1>0. /\ store \in [Ids -> RowType] /\ script \in [Kinds -> PassType]
      /\ \A d \in Ids : ~store[d].exists => store[d].chunks = {}
      /\ \A k \in Kinds : script[k].pc \in {"page", "finished"} <=> script[k].doc = 0
  BY DEF BackfillInv, BackfillTypes, Cursor, Gone
<1>n. Kinds = {"lexical", "contexts"}
  BY DEF Kinds
<1>u. CASE store' = store
  BY <1>0, <1>u DEF Kept
\* A step that writes the rows of one document.
<1>o. ASSUME NEW d \in Ids, NEW r, store' = [store EXCEPT ![d] = r],
             r.chunks \ r.lex \subseteq store[d].chunks \ store[d].lex,
             r.exists => store[d].exists, ~r.exists => r.chunks = {}
      PROVE  Kept
  BY <1>0, <1>o DEF Kept
<1>m. ASSUME NEW s \in RowType, NEW m
      PROVE  LET r == [s EXCEPT !.met = m] IN
             r.chunks = s.chunks /\ r.lex = s.lex /\ r.exists = s.exists
  BY DEF RowType
<1>1. ASSUME NEW d \in Ids, BeginInsert(d) PROVE Kept
  <2> DEFINE r == [store[d] EXCEPT !.met = store[d].met \/ script["contexts"].doc = d]
  <2>1. store' = [store EXCEPT ![d] = r]
    BY <1>1 DEF BeginInsert
  <2>2. r.chunks = store[d].chunks /\ r.lex = store[d].lex /\ r.exists = store[d].exists
    BY <1>0, <1>m
  <2> HIDE DEF r
  <2> QED
    BY <1>0, <1>o, <2>1, <2>2
<1>2. ASSUME NEW d \in Ids, EndInsert(d) PROVE Kept
  <2> DEFINE s == store[d]
             w == worker[d]
             q == Replaced(s, w)
  <2>1. s \in RowType
    BY <1>0
  <2>2. /\ q.chunks = (s.chunks \ w.chunks) \union ChunksOf(s.runs + 1)
        /\ q.lex = (s.lex \ w.chunks) \union ChunksOf(s.runs + 1)
        /\ q.exists = s.exists
    BY <2>1 DEF Replaced, LexOf, RowType
  <2>3. store' = store \/ store' = [store EXCEPT ![d] = IF s.exists THEN q ELSE s]
    BY <1>2 DEF EndInsert
  <2> HIDE DEF q, s
  <2>4. CASE s.exists /\ store' = [store EXCEPT ![d] = q]
    BY <1>o, <2>2, <2>4 DEF s
  <2>5. CASE store' = [store EXCEPT ![d] = s]
    BY <1>0, <1>o, <2>5 DEF s
  <2> QED
    BY <1>u, <2>3, <2>4, <2>5
<1>3. ASSUME NEW d \in Ids, Delete(d) PROVE Kept
  <2> DEFINE r == [store[d] EXCEPT !.exists = FALSE, !.chunks = {}, !.lex = {}, !.old = {},
                                   !.blocks = {}, !.links = {}]
  <2>1. store' = [store EXCEPT ![d] = r]
    BY <1>3 DEF Delete
  <2>2. r.chunks = {} /\ r.exists = FALSE
    BY <1>0 DEF RowType
  <2> HIDE DEF r
  <2> QED
    BY <1>o, <2>1, <2>2
<1>4. ASSUME NEW k \in Kinds, Read(k) PROVE Kept
  <2>1. PICK d \in script[k].page :
          store' = [store EXCEPT ![d].met = @ \/ (k = "contexts" /\ worker[d].pc # "idle")]
    BY <1>4 DEF Read
  <2>2. d \in Ids
    BY <1>0 DEF PassType
  <2> DEFINE r == [store[d] EXCEPT !.met =
                     store[d].met \/ (k = "contexts" /\ worker[d].pc # "idle")]
  <2>3. store' = [store EXCEPT ![d] = r]
    BY <2>1
  <2>4. r.chunks = store[d].chunks /\ r.lex = store[d].lex /\ r.exists = store[d].exists
    BY <1>0, <1>m, <2>2
  <2> HIDE DEF r
  <2> QED
    BY <1>0, <1>o, <2>2, <2>3, <2>4
<1>5. CASE CommitLexical
  <2> DEFINE d == script["lexical"].doc
             C == script["lexical"].chunks
             r == [[store[d] EXCEPT !.lex = store[d].lex \union C] EXCEPT !.old = @ \ C]
  <2>1. d \in Ids
    BY <1>0, <1>n, <1>5 DEF CommitLexical, PassType, Ids
  <2>2. store' = [store EXCEPT ![d] = r]
    BY <1>0, <1>5, <2>1 DEF CommitLexical, LexOf
  <2>3. r.chunks = store[d].chunks /\ r.lex = store[d].lex \union C
        /\ r.exists = store[d].exists
    BY <1>0, <2>1 DEF RowType
  <2> HIDE DEF r, d
  <2> QED
    BY <1>0, <1>o, <2>1, <2>2, <2>3
<1>6. CASE CommitContexts
  <2> DEFINE p == script["contexts"]
             d == p.doc
             r == Regrouped(store[d], p.chunks, p.rows, <<"script", p.pass>>)
  <2>1. d \in Ids
    BY <1>0, <1>n, <1>6 DEF CommitContexts, PassType, Ids
  <2>2. store' = [store EXCEPT ![d] = IF store[d].exists THEN r ELSE store[d]]
    BY <1>6 DEF CommitContexts
  <2>3. r.chunks = store[d].chunks /\ r.lex = store[d].lex /\ r.exists = store[d].exists
    BY <1>0, <2>1 DEF RowType, Regrouped
  <2> HIDE DEF r, d
  <2> QED
    BY <1>0, <1>o, <2>1, <2>2, <2>3
<1> QED
  BY <1>u, <1>1, <1>2, <1>3, <1>4, <1>5, <1>6
     DEF BackfillNext, DeleteOld, Page, Decide, RunAgain, WriteLexical, SeeBlocks, DeleteBlocks,
         backfillVars

\* The cursor's invariant: one step per action of the script that fills the lexical
\* index; of every other step RowsKept says enough.
LEMMA CursorKept ==
    ASSUME BackfillInv, [BackfillNext]_backfillVars
    PROVE  Cursor'
<1> USE BackfillAssumption
<1>0. /\ store \in [Ids -> RowType] /\ script \in [Kinds -> PassType]
      /\ \A k \in Kinds : script[k].pc \in {"page", "finished"} <=> script[k].doc = 0
  BY DEF BackfillInv, BackfillTypes
<1>i. AtRest /\ \A d \in Ids : Behind(d) /\ InHand(d) /\ Gone(d) /\ Beyond(d)
  BY DEF BackfillInv, Cursor
<1>k. Kept
  BY RowsKept
<1>n. Kinds = {"lexical", "contexts"} /\ Ids = 1..LastDoc
  BY DEF Kinds, Ids
<1> DEFINE k == "lexical"
           p == script[k]
           q == script'[k]
<1>p. p \in PassType
  BY <1>0, <1>n
<1>g. \A d \in Ids : Gone(d)'
  BY <1>k DEF Kept, Gone
<1>s. CASE q = p
  BY <1>i, <1>k, <1>s, <1>g DEF Cursor, AtRest, Behind, InHand, Beyond, Kept, Indexed
\* The document in hand is done, or its failure is counted.
<1>e. ASSUME q.last = p.last, q.page = p.page, q.doc = 0, q.pc = "page",
             p.pc # "finished",
             \/ q.failed # 0
             \/ q.failed = p.failed /\ (p.doc \in Ids => store'[p.doc].chunks \subseteq store'[p.doc].lex)
      PROVE  Cursor'
  <2>1. AtRest'
    BY <1>e DEF AtRest
  <2>2. ASSUME NEW d \in Ids PROVE Behind(d)'
    <3>1. CASE q.failed # 0
      BY <3>1 DEF Behind
    <3>2. CASE d = p.doc /\ q.failed = p.failed
      BY <1>e, <3>2 DEF Behind, Indexed
    <3>3. CASE d # p.doc /\ q.failed = p.failed
      BY <1>e, <1>i, <1>k, <3>3 DEF Behind, Indexed, Kept
    <3> QED
      BY <1>e, <3>1, <3>2, <3>3
  <2>3. ASSUME NEW d \in Ids PROVE InHand(d)' /\ Beyond(d)'
    BY <1>e, <1>n DEF InHand, Beyond
  <2> QED
    BY <1>g, <2>1, <2>2, <2>3 DEF Cursor
<1>f. /\ Ended(k).last = p.last /\ Ended(k).page = p.page /\ Ended(k).doc = 0
      /\ Ended(k).pc = "page" /\ Ended(k).failed = p.failed
      /\ FailedAt(k).last = p.last /\ FailedAt(k).page = p.page /\ FailedAt(k).doc = 0
      /\ FailedAt(k).pc = "page" /\ FailedAt(k).failed = p.failed + 1
      /\ p.failed + 1 # 0
  BY <1>p DEF Ended, FailedAt, PassType
<1>1. CASE Page(k)
  <2>0. p.pc = "page" /\ p.page = {} /\ p.doc = 0 /\ store' = store
    BY <1>1, <1>0, <1>n DEF Page
  <2>1. ASSUME Waiting(k) = {}, script' = [script EXCEPT ![k].pc = "finished"]
        PROVE  Cursor'
    <3>1. q.pc = "finished" /\ q.last = p.last /\ q.page = {} /\ q.doc = 0
          /\ q.failed = p.failed
      BY <1>0, <1>n, <1>p, <2>0, <2>1 DEF PassType
    <3>2. \A d \in Ids : Beyond(d)'
      BY <2>0, <2>1, <3>1 DEF Beyond, Waiting
    <3> QED
      BY <1>i, <1>g, <1>n, <2>0, <3>1, <3>2
         DEF Cursor, AtRest, Behind, InHand, Indexed
  <2>2. ASSUME NEW last \in NextPage(k),
               script' = [script EXCEPT ![k].page = NextPage(k), ![k].last = last]
        PROVE  Cursor'
    <3>1. q.pc = "page" /\ q.last = last /\ q.page = NextPage(k) /\ q.doc = 0
          /\ q.failed = p.failed
      BY <1>0, <1>n, <1>p, <2>0, <2>2 DEF PassType
    <3>2. ASSUME NEW d \in Ids, d <= last, d \notin NextPage(k), q.failed = 0
          PROVE  Indexed(d)
      <4>1. CASE d <= p.last
        BY <1>i, <1>n, <2>0, <3>1, <3>2, <4>1 DEF Behind
      <4>2. CASE ~(d <= p.last)
        <5>1. p.last \in Nat /\ d \in Nat
          BY <1>p, <1>n DEF PassType
        <5>2. d \notin Waiting(k)
          BY <2>2, <3>2, PageIsPrefix
        <5>3. ~store[d].exists
          BY <4>2, <5>1, <5>2 DEF Waiting
        <5> QED
          BY <1>i, <5>3 DEF Gone, Indexed
      <4> QED
        BY <4>1, <4>2
    <3>3. ASSUME NEW d \in Ids PROVE Behind(d)'
      BY <2>0, <3>1, <3>2 DEF Behind, Indexed
    <3>4. AtRest' /\ \A d \in Ids : InHand(d)' /\ Beyond(d)'
      BY <1>n, <3>1 DEF AtRest, InHand, Beyond
    <3> QED
      BY <1>g, <3>3, <3>4 DEF Cursor
  <2> QED
    BY <1>1, <2>1, <2>2 DEF Page
<1>2. CASE Read(k)
  <2>0. p.pc = "page" /\ p.doc = 0
    BY <1>2, <1>0, <1>n DEF Read
  <2>1. PICK d \in p.page :
          script' = [script EXCEPT ![k] =
                [script[k] EXCEPT !.pc = "decide", !.doc = d,
                                  !.page = script[k].page \ {d},
                                  !.chunks = store[d].chunks]]
    BY <1>2 DEF Read
  <2>2. q.pc = "decide" /\ q.last = p.last /\ q.page = p.page \ {d} /\ q.doc = d
        /\ q.failed = p.failed /\ q.chunks = store[d].chunks
    BY <1>0, <1>n, <1>p, <2>1 DEF PassType
  <2>3. ASSUME NEW c \in Ids PROVE Behind(c)'
    BY <1>i, <1>k, <1>n, <2>0, <2>2 DEF Behind, Indexed, Kept
  <2>4. ASSUME NEW c \in Ids PROVE InHand(c)'
    BY <1>k, <2>2 DEF InHand, Kept
  <2>5. AtRest' /\ \A c \in Ids : Beyond(c)'
    BY <2>2 DEF AtRest, Beyond
  <2> QED
    BY <1>g, <2>3, <2>4, <2>5 DEF Cursor
<1>3. CASE Decide(k)
  <2>0. p.pc = "decide" /\ p.doc \in Ids /\ store' = store
    BY <1>3, <1>0, <1>n, <1>p DEF Decide, PassType
  <2>1. CASE LexicalDue(p.doc, p.chunks)
    <3>1. script' = [script EXCEPT ![k] = [@ EXCEPT !.pc = "due"]]
      BY <1>3, <2>1 DEF Decide
    <3>2. q.pc = "due" /\ q.last = p.last /\ q.page = p.page /\ q.doc = p.doc
          /\ q.failed = p.failed /\ q.chunks = p.chunks
      BY <1>0, <1>n, <1>p, <3>1 DEF PassType
    <3> QED
      BY <1>i, <1>g, <1>k, <3>2
         DEF Cursor, AtRest, Behind, InHand, Beyond, Kept, Indexed
  <2>2. CASE ~LexicalDue(p.doc, p.chunks)
    <3>1. q = Ended(k)
      BY <1>3, <1>0, <1>n, <2>2 DEF Decide
    <3>2. Indexed(p.doc)
      BY <1>i, <2>0, <2>2 DEF LexicalDue, InHand, Indexed
    <3>3. store'[p.doc].chunks \subseteq store'[p.doc].lex
      BY <2>0, <3>2 DEF Indexed
    <3> QED
      BY <1>e, <1>f, <2>0, <3>1, <3>3
  <2> QED
    BY <2>1, <2>2
<1>4. CASE WriteLexical
  <2>1. CASE script' = [script EXCEPT ![k].pc = "write"]
    <3>1. q.pc = "write" /\ q.last = p.last /\ q.page = p.page /\ q.doc = p.doc
          /\ q.failed = p.failed /\ q.chunks = p.chunks
      BY <1>0, <1>n, <1>p, <2>1 DEF PassType
    <3> QED
      BY <1>i, <1>g, <1>k, <3>1
         DEF Cursor, AtRest, Behind, InHand, Beyond, Kept, Indexed
  <2>2. CASE script' = [script EXCEPT ![k] = FailedAt(k)]
    <3>1. q = FailedAt(k)
      BY <1>0, <1>n, <2>2
    <3>2. p.pc # "finished"
      BY <1>4 DEF WriteLexical
    <3> QED
      BY <1>e, <1>f, <3>1, <3>2
  <2> QED
    BY <1>4, <2>1, <2>2 DEF WriteLexical
<1>5. CASE CommitLexical
  <2>1. p.pc = "write" /\ p.doc \in Ids
    BY <1>5, <1>0, <1>n, <1>p DEF CommitLexical, PassType
  <2>2. q = Ended(k)
    BY <1>5, <1>0, <1>n DEF CommitLexical
  <2>3. store'[p.doc].lex = store[p.doc].lex \union p.chunks
        /\ store'[p.doc].chunks = store[p.doc].chunks
    BY <1>5, <1>0, <2>1 DEF CommitLexical, LexOf, RowType
  <2>4. store'[p.doc].chunks \subseteq store'[p.doc].lex
    <3>1. store[p.doc].chunks \ store[p.doc].lex \subseteq p.chunks
      BY <1>i, <2>1 DEF InHand
    <3> QED
      BY <2>3, <3>1
  <2> QED
    BY <1>e, <1>f, <2>1, <2>2, <2>4
<1>6. CASE RunAgain(k)
  <2>1. q.pc = "page" /\ q.last = 0 /\ q.page = {} /\ q.doc = 0
    BY <1>6, <1>0, <1>n DEF RunAgain, NoScript
  <2> QED
    BY <1>g, <1>n, <2>1 DEF Cursor, AtRest, Behind, InHand, Beyond
<1>7. ASSUME Page("contexts") \/ Read("contexts") \/ Decide("contexts")
             \/ RunAgain("contexts") \/ SeeBlocks \/ DeleteBlocks \/ CommitContexts
      PROVE  q = p
  BY <1>7, <1>0, <1>n DEF Page, Read, Decide, RunAgain, SeeBlocks, DeleteBlocks, CommitContexts
<1>8. ASSUME NEW d \in Ids, BeginInsert(d) \/ DeleteOld(d) \/ EndInsert(d) \/ Delete(d)
      PROVE  q = p
  BY <1>8 DEF BeginInsert, DeleteOld, EndInsert, Delete
<1>9. CASE UNCHANGED backfillVars
  BY <1>9, <1>s DEF backfillVars
<1> QED
  BY <1>s, <1>1, <1>2, <1>3, <1>4, <1>5, <1>6, <1>7, <1>8, <1>9, <1>n DEF BackfillNext

-----------------------------------------------------------------------------

\* The invariant of the specification: typing and the cursor.
LEMMA BackfillInvariant == BackfillSpec => []BackfillInv
<1>1. BackfillInit => BackfillInv
  BY BackfillInitInv
<1>2. BackfillInv /\ [BackfillNext]_backfillVars => BackfillInv'
  BY BackfillStepTypes, CursorKept DEF BackfillInv
<1> QED
  BY <1>1, <1>2, PTL DEF BackfillSpec

\* A pass of rebuild_lexical_index that counts no failure leaves no chunk without a
\* current lexical record, whatever index runs and deletions ran while it worked
\* (main, _needs_rebuild, index_document_sync).
THEOREM LexicalPassComplete == BackfillSpec => []LexicalComplete
<1>1. BackfillInv => LexicalComplete
  <2> SUFFICES ASSUME BackfillInv, script["lexical"].pc = "finished",
                      script["lexical"].failed = 0, NEW d \in Ids
               PROVE  store[d].chunks \subseteq store[d].lex
    BY DEF LexicalComplete
  <2>1. script["lexical"] \in PassType /\ script["lexical"].doc = 0
    BY DEF BackfillInv, BackfillTypes, Kinds
  <2>2. Behind(d) /\ Gone(d) /\ Beyond(d) /\ script["lexical"].page = {}
    BY DEF BackfillInv, Cursor, AtRest
  <2>3. d \in Nat /\ d # 0 /\ script["lexical"].last \in Nat
    BY <2>1, BackfillAssumption DEF Ids, PassType
  <2> QED
    BY <2>1, <2>2, <2>3 DEF Behind, Gone, Beyond, Indexed
<1> QED
  BY <1>1, BackfillInvariant, PTL

-----------------------------------------------------------------------------
(* The script that groups chunks in blocks.                                *)

\* Of a document an index run and the script did not meet on: the run at work deletes
\* all its chunks and blocks; the script has read all its chunks and, once it decided,
\* all its blocks, and no run is at work; the chunks have their block, or there is none.
Apart(d) ==
    store[d].exists /\ ~store[d].met =>
        /\ worker[d].pc # "idle" =>
              worker[d].chunks = store[d].chunks /\ worker[d].blocks = store[d].blocks
        /\ script["contexts"].doc = d =>
              /\ worker[d].pc = "idle"
              /\ script["contexts"].chunks = store[d].chunks
              /\ script["contexts"].pc \in {"snapshot", "write"} =>
                    script["contexts"].rows = store[d].blocks
        /\ store[d].chunks # {}
        /\ Grouped(store[d]) \/ store[d].blocks = {}

Complete(d) == store[d].exists => Grouped(store[d]) \/ store[d].met

Passed(d) ==
    d <= script["contexts"].last /\ d \notin script["contexts"].page
        /\ d # script["contexts"].doc /\ script["contexts"].failed = 0 => Complete(d)

Unseen(d) ==
    script["contexts"].pc = "finished" /\ d > script["contexts"].last => ~store[d].exists

PassAtRest == script["contexts"].pc = "finished" => script["contexts"].page = {}

PassCursor == PassAtRest /\ \A d \in Ids : Passed(d) /\ Unseen(d)

PassInv == (\A d \in Ids : Apart(d)) /\ PassCursor

\* The rows of d as far as blocks are concerned, and who is at work on it, stay.
SameRows(d) ==
    /\ store'[d].exists = store[d].exists /\ store'[d].met = store[d].met
    /\ store'[d].chunks = store[d].chunks /\ store'[d].blocks = store[d].blocks
    /\ store'[d].links = store[d].links

Steady(d) == Complete(d) => Complete(d)'

Turn(d) == Apart(d)' /\ Steady(d) /\ (store'[d].exists => store[d].exists)

\* A document that a step does not concern.
LEMMA Untouched ==
    ASSUME NEW d \in Ids, Apart(d), SameRows(d), worker'[d] = worker[d],
           \/ script'["contexts"].doc # d
           \/ script'["contexts"] = script["contexts"]
    PROVE  Turn(d)
<1>1. Grouped(store[d]) <=> Grouped(store'[d])
  BY DEF Grouped, SameRows
<1>2. Apart(d)'
  BY <1>1 DEF Apart, SameRows
<1>3. Steady(d)
  BY <1>1 DEF Steady, Complete, SameRows
<1> QED
  BY <1>2, <1>3 DEF Turn, SameRows

\* One block for all chunks.
LEMMA OneBlock ==
    ASSUME NEW s, NEW block, s.blocks = {block}, s.chunks \X {block} \subseteq s.links
    PROVE  Grouped(s)
<1>1. Cardinality(s.blocks) = 1
  BY FS_Singleton
<1>2. ASSUME NEW c \in s.chunks PROVE \E l \in s.links : l[1] = c
  <2>1. <<c, block>> \in s.links
    OBVIOUS
  <2> QED
    BY <2>1
<1> QED
  BY <1>1, <1>2 DEF Grouped

\* A document without blocks is due, one whose chunks have their block is not.
LEMMA DueIsUngrouped ==
    ASSUME NEW d \in Ids, store[d].chunks # {}, Grouped(store[d]) \/ store[d].blocks = {},
           ~ContextsDue(d, store[d].chunks)
    PROVE  Grouped(store[d])
<1>1. CASE store[d].blocks = {}
  <2>1. Cardinality(store[d].blocks) = 0
    BY <1>1, FS_EmptySet
  <2> QED
    BY <2>1 DEF ContextsDue
<1> QED
  BY <1>1

\* An index run that met no script leaves all its chunks in its block.
LEMMA ReplacedGrouped ==
    ASSUME NEW s \in RowType, NEW w \in RunType, w.chunks = s.chunks, w.blocks = s.blocks
    PROVE  /\ Replaced(s, w).exists = s.exists /\ Replaced(s, w).met = s.met
           /\ Replaced(s, w).chunks # {} /\ Grouped(Replaced(s, w))
<1> DEFINE new == ChunksOf(s.runs + 1)
           q == Replaced(s, w)
           L == {l \in s.links : l[1] \notin w.chunks /\ l[2] \notin w.blocks}
<1>1. /\ q.exists = s.exists /\ q.met = s.met
      /\ q.chunks = (s.chunks \ w.chunks) \union new
      /\ q.blocks = (s.blocks \ w.blocks) \union {<<"run", s.runs + 1>>}
      /\ q.links = L \union new \X {<<"run", s.runs + 1>>}
  BY DEF Replaced, RowType
<1>2. new # {}
  <2>1. [run |-> s.runs + 1, n |-> 1] \in new
    BY BackfillAssumption DEF ChunksOf
  <2> QED
    BY <2>1
<1> HIDE DEF new, q, L
<1>3. q.chunks = new /\ q.blocks = {<<"run", s.runs + 1>>}
  BY <1>1
<1>4. q.chunks \X {<<"run", s.runs + 1>>} \subseteq q.links
  BY <1>1, <1>3
<1>5. Grouped(q)
  BY <1>3, <1>4, OneBlock
<1> QED
  BY <1>1, <1>2, <1>3, <1>5 DEF q

\* So does the script that met no run.
LEMMA RegroupedGrouped ==
    ASSUME NEW s \in RowType, NEW block
    PROVE  /\ Regrouped(s, s.chunks, s.blocks, block).exists = s.exists
           /\ Regrouped(s, s.chunks, s.blocks, block).met = s.met
           /\ Regrouped(s, s.chunks, s.blocks, block).chunks = s.chunks
           /\ Grouped(Regrouped(s, s.chunks, s.blocks, block))
<1> DEFINE q == Regrouped(s, s.chunks, s.blocks, block)
           L == {l \in s.links : l[1] \notin s.chunks /\ l[2] \notin s.blocks}
<1>1. /\ q.exists = s.exists /\ q.met = s.met /\ q.chunks = s.chunks
      /\ q.blocks = (s.blocks \ s.blocks) \union {block}
      /\ q.links = L \union (s.chunks \intersect s.chunks) \X {block}
  BY DEF Regrouped, RowType
<1> HIDE DEF q, L
<1>2. q.blocks = {block} /\ q.chunks \X {block} \subseteq q.links
  BY <1>1
<1>3. Grouped(q)
  BY <1>2, OneBlock
<1> QED
  BY <1>1, <1>3 DEF q

\* Every step keeps documents apart, takes from no document its blocks and brings no
\* deleted one back.
LEMMA TurnKept ==
    ASSUME BackfillTypes, \A d \in Ids : Apart(d), [BackfillNext]_backfillVars
    PROVE  \A d \in Ids : Turn(d)
<1> USE BackfillAssumption
<1>0. /\ store \in [Ids -> RowType] /\ worker \in [Ids -> RunType]
      /\ script \in [Kinds -> PassType]
      /\ \A k \in Kinds : script[k].pc \in {"page", "finished"} <=> script[k].doc = 0
  BY DEF BackfillTypes
<1>n. Kinds = {"lexical", "contexts"} /\ Ids = 1..LastDoc
  BY DEF Kinds, Ids
<1> DEFINE c == "contexts"
           p == script["contexts"]
<1>p. p \in PassType /\ c \in Kinds
  BY <1>0, <1>n
<1>s. ASSUME NEW d \in Ids, store'[d] = store[d] PROVE SameRows(d)
  BY <1>s DEF SameRows
<1>m. ASSUME NEW s \in RowType, NEW m \in BOOLEAN
      PROVE  LET r == [s EXCEPT !.met = m] IN
             r.chunks = s.chunks /\ r.blocks = s.blocks /\ r.links = s.links /\ r.exists = s.exists
             /\ r.met = m
  BY DEF RowType
\* No script of a document is told from the one before, and no document changes.
<1>u. ASSUME store' = store, worker' = worker,
             script'["contexts"].doc \notin Ids \/ script'["contexts"] = script["contexts"]
      PROVE  \A d \in Ids : Turn(d)
  BY <1>u, <1>s, Untouched
<1>1. ASSUME NEW d \in Ids, BeginInsert(d) PROVE \A e \in Ids : Turn(e)
  <2> DEFINE r == [store[d] EXCEPT !.met = store[d].met \/ p.doc = d]
             w == [pc |-> "snapshot", chunks |-> store[d].chunks, blocks |-> store[d].blocks]
  <2>1. store' = [store EXCEPT ![d] = r] /\ worker' = [worker EXCEPT ![d] = w] /\ script' = script
    BY <1>1 DEF BeginInsert
  <2>2. /\ r.chunks = store[d].chunks /\ r.blocks = store[d].blocks /\ r.links = store[d].links
        /\ r.exists = store[d].exists /\ r.met = (store[d].met \/ p.doc = d)
    <3>1. (store[d].met \/ p.doc = d) \in BOOLEAN /\ store[d] \in RowType
      BY <1>0 DEF RowType
    <3> QED
      BY <1>m, <3>1
  <2>3. w.pc # "idle" /\ w.chunks = store[d].chunks /\ w.blocks = store[d].blocks
    OBVIOUS
  <2> HIDE DEF r, w
  <2>4. store'[d] = r /\ worker'[d] = w
    BY <1>0, <2>1
  <2>5. Grouped(r) <=> Grouped(store[d])
    BY <2>2 DEF Grouped
  <2>6. Apart(d)'
    BY <2>1, <2>2, <2>3, <2>4, <2>5 DEF Apart
  <2>7. Steady(d) /\ (store'[d].exists => store[d].exists)
    BY <2>2, <2>4, <2>5 DEF Steady, Complete
  <2>8. ASSUME NEW e \in Ids \ {d} PROVE Turn(e)
    BY <1>0, <1>s, <2>1, Untouched
  <2> QED
    BY <2>6, <2>7, <2>8 DEF Turn
<1>2. ASSUME NEW d \in Ids, DeleteOld(d) PROVE \A e \in Ids : Turn(e)
  <2> DEFINE w == [worker[d] EXCEPT !.pc = "delete"]
  <2>1. store' = store /\ script' = script /\ worker' = [worker EXCEPT ![d] = w]
        /\ worker[d].pc = "snapshot"
    BY <1>2 DEF DeleteOld
  <2>2. w.pc = "delete" /\ w.chunks = worker[d].chunks /\ w.blocks = worker[d].blocks
    BY <1>0 DEF RunType
  <2> HIDE DEF w
  <2>3. worker'[d] = w
    BY <1>0, <2>1
  <2>4. Apart(d)' /\ Steady(d)
    BY <2>1, <2>2, <2>3 DEF Apart, Steady, Complete
  <2>5. ASSUME NEW e \in Ids \ {d} PROVE Turn(e)
    BY <1>0, <1>s, <2>1, Untouched
  <2> QED
    BY <2>1, <2>4, <2>5 DEF Turn
<1>3. ASSUME NEW d \in Ids, EndInsert(d) PROVE \A e \in Ids : Turn(e)
  <2> DEFINE s == store[d]
             w == worker[d]
             q == Replaced(s, w)
  <2>1. script' = script /\ worker' = [worker EXCEPT ![d] = NoWorker] /\ w.pc = "delete"
        /\ (store' = store \/ store' = [store EXCEPT ![d] = IF s.exists THEN q ELSE s])
    BY <1>3 DEF EndInsert
  <2>2. NoWorker.pc = "idle" /\ worker'[d] = NoWorker
    BY <1>0, <2>1 DEF NoWorker
  <2>3. ASSUME NEW e \in Ids \ {d} PROVE Turn(e)
    BY <1>0, <1>s, <2>1, Untouched
  <2>4. CASE store'[d] = s
    <3>1. Apart(d)' /\ Steady(d)
      BY <2>1, <2>2, <2>4 DEF Apart, Steady, Complete
    <3> QED
      BY <2>3, <2>4, <3>1 DEF Turn
  <2>5. CASE s.exists /\ store'[d] = q
    <3>1. ASSUME ~s.met PROVE q.exists = s.exists /\ q.met = s.met /\ q.chunks # {} /\ Grouped(q)
      <4>1. w.chunks = s.chunks /\ w.blocks = s.blocks
        BY <2>1, <2>5, <3>1 DEF Apart
      <4> QED
        BY <1>0, <4>1, ReplacedGrouped
    <3>2. q.met = s.met
      BY <1>0 DEF Replaced, RowType
    <3> HIDE DEF q
    <3>3. Apart(d)'
      BY <2>1, <2>2, <2>5, <3>1, <3>2 DEF Apart
    <3>4. Steady(d)
      BY <2>5, <3>1, <3>2 DEF Steady, Complete
    <3> QED
      BY <2>3, <2>5, <3>3, <3>4 DEF Turn
  <2> QED
    BY <1>0, <2>1, <2>4, <2>5
<1>4. ASSUME NEW d \in Ids, Delete(d) PROVE \A e \in Ids : Turn(e)
  <2> DEFINE r == [store[d] EXCEPT !.exists = FALSE, !.chunks = {}, !.lex = {}, !.old = {},
                                   !.blocks = {}, !.links = {}]
  <2>1. store' = [store EXCEPT ![d] = r] /\ worker' = worker /\ script' = script
    BY <1>4 DEF Delete
  <2>2. ~r.exists
    BY <1>0 DEF RowType
  <2> HIDE DEF r
  <2>3. ~store'[d].exists
    BY <1>0, <2>1, <2>2
  <2>4. Turn(d)
    BY <2>3 DEF Turn, Apart, Steady, Complete
  <2>5. ASSUME NEW e \in Ids \ {d} PROVE Turn(e)
    BY <1>0, <1>s, <2>1, Untouched
  <2> QED
    BY <2>4, <2>5
<1>5. CASE Page(c)
  <2>1. p.pc = "page" /\ p.doc = 0 /\ store' = store /\ worker' = worker
    BY <1>0, <1>p, <1>5 DEF Page
  <2>2. script'["contexts"].doc = 0
    BY <1>0, <1>p, <1>5, <2>1 DEF Page, PassType
  <2> QED
    BY <1>n, <1>u, <2>1, <2>2
<1>6. CASE Read(c)
  <2>1. PICK d \in p.page :
          /\ script' = [script EXCEPT ![c] =
                [script[c] EXCEPT !.pc = "decide", !.doc = d,
                                  !.page = script[c].page \ {d},
                                  !.chunks = store[d].chunks]]
          /\ store' = [store EXCEPT ![d].met = @ \/ (c = "contexts" /\ worker[d].pc # "idle")]
          /\ worker' = worker
    BY <1>6 DEF Read
  <2>2. d \in Ids
    BY <1>p DEF PassType
  <2> DEFINE r == [store[d] EXCEPT !.met = store[d].met \/ worker[d].pc # "idle"]
             q == [p EXCEPT !.pc = "decide", !.doc = d, !.page = p.page \ {d},
                            !.chunks = store[d].chunks]
  <2>3. store' = [store EXCEPT ![d] = r] /\ script' = [script EXCEPT ![c] = q]
    BY <2>1
  <2>4. /\ r.chunks = store[d].chunks /\ r.blocks = store[d].blocks /\ r.links = store[d].links
        /\ r.exists = store[d].exists /\ r.met = (store[d].met \/ worker[d].pc # "idle")
    <3>1. (store[d].met \/ worker[d].pc # "idle") \in BOOLEAN /\ store[d] \in RowType
      BY <1>0, <2>2 DEF RowType
    <3> QED
      BY <1>m, <3>1
  <2>5. q.pc = "decide" /\ q.doc = d /\ q.chunks = store[d].chunks
    BY <1>p DEF PassType
  <2> HIDE DEF r, q
  <2>6. store'[d] = r /\ script'["contexts"] = q
    BY <1>0, <1>p, <2>2, <2>3
  <2>7. Grouped(r) <=> Grouped(store[d])
    BY <2>4 DEF Grouped
  <2>8. Apart(d)'
    BY <2>1, <2>2, <2>4, <2>5, <2>6, <2>7 DEF Apart
  <2>9. Steady(d)
    BY <2>4, <2>6, <2>7 DEF Steady, Complete
  <2>10. ASSUME NEW e \in Ids \ {d} PROVE Turn(e)
    BY <1>0, <1>s, <2>1, <2>2, <2>3, <2>5, <2>6, Untouched
  <2> QED
    BY <2>4, <2>6, <2>8, <2>9, <2>10 DEF Turn
<1>7. CASE Decide(c)
  <2>1. p.pc = "decide" /\ p.doc \in Ids /\ store' = store /\ worker' = worker
    BY <1>0, <1>n, <1>p, <1>7 DEF Decide, PassType
  <2>2. CASE ContextsDue(p.doc, p.chunks)
    <3> DEFINE q == [p EXCEPT !.pc = "due"]
    <3>1. script' = [script EXCEPT ![c] = q]
      BY <1>7, <2>2 DEF Decide
    <3>2. q.pc = "due" /\ q.doc = p.doc /\ q.chunks = p.chunks
      BY <1>p DEF PassType
    <3> HIDE DEF q
    <3>3. script'["contexts"] = q
      BY <1>0, <1>p, <3>1
    <3>4. ASSUME NEW d \in Ids PROVE Apart(d)' /\ Steady(d)
      BY <2>1, <3>2, <3>3 DEF Apart, Steady, Complete
    <3> QED
      BY <2>1, <3>4 DEF Turn
  <2>3. CASE ~ContextsDue(p.doc, p.chunks)
    <3>1. script' = [script EXCEPT ![c] = Ended(c)]
      BY <1>7, <2>3 DEF Decide
    <3>2. Ended(c).doc = 0
      BY <1>p DEF Ended, PassType
    <3>3. script'["contexts"].doc = 0
      BY <1>0, <1>p, <3>1, <3>2
    <3> QED
      BY <1>n, <1>u, <2>1, <3>3
  <2> QED
    BY <2>2, <2>3
<1>7a. CASE SeeBlocks
  <2> DEFINE q == [p EXCEPT !.pc = "snapshot", !.rows = store[p.doc].blocks]
  <2>1. /\ p.pc = "due" /\ store' = store /\ worker' = worker
        /\ script' = [script EXCEPT ![c] = q]
    BY <1>7a DEF SeeBlocks
  <2>2. q.pc = "snapshot" /\ q.doc = p.doc /\ q.chunks = p.chunks /\ q.rows = store[p.doc].blocks
    BY <1>p DEF PassType
  <2> HIDE DEF q
  <2>3. script'["contexts"] = q
    BY <1>0, <1>p, <2>1
  <2>4. ASSUME NEW d \in Ids PROVE Apart(d)' /\ Steady(d)
    BY <2>1, <2>2, <2>3 DEF Apart, Steady, Complete
  <2> QED
    BY <2>1, <2>4 DEF Turn
<1>8. CASE DeleteBlocks
  <2> DEFINE q == [p EXCEPT !.pc = "write"]
  <2>1. p.pc = "snapshot" /\ store' = store /\ worker' = worker /\ script' = [script EXCEPT ![c] = q]
    BY <1>8 DEF DeleteBlocks
  <2>2. q.pc = "write" /\ q.doc = p.doc /\ q.chunks = p.chunks /\ q.rows = p.rows
    BY <1>p DEF PassType
  <2> HIDE DEF q
  <2>3. script'["contexts"] = q
    BY <1>0, <1>p, <2>1
  <2>4. ASSUME NEW d \in Ids PROVE Apart(d)' /\ Steady(d)
    BY <2>1, <2>2, <2>3 DEF Apart, Steady, Complete
  <2> QED
    BY <2>1, <2>4 DEF Turn
<1>9. CASE CommitContexts
  <2>0. p.pc = "write" /\ p.doc \in Ids
    BY <1>0, <1>n, <1>p, <1>9 DEF CommitContexts, PassType
  <2>d. PICK d \in Ids : d = p.doc
    BY <2>0
  <2> DEFINE s == store[d]
             q == Regrouped(s, p.chunks, p.rows, <<"script", p.pass>>)
  <2>1. worker' = worker /\ store' = [store EXCEPT ![d] = IF s.exists THEN q ELSE s]
    BY <1>9, <2>d DEF CommitContexts
  <2>2. Ended(c).doc = 0 /\ FailedAt(c).doc = 0
    BY <1>p DEF Ended, FailedAt, PassType
  <2>3. script'["contexts"].doc = 0
    BY <1>0, <1>p, <1>9, <2>2 DEF CommitContexts
  <2>4. ASSUME NEW e \in Ids \ {d} PROVE Turn(e)
    BY <1>0, <1>n, <1>s, <2>1, <2>3, Untouched
  <2>5. CASE ~s.exists
    BY <1>0, <1>n, <1>s, <2>1, <2>3, <2>4, <2>5, Untouched
  <2>6. CASE s.exists
    <3>1. store'[d] = q
      BY <1>0, <2>1, <2>6
    <3>2. q.exists = s.exists /\ q.met = s.met
      BY <1>0 DEF Regrouped, RowType
    <3>3. ASSUME ~s.met PROVE q.chunks # {} /\ Grouped(q) /\ worker[d].pc = "idle"
      <4>1. p.chunks = s.chunks /\ p.rows = s.blocks /\ s.chunks # {} /\ worker[d].pc = "idle"
        BY <2>0, <2>d, <2>6, <3>3 DEF Apart
      <4> QED
        BY <1>0, <4>1, RegroupedGrouped
    <3>4. d # 0
      BY <1>n
    <3> HIDE DEF q
    <3>5. Apart(d)'
      BY <2>1, <2>3, <3>1, <3>2, <3>3, <3>4 DEF Apart
    <3>6. Steady(d) /\ (store'[d].exists => store[d].exists)
      BY <2>6, <3>1, <3>2, <3>3 DEF Steady, Complete
    <3> QED
      BY <2>4, <3>5, <3>6 DEF Turn
  <2> QED
    BY <2>5, <2>6
<1>10. CASE RunAgain(c)
  <2>1. script'["contexts"].doc = 0 /\ store' = store /\ worker' = worker
    BY <1>0, <1>p, <1>10 DEF RunAgain, NoScript
  <2> QED
    BY <1>n, <1>u, <2>1
<1>11. ASSUME Page("lexical") \/ Decide("lexical") \/ RunAgain("lexical") \/ WriteLexical
       PROVE  \A d \in Ids : Turn(d)
  <2>1. script'["contexts"] = script["contexts"] /\ store' = store /\ worker' = worker
    BY <1>0, <1>n, <1>11 DEF Page, Decide, RunAgain, WriteLexical
  <2> QED
    BY <1>u, <2>1
<1>12. CASE Read("lexical")
  <2>1. PICK d \in script["lexical"].page :
          /\ script'["contexts"] = script["contexts"] /\ worker' = worker
          /\ store' = [store EXCEPT ![d].met = @ \/ ("lexical" = "contexts" /\ worker[d].pc # "idle")]
    BY <1>0, <1>n, <1>12 DEF Read
  <2>2. d \in Ids
    BY <1>0, <1>n DEF PassType
  <2> DEFINE r == [store[d] EXCEPT !.met = store[d].met]
  <2>3. store' = [store EXCEPT ![d] = r]
    <3>1. store[d].met \in BOOLEAN
      BY <1>0, <2>2 DEF RowType
    <3>2. (store[d].met \/ ("lexical" = "contexts" /\ worker[d].pc # "idle")) = store[d].met
      BY <3>1
    <3> QED
      BY <2>1, <3>2
  <2>4. r = store[d]
    BY <1>0, <2>2 DEF RowType
  <2> HIDE DEF r
  <2>5. store' = store
    BY <1>0, <2>3, <2>4
  <2> QED
    BY <1>u, <2>1, <2>5
<1>13. CASE CommitLexical
  <2> DEFINE d == script["lexical"].doc
             C == script["lexical"].chunks
             r == [[store[d] EXCEPT !.lex = store[d].lex \union C] EXCEPT !.old = @ \ C]
  <2>1. d \in Ids /\ worker' = worker /\ script'["contexts"] = script["contexts"]
    BY <1>0, <1>n, <1>13 DEF CommitLexical, PassType
  <2>2. store' = [store EXCEPT ![d] = r]
    BY <1>0, <1>13, <2>1 DEF CommitLexical, LexOf
  <2>3. r.chunks = store[d].chunks /\ r.blocks = store[d].blocks /\ r.links = store[d].links
        /\ r.exists = store[d].exists /\ r.met = store[d].met
    BY <1>0, <2>1 DEF RowType
  <2> HIDE DEF r, d
  <2>4. \A e \in Ids : SameRows(e)
    BY <1>0, <2>1, <2>2, <2>3 DEF SameRows
  <2> QED
    BY <2>1, <2>4, Untouched
<1>14. CASE UNCHANGED backfillVars
  BY <1>14, <1>u DEF backfillVars
<1> QED
  BY <1>1, <1>2, <1>3, <1>4, <1>5, <1>6, <1>7, <1>7a, <1>8, <1>9, <1>10, <1>11, <1>12, <1>13, <1>14, <1>n
     DEF BackfillNext

-----------------------------------------------------------------------------

\* The cursor of the context script: the documents behind it are complete, unless a
\* failure was counted or the document is still in the page or in hand.
LEMMA PassKept ==
    ASSUME BackfillInv, PassInv, [BackfillNext]_backfillVars
    PROVE  PassInv'
<1> USE BackfillAssumption
<1>0. /\ store \in [Ids -> RowType] /\ script \in [Kinds -> PassType]
      /\ \A k \in Kinds : script[k].pc \in {"page", "finished"} <=> script[k].doc = 0
      /\ BackfillTypes
  BY DEF BackfillInv, BackfillTypes
<1>i. PassAtRest /\ \A d \in Ids : Apart(d) /\ Passed(d) /\ Unseen(d)
  BY DEF PassInv, PassCursor
<1>t. \A d \in Ids : Turn(d)
  BY <1>0, <1>i, TurnKept
<1>a. \A d \in Ids : Apart(d)'
  BY <1>t DEF Turn
<1>k. \A d \in Ids : (Complete(d) => Complete(d)') /\ (store'[d].exists => store[d].exists)
  BY <1>t DEF Turn, Steady
<1>n. Kinds = {"lexical", "contexts"} /\ Ids = 1..LastDoc
  BY DEF Kinds, Ids
<1> DEFINE k == "contexts"
           p == script[k]
           q == script'[k]
<1>p. p \in PassType
  BY <1>0, <1>n
<1> SUFFICES PassCursor'
  BY <1>a DEF PassInv
<1>s. CASE q = p
  BY <1>i, <1>k, <1>s DEF PassCursor, PassAtRest, Passed, Unseen
\* The document in hand is done, or its failure is counted.
<1>e. ASSUME q.last = p.last, q.page = p.page, q.doc = 0, q.pc = "page",
             p.pc # "finished",
             \/ q.failed # 0
             \/ q.failed = p.failed /\ (\A d \in Ids : d = p.doc => Complete(d)')
      PROVE  PassCursor'
  <2>1. PassAtRest'
    BY <1>e DEF PassAtRest
  <2>2. ASSUME NEW d \in Ids PROVE Passed(d)'
    <3>1. CASE q.failed # 0
      BY <3>1 DEF Passed
    <3>2. CASE d = p.doc /\ q.failed = p.failed
      BY <1>e, <3>2 DEF Passed
    <3>3. CASE d # p.doc /\ q.failed = p.failed
      BY <1>e, <1>i, <1>k, <3>3 DEF Passed
    <3> QED
      BY <1>e, <3>1, <3>2, <3>3
  <2>3. ASSUME NEW d \in Ids PROVE Unseen(d)'
    BY <1>e DEF Unseen
  <2> QED
    BY <2>1, <2>2, <2>3 DEF PassCursor
<1>f. /\ Ended(k).last = p.last /\ Ended(k).page = p.page /\ Ended(k).doc = 0
      /\ Ended(k).pc = "page" /\ Ended(k).failed = p.failed
      /\ FailedAt(k).last = p.last /\ FailedAt(k).page = p.page /\ FailedAt(k).doc = 0
      /\ FailedAt(k).pc = "page" /\ FailedAt(k).failed = p.failed + 1
      /\ p.failed + 1 # 0
  BY <1>p DEF Ended, FailedAt, PassType
<1>1. CASE Page(k)
  <2>0. p.pc = "page" /\ p.page = {} /\ p.doc = 0 /\ store' = store
    BY <1>1, <1>0, <1>n DEF Page
  <2>1. ASSUME Waiting(k) = {}, script' = [script EXCEPT ![k].pc = "finished"]
        PROVE  PassCursor'
    <3>1. q.pc = "finished" /\ q.last = p.last /\ q.page = {} /\ q.doc = 0
          /\ q.failed = p.failed
      BY <1>0, <1>n, <1>p, <2>0, <2>1 DEF PassType
    <3>2. \A d \in Ids : Unseen(d)'
      BY <2>0, <2>1, <3>1 DEF Unseen, Waiting
    <3> QED
      BY <1>i, <1>k, <2>0, <3>1, <3>2 DEF PassCursor, PassAtRest, Passed
  <2>2. ASSUME NEW last \in NextPage(k),
               script' = [script EXCEPT ![k].page = NextPage(k), ![k].last = last]
        PROVE  PassCursor'
    <3>1. q.pc = "page" /\ q.last = last /\ q.page = NextPage(k) /\ q.doc = 0
          /\ q.failed = p.failed
      BY <1>0, <1>n, <1>p, <2>0, <2>2 DEF PassType
    <3>2. ASSUME NEW d \in Ids, d <= last, d \notin NextPage(k), q.failed = 0
          PROVE  Complete(d)
      <4>1. CASE d <= p.last
        BY <1>i, <1>n, <2>0, <3>1, <3>2, <4>1 DEF Passed
      <4>2. CASE ~(d <= p.last)
        <5>1. p.last \in Nat /\ d \in Nat
          BY <1>p, <1>n DEF PassType
        <5>2. d \notin Waiting(k)
          BY <2>2, <3>2, PageIsPrefix
        <5>3. ~store[d].exists
          BY <4>2, <5>1, <5>2 DEF Waiting
        <5> QED
          BY <5>3 DEF Complete
      <4> QED
        BY <4>1, <4>2
    <3>3. ASSUME NEW d \in Ids PROVE Passed(d)'
      BY <1>k, <3>1, <3>2 DEF Passed
    <3>4. PassAtRest' /\ \A d \in Ids : Unseen(d)'
      BY <3>1 DEF PassAtRest, Unseen
    <3> QED
      BY <3>3, <3>4 DEF PassCursor
  <2> QED
    BY <1>1, <2>1, <2>2 DEF Page
<1>2. CASE Read(k)
  <2>0. p.pc = "page" /\ p.doc = 0
    BY <1>2, <1>0, <1>n DEF Read
  <2>1. PICK d \in p.page :
          script' = [script EXCEPT ![k] =
                [script[k] EXCEPT !.pc = "decide", !.doc = d,
                                  !.page = script[k].page \ {d},
                                  !.chunks = store[d].chunks]]
    BY <1>2 DEF Read
  <2>2. q.pc = "decide" /\ q.last = p.last /\ q.page = p.page \ {d} /\ q.doc = d
        /\ q.failed = p.failed
    BY <1>0, <1>n, <1>p, <2>1 DEF PassType
  <2>3. ASSUME NEW c \in Ids PROVE Passed(c)'
    BY <1>i, <1>k, <1>n, <2>0, <2>2 DEF Passed
  <2>4. PassAtRest' /\ \A c \in Ids : Unseen(c)'
    BY <2>2 DEF PassAtRest, Unseen
  <2> QED
    BY <2>3, <2>4 DEF PassCursor
<1>3. CASE Decide(k)
  <2>0. p.pc = "decide" /\ p.doc \in Ids
    BY <1>3, <1>0, <1>n, <1>p DEF Decide, PassType
  <2>1. CASE ContextsDue(p.doc, p.chunks)
    <3>1. script' = [script EXCEPT ![k] = [@ EXCEPT !.pc = "due"]]
      BY <1>3, <2>1 DEF Decide
    <3>2. q.pc = "due" /\ q.last = p.last /\ q.page = p.page /\ q.doc = p.doc
          /\ q.failed = p.failed
      BY <1>0, <1>n, <1>p, <3>1 DEF PassType
    <3> QED
      BY <1>i, <1>k, <3>2 DEF PassCursor, PassAtRest, Passed, Unseen
  <2>2. CASE ~ContextsDue(p.doc, p.chunks)
    <3>1. q = Ended(k)
      BY <1>3, <1>0, <1>n, <2>2 DEF Decide
    <3>2. Complete(p.doc)
      <4> SUFFICES ASSUME store[p.doc].exists, ~store[p.doc].met PROVE Grouped(store[p.doc])
        BY DEF Complete
      <4>1. /\ p.chunks = store[p.doc].chunks /\ store[p.doc].chunks # {}
            /\ Grouped(store[p.doc]) \/ store[p.doc].blocks = {}
        BY <1>i, <2>0 DEF Apart
      <4> QED
        BY <2>0, <2>2, <4>1, DueIsUngrouped
    <3>3. \A d \in Ids : d = p.doc => Complete(d)'
      BY <1>k, <3>2
    <3> QED
      BY <1>e, <1>f, <2>0, <3>1, <3>3
  <2> QED
    BY <2>1, <2>2
<1>3a. CASE SeeBlocks
  <2>1. /\ script' = [script EXCEPT ![k] =
              [@ EXCEPT !.pc = "snapshot", !.rows = store[p.doc].blocks]]
        /\ p.pc = "due"
    BY <1>3a DEF SeeBlocks
  <2>2. q.pc = "snapshot" /\ q.last = p.last /\ q.page = p.page /\ q.doc = p.doc
        /\ q.failed = p.failed
    BY <1>0, <1>n, <1>p, <2>1 DEF PassType
  <2> QED
    BY <1>i, <1>k, <2>2 DEF PassCursor, PassAtRest, Passed, Unseen
<1>4. CASE DeleteBlocks
  <2>1. script' = [script EXCEPT ![k].pc = "write"] /\ p.pc = "snapshot"
    BY <1>4 DEF DeleteBlocks
  <2>2. q.pc = "write" /\ q.last = p.last /\ q.page = p.page /\ q.doc = p.doc
        /\ q.failed = p.failed
    BY <1>0, <1>n, <1>p, <2>1 DEF PassType
  <2> QED
    BY <1>i, <1>k, <2>2 DEF PassCursor, PassAtRest, Passed, Unseen
<1>5. CASE CommitContexts
  <2>0. p.pc = "write" /\ p.doc \in Ids
    BY <1>5, <1>0, <1>n, <1>p DEF CommitContexts, PassType
  <2>1. CASE store[p.doc].exists
    <3>1. q = Ended(k)
      BY <1>5, <1>0, <1>n, <2>1 DEF CommitContexts
    <3> DEFINE s == store[p.doc]
               r == Regrouped(s, p.chunks, p.rows, <<"script", p.pass>>)
    <3>2. store'[p.doc] = r
      BY <1>5, <1>0, <2>0, <2>1 DEF CommitContexts
    <3>3. r.met = s.met
      BY <1>0, <2>0 DEF Regrouped, RowType
    <3>4. ASSUME ~s.met PROVE Grouped(r)
      <4>1. p.chunks = s.chunks /\ p.rows = s.blocks
        BY <1>i, <2>0, <2>1, <3>4 DEF Apart
      <4> QED
        BY <1>0, <2>0, <4>1, RegroupedGrouped
    <3> HIDE DEF r
    <3>5. Grouped(store'[p.doc]) \/ store'[p.doc].met
      BY <3>2, <3>3, <3>4
    <3>6. PICK d \in Ids : d = p.doc
      BY <2>0
    <3>7. Complete(d)'
      BY <3>5, <3>6 DEF Complete
    <3> QED
      BY <1>e, <1>f, <2>0, <3>1, <3>6, <3>7
  <2>2. CASE ~store[p.doc].exists
    <3>1. q = FailedAt(k)
      BY <1>5, <1>0, <1>n, <2>2 DEF CommitContexts
    <3> QED
      BY <1>e, <1>f, <2>0, <3>1
  <2> QED
    BY <2>1, <2>2
<1>6. CASE RunAgain(k)
  <2>1. q.pc = "page" /\ q.last = 0 /\ q.page = {} /\ q.doc = 0
    BY <1>6, <1>0, <1>n DEF RunAgain, NoScript
  <2> QED
    BY <1>n, <2>1 DEF PassCursor, PassAtRest, Passed, Unseen
<1>7. ASSUME Page("lexical") \/ Read("lexical") \/ Decide("lexical")
             \/ RunAgain("lexical") \/ WriteLexical \/ CommitLexical
      PROVE  q = p
  BY <1>7, <1>0, <1>n DEF Page, Read, Decide, RunAgain, WriteLexical, CommitLexical
<1>8. ASSUME NEW d \in Ids, BeginInsert(d) \/ DeleteOld(d) \/ EndInsert(d) \/ Delete(d)
      PROVE  q = p
  BY <1>8 DEF BeginInsert, DeleteOld, EndInsert, Delete
<1>9. CASE UNCHANGED backfillVars
  BY <1>9, <1>s DEF backfillVars
<1> QED
  BY <1>s, <1>1, <1>2, <1>3, <1>3a, <1>4, <1>5, <1>6, <1>7, <1>8, <1>9, <1>n DEF BackfillNext

\* Documents start with one block for all their chunks or with none, and nobody is at
\* work on them.
LEMMA PassInit == BackfillInit => PassInv
<1> SUFFICES ASSUME BackfillInit PROVE PassInv
  OBVIOUS
<1> USE BackfillAssumption
<1>1. script["contexts"] = NoScript /\ \A d \in Ids : worker[d] = NoWorker
  BY DEF BackfillInit, Kinds
<1>2. ASSUME NEW l \in {"none", "old", "new"}, NEW g \in BOOLEAN
      PROVE  Rows(0, l, g).chunks # {} /\ (Grouped(Rows(0, l, g)) \/ Rows(0, l, g).blocks = {})
  <2> DEFINE s == Rows(0, l, g)
  <2>1. s.chunks = ChunksOf(0)
    BY DEF Rows
  <2>2. [run |-> 0, n |-> 1] \in ChunksOf(0)
    BY DEF ChunksOf
  <2>3. CASE g
    <3>1. s.blocks = {<<"run", 0>>} /\ s.links = s.chunks \X {<<"run", 0>>}
      BY <2>3 DEF Rows
    <3> HIDE DEF s
    <3>2. Grouped(s)
      BY <3>1, OneBlock
    <3> QED
      BY <2>1, <2>2, <3>2 DEF s
  <2>4. CASE ~g
    BY <2>1, <2>2, <2>4 DEF Rows
  <2> QED
    BY <2>3, <2>4
<1>3. ASSUME NEW d \in Ids PROVE Apart(d)
  <2>1. PICK l \in {"none", "old", "new"}, g \in BOOLEAN : store[d] = Rows(0, l, g)
    BY DEF BackfillInit
  <2>2. worker[d].pc = "idle" /\ script["contexts"].doc # d
    BY <1>1 DEF NoWorker, NoScript, Ids
  <2> QED
    BY <1>2, <2>1, <2>2 DEF Apart
<1>4. PassCursor
  BY <1>1 DEF PassCursor, PassAtRest, Passed, Unseen, NoScript, Ids
<1> QED
  BY <1>3, <1>4 DEF PassInv

\* A pass of rebuild_chunk_contexts that counts no failure leaves every chunk in its
\* block and one set of blocks per document, unless an index run and the script were at
\* work on that document at once (_needs_rebuild, _apply_document).
THEOREM ContextPassComplete == BackfillSpec => []ContextsComplete
<1>1. BackfillInit => BackfillInv /\ PassInv
  BY BackfillInitInv, PassInit
<1>2. BackfillInv /\ PassInv /\ [BackfillNext]_backfillVars => (BackfillInv /\ PassInv)'
  BY BackfillStepTypes, CursorKept, PassKept DEF BackfillInv
<1>3. BackfillInv /\ PassInv => ContextsComplete
  <2> SUFFICES ASSUME BackfillInv, PassInv, script["contexts"].pc = "finished",
                      script["contexts"].failed = 0, NEW d \in Ids, store[d].exists
               PROVE  Grouped(store[d]) \/ store[d].met
    BY DEF ContextsComplete
  <2>1. script["contexts"] \in PassType /\ script["contexts"].doc = 0
    BY DEF BackfillInv, BackfillTypes, Kinds
  <2>2. Passed(d) /\ Unseen(d) /\ script["contexts"].page = {}
    BY DEF PassInv, PassCursor, PassAtRest
  <2>3. d \in Nat /\ d # 0 /\ script["contexts"].last \in Nat
    BY <2>1, BackfillAssumption DEF Ids, PassType
  <2> QED
    BY <2>1, <2>2, <2>3 DEF Passed, Unseen, Complete
<1> QED
  BY <1>1, <1>2, <1>3, PTL DEF BackfillSpec
=============================================================================
