--------------------------- MODULE RetrievalProofs ---------------------------
(***************************************************************************)
(* RetrievalInv and ContextInv for every value of the constants: any       *)
(* number of chunks, channels of any length, any order of the rerank       *)
(* service, documents of any number of chunks, hits of any number.         *)
(*                                                                         *)
(* RetrievalInv follows from what is known of each stage of a search       *)
(* (SearchInv): which list it has, what of it was lost and why, and that   *)
(* the rerank cache holds answers only.  ContextInv follows from what each *)
(* operator computes: the blocks of any list of chunks (BlocksOfChunks),   *)
(* the text around any hit (TextHasHit), the windows of any list of        *)
(* results (WindowGroupsAre), the budget over any groups (BudgetHolds).    *)
(* Lists in an order and loops over them come first.                       *)
(***************************************************************************)
EXTENDS Retrieval, ContextBlocks, KnowledgeProofs

-----------------------------------------------------------------------------
(* Lists in an order. *)

Strict(S, R) ==
    /\ \A x \in S : <<x, x>> \notin R
    /\ \A x, y \in S : x # y => <<x, y>> \in R \/ <<y, x>> \in R
    /\ \A x, y, z \in S : <<x, y>> \in R /\ <<y, z>> \in R => <<x, z>> \in R

UpToIn(S, R, x) == {y \in S : y = x \/ <<y, x>> \in R}

\* A finite set with a strict order is listed in that order.
LEMMA InOrderLists ==
    ASSUME NEW S, IsFiniteSet(S), NEW R, Strict(S, R)
    PROVE  /\ InOrder(S, R) \in SetToSeqs(S)
           /\ \A i, j \in DOMAIN InOrder(S, R) :
                 i < j => <<InOrder(S, R)[i], InOrder(S, R)[j]>> \in R
<1> DEFINE n == Cardinality(S)
           place == [x \in S |-> Cardinality(UpToIn(S, R, x))]
           s == [i \in 1..n |-> CHOOSE x \in S : place[x] = i]
<1>1. n \in Nat
  BY FS_CardinalityType
<1>2. \A x \in S : /\ UpToIn(S, R, x) \in SUBSET S /\ x \in UpToIn(S, R, x)
                   /\ IsFiniteSet(UpToIn(S, R, x)) /\ Cardinality(UpToIn(S, R, x)) <= n
  BY FS_Subset DEF UpToIn
<1>3. \A x \in S : place[x] \in 1..n
  <2> SUFFICES ASSUME NEW x \in S PROVE Cardinality(UpToIn(S, R, x)) \in 1..n
    OBVIOUS
  <2>1. Cardinality(UpToIn(S, R, x)) \in Nat /\ Cardinality(UpToIn(S, R, x)) # 0
    BY <1>2, FS_CardinalityType, FS_EmptySet
  <2> QED
    BY <1>1, <1>2, <2>1
<1>4. \A x, y \in S : <<x, y>> \in R => place[x] < place[y]
  <2> SUFFICES ASSUME NEW x \in S, NEW y \in S, <<x, y>> \in R PROVE place[x] < place[y]
    OBVIOUS
  <2>1. UpToIn(S, R, x) \in SUBSET UpToIn(S, R, y)
    BY DEF UpToIn, Strict
  <2>2. y \in UpToIn(S, R, y) /\ y \notin UpToIn(S, R, x)
    BY DEF UpToIn, Strict
  <2>3. Cardinality(UpToIn(S, R, x)) <= Cardinality(UpToIn(S, R, y))
        /\ Cardinality(UpToIn(S, R, x)) # Cardinality(UpToIn(S, R, y))
    BY <1>2, <2>1, <2>2, FS_Subset
  <2>4. place[x] \in 1..n /\ place[y] \in 1..n
    BY <1>3
  <2> QED
    BY <1>1, <2>3, <2>4
<1>5. place \in Injection(S, 1..n)
  <2>1. \A x, y \in S : x # y => <<x, y>> \in R \/ <<y, x>> \in R
    BY DEF Strict
  <2>2. place \in [S -> 1..n]
    BY <1>3
  <2>3. \A x, y \in S : place[x] \in Nat /\ place[y] \in Nat
    BY <1>1, <1>3
  <2> HIDE DEF place
  <2>4. ASSUME NEW x \in S, NEW y \in S, x # y PROVE place[x] # place[y]
    <3>1. place[x] < place[y] \/ place[y] < place[x]
      BY <1>4, <2>1, <2>4
    <3>2. place[x] \in Nat /\ place[y] \in Nat
      BY <2>3
    <3> QED
      BY <3>1, <3>2
  <2> QED
    BY <2>2, <2>4 DEF Injection, IsInjective
<1> HIDE DEF place
<1>6. \A i \in 1..n : \E x \in S : place[x] = i
  <2>1. IsFiniteSet(1..n) /\ Cardinality(1..n) = n
    BY <1>1, FS_Interval
  <2> DEFINE m == 1..n
  <2>2. place \in Injection(S, m) /\ IsFiniteSet(m) /\ Cardinality(S) = Cardinality(m)
    BY <1>5, <2>1
  <2> HIDE DEF m
  <2>3. place \in Surjection(S, m)
    BY <2>2, FS_Injection
  <2> QED
    BY <2>3 DEF Surjection, m
<1>7. \A i \in 1..n : s[i] \in S /\ place[s[i]] = i
  BY <1>6
<1>8. DOMAIN s = 1..n /\ s \in [1..n -> S]
  BY <1>7
<1> HIDE DEF s
<1>9. \A i, j \in 1..n : i < j => <<s[i], s[j]>> \in R
  <2> SUFFICES ASSUME NEW i \in 1..n, NEW j \in 1..n, i < j PROVE <<s[i], s[j]>> \in R
    OBVIOUS
  <2>1. s[i] \in S /\ s[j] \in S /\ place[s[i]] = i /\ place[s[j]] = j
    BY <1>7
  <2>2. s[i] # s[j] /\ ~ (j < i)
    BY <1>1, <2>1
  <2>3. ~ (<<s[j], s[i]>> \in R)
    BY <1>4, <2>1, <2>2
  <2> QED
    BY <2>1, <2>2, <2>3 DEF Strict
<1>10. s \in SetToSeqs(S)
  <2>1. \A i, j \in 1..n : i # j => s[i] # s[j]
    BY <1>7
  <2> QED
    BY <1>8, <2>1 DEF SetToSeqs
<1>11. \A i, j \in DOMAIN s : i < j => <<s[i], s[j]>> \in R
  BY <1>8, <1>9
<1> QED
  BY <1>10, <1>11 DEF InOrder

\* A list: no member twice.
Distinct(s) == \A i, j \in DOMAIN s : s[i] = s[j] => i = j

\* What a list in an order is.
LEMMA Ordered ==
    ASSUME NEW S, IsFiniteSet(S), NEW R, Strict(S, R), NEW s, s = InOrder(S, R)
    PROVE  /\ s \in Seq(S) /\ Len(s) = Cardinality(S) /\ Distinct(s) /\ ToSet(s) = S
           /\ \A i, j \in 1..Len(s) : i < j <=> <<s[i], s[j]>> \in R
<1> DEFINE n == Cardinality(S)
<1>1. n \in Nat
  BY FS_CardinalityType
<1>2. s \in SetToSeqs(S) /\ \A i, j \in DOMAIN s : i < j => <<s[i], s[j]>> \in R
  BY InOrderLists
<1>3. s \in [1..n -> S] /\ \A i, j \in 1..n : i # j => s[i] # s[j]
  BY <1>2 DEF SetToSeqs
<1>4. \A x \in S : \E i \in 1..n : s[i] = x
  BY <1>2, ListsAll
<1> HIDE DEF n
<1>5. s \in Seq(S) /\ Len(s) = n /\ DOMAIN s = 1..n
  BY <1>1, <1>3
<1>6. Distinct(s)
  BY <1>3, <1>5 DEF Distinct
<1>7. ToSet(s) = S
  BY <1>3, <1>4, <1>5 DEF ToSet
<1>8. \A i, j \in 1..n : <<s[i], s[j]>> \in R => i < j
  <2> SUFFICES ASSUME NEW i \in 1..n, NEW j \in 1..n, <<s[i], s[j]>> \in R, ~(i < j) PROVE FALSE
    OBVIOUS
  <2>1. s[i] \in S /\ s[j] \in S
    BY <1>3
  <2>2. i = j \/ j < i
    BY <1>1
  <2>3. j < i => <<s[j], s[i]>> \in R
    BY <1>2, <1>5
  <2> QED
    BY <2>1, <2>2, <2>3 DEF Strict
<1> QED
  BY <1>2, <1>5, <1>6, <1>7, <1>8 DEF n

\* Where a list has a member.
LEMMA PlaceOf ==
    ASSUME NEW S, NEW s \in Seq(S), Distinct(s), NEW x \in ToSet(s)
    PROVE  /\ At(s, x) \in 1..Len(s) /\ s[At(s, x)] = x /\ x \in S
           /\ \A i \in 1..Len(s) : s[i] = x => i = At(s, x)
<1>1. DOMAIN s = 1..Len(s)
  OBVIOUS
<1>2. \E i \in DOMAIN s : s[i] = x
  BY DEF ToSet
<1>3. At(s, x) \in DOMAIN s /\ s[At(s, x)] = x
  BY <1>2 DEF At
<1>4. s[At(s, x)] \in S
  BY <1>1, <1>3
<1> QED
  BY <1>1, <1>3, <1>4 DEF Distinct

\* The members of a list are finitely many, in a strict order.
LEMMA OrderedAs ==
    ASSUME NEW S, NEW s \in Seq(S), Distinct(s)
    PROVE  IsFiniteSet(ToSet(s)) /\ Strict(ToSet(s), OrderOf(s)) /\ ToSet(s) \in SUBSET S
<1> DEFINE U == ToSet(s)
<1>1. \A x \in U : At(s, x) \in 1..Len(s) /\ s[At(s, x)] = x /\ x \in S
  BY PlaceOf
<1>2. \A x, y \in U : <<x, y>> \in OrderOf(s) <=> At(s, x) < At(s, y)
  BY DEF OrderOf
<1>3. Len(s) \in Nat /\ DOMAIN s = 1..Len(s)
  OBVIOUS
<1> HIDE DEF U
<1>4. Strict(U, OrderOf(s))
  <2> DEFINE k(x) == At(s, x)
  <2>1. \A x \in U : k(x) \in Nat /\ s[k(x)] = x
    BY <1>1, <1>3
  <2>2. \A x, y \in U : <<x, y>> \in OrderOf(s) <=> k(x) < k(y)
    BY <1>2
  <2> HIDE DEF k
  <2>3. \A x \in U : <<x, x>> \notin OrderOf(s)
    BY <2>1, <2>2
  <2>4. ASSUME NEW x \in U, NEW y \in U, x # y
        PROVE  <<x, y>> \in OrderOf(s) \/ <<y, x>> \in OrderOf(s)
    <3>1. k(x) # k(y) /\ k(x) \in Nat /\ k(y) \in Nat
      BY <2>1, <2>4
    <3> QED
      BY <2>2, <3>1
  <2>5. ASSUME NEW x \in U, NEW y \in U, NEW z \in U,
               <<x, y>> \in OrderOf(s), <<y, z>> \in OrderOf(s)
        PROVE  <<x, z>> \in OrderOf(s)
    <3>1. k(x) \in Nat /\ k(y) \in Nat /\ k(z) \in Nat /\ k(x) < k(y) /\ k(y) < k(z)
      BY <2>1, <2>2, <2>5
    <3> QED
      BY <2>2, <3>1
  <2> QED
    BY <2>3, <2>4, <2>5 DEF Strict
<1>5. IsFiniteSet(U)
  <2>1. 1 \in Int /\ Len(s) \in Int
    BY <1>3
  <2>2. IsFiniteSet(1..Len(s))
    BY <2>1, FS_Interval
  <2>3. s \in Surjection(1..Len(s), U)
    BY <1>3 DEF U, ToSet, Surjection
  <2> QED
    BY <2>2, <2>3, FS_Surjection
<1> QED
  BY <1>1, <1>4, <1>5 DEF U

\* A part of a strictly ordered set is strictly ordered.
LEMMA StrictPart ==
    ASSUME NEW S, NEW R, Strict(S, R), NEW T \in SUBSET S
    PROVE  Strict(T, R)
BY DEF Strict

\* A selection from a list: those members, each behind those it was behind.
LEMMA Selected ==
    ASSUME NEW S, NEW s \in Seq(S), Distinct(s), NEW T, NEW t, t = Only(s, T)
    PROVE  /\ t \in Seq(S) /\ Distinct(t) /\ ToSet(t) = ToSet(s) \intersect T
           /\ Len(t) = Cardinality(ToSet(s) \intersect T)
           /\ \A x, y \in ToSet(t) : At(t, x) < At(t, y) <=> At(s, x) < At(s, y)
<1> DEFINE U == ToSet(s) \intersect T
<1>1. IsFiniteSet(ToSet(s)) /\ Strict(ToSet(s), OrderOf(s)) /\ ToSet(s) \in SUBSET S
  BY OrderedAs
<1>2. IsFiniteSet(U) /\ Strict(U, OrderOf(s)) /\ U \in SUBSET S
  BY <1>1, StrictPart, FS_Subset
<1>3. t = InOrder(U, OrderOf(s))
  BY DEF Only
<1>a. \A x \in U : x \in ToSet(s)
  OBVIOUS
<1> HIDE DEF U
<1>4. /\ t \in Seq(U) /\ Len(t) = Cardinality(U) /\ Distinct(t) /\ ToSet(t) = U
      /\ \A i, j \in 1..Len(t) : i < j <=> <<t[i], t[j]>> \in OrderOf(s)
  BY <1>2, <1>3, Ordered
<1>5. t \in Seq(S)
  <2>1. U \subseteq S
    BY <1>2
  <2> HIDE DEF Distinct
  <2> QED
    BY <1>4, <2>1
<1>6. ASSUME NEW x \in ToSet(t), NEW y \in ToSet(t)
      PROVE  At(t, x) < At(t, y) <=> At(s, x) < At(s, y)
  <2>1. At(t, x) \in 1..Len(t) /\ t[At(t, x)] = x /\ At(t, y) \in 1..Len(t) /\ t[At(t, y)] = y
    BY <1>4, PlaceOf
  <2>2. At(t, x) < At(t, y) <=> <<x, y>> \in OrderOf(s)
    BY <1>4, <2>1
  <2> QED
    BY <1>4, <1>a, <2>2 DEF OrderOf
<1> QED
  BY <1>4, <1>5, <1>6 DEF U

\* A stable sort: the same members, the better key first, equal keys as they were.
LEMMA Sorted ==
    ASSUME NEW S, NEW s \in Seq(S), Distinct(s), NEW key, \A x \in ToSet(s) : key[x] \in Nat,
           NEW t, t = BestFirst(s, key)
    PROVE  /\ t \in Seq(S) /\ Distinct(t) /\ ToSet(t) = ToSet(s) /\ Len(t) = Len(s)
           /\ \A x, y \in ToSet(s) : key[x] > key[y] => At(t, x) < At(t, y)
           /\ \A i, j \in 1..Len(t) : i < j => key[t[i]] >= key[t[j]]
<1> DEFINE U == ToSet(s)
           R == {p \in U \X U : \/ key[p[1]] > key[p[2]]
                                \/ key[p[1]] = key[p[2]] /\ p \in OrderOf(s)}
<1>1. IsFiniteSet(U) /\ Strict(U, OrderOf(s)) /\ U \in SUBSET S
  BY OrderedAs
<1>2. t = InOrder(U, R)
  BY DEF BestFirst
<1>3. \A x, y \in U : <<x, y>> \in R <=> \/ key[x] > key[y]
                                         \/ key[x] = key[y] /\ <<x, y>> \in OrderOf(s)
  OBVIOUS
<1>4. \A x \in U : key[x] \in Nat
  OBVIOUS
<1>l. Len(s) = Cardinality(U)
  BY LengthOfListed DEF Distinct
<1> HIDE DEF R, U
<1>5. Strict(U, R)
  <2>1. ASSUME NEW x \in U PROVE <<x, x>> \notin R
    <3>1. key[x] \in Nat /\ <<x, x>> \notin OrderOf(s)
      BY <1>1, <1>4 DEF Strict
    <3>2. ~ (key[x] > key[x])
      BY <3>1
    <3> QED
      BY <1>3, <3>1, <3>2
  <2>2. ASSUME NEW x \in U, NEW y \in U, x # y PROVE <<x, y>> \in R \/ <<y, x>> \in R
    <3>1. <<x, y>> \in OrderOf(s) \/ <<y, x>> \in OrderOf(s)
      BY <1>1, <2>2 DEF Strict
    <3>2. key[x] \in Nat /\ key[y] \in Nat
      BY <1>4
    <3> QED
      BY <1>3, <3>1, <3>2
  <2>3. ASSUME NEW x \in U, NEW y \in U, NEW z \in U, <<x, y>> \in R, <<y, z>> \in R
        PROVE  <<x, z>> \in R
    <3>1. key[x] \in Nat /\ key[y] \in Nat /\ key[z] \in Nat
      BY <1>4
    <3>2. <<x, y>> \in OrderOf(s) /\ <<y, z>> \in OrderOf(s) => <<x, z>> \in OrderOf(s)
      BY <1>1 DEF Strict
    <3>3. key[x] > key[y] \/ (key[x] = key[y] /\ <<x, y>> \in OrderOf(s))
      BY <1>3, <2>3
    <3>4. key[y] > key[z] \/ (key[y] = key[z] /\ <<y, z>> \in OrderOf(s))
      BY <1>3, <2>3
    <3>5. key[x] > key[z] \/ (key[x] = key[z] /\ <<x, z>> \in OrderOf(s))
      BY <3>1, <3>2, <3>3, <3>4
    <3> QED
      BY <1>3, <3>5
  <2> QED
    BY <2>1, <2>2, <2>3 DEF Strict
<1>6. /\ t \in Seq(U) /\ Len(t) = Cardinality(U) /\ Distinct(t) /\ ToSet(t) = U
      /\ \A i, j \in 1..Len(t) : i < j <=> <<t[i], t[j]>> \in R
  BY <1>1, <1>2, <1>5, Ordered
<1>7. t \in Seq(S)
  <2>1. U \subseteq S
    BY <1>1
  <2> QED
    BY <1>6, <2>1
<1>8. ASSUME NEW x \in U, NEW y \in U, key[x] > key[y] PROVE At(t, x) < At(t, y)
  <2>1. At(t, x) \in 1..Len(t) /\ t[At(t, x)] = x /\ At(t, y) \in 1..Len(t) /\ t[At(t, y)] = y
    BY <1>6, PlaceOf
  <2>2. <<x, y>> \in R
    BY <1>3, <1>8
  <2> QED
    BY <1>6, <2>1, <2>2
<1>9. ASSUME NEW i \in 1..Len(t), NEW j \in 1..Len(t), i < j PROVE key[t[i]] >= key[t[j]]
  <2>1. t[i] \in U /\ t[j] \in U
    BY <1>6
  <2>2. key[t[i]] \in Nat /\ key[t[j]] \in Nat
    BY <1>4, <2>1
  <2>3. <<t[i], t[j]>> \in R
    BY <1>6, <1>9
  <2> QED
    BY <1>3, <2>1, <2>2, <2>3
<1> QED
  BY <1>6, <1>7, <1>8, <1>9, <1>l DEF U

\* The beginning of a list.
LEMMA Beginning ==
    ASSUME NEW S, NEW s \in Seq(S), NEW n \in Nat, NEW t, t = Prefix(s, n)
    PROVE  /\ t \in Seq(S) /\ Len(t) <= n /\ Len(t) <= Len(s)
           /\ Len(t) = (IF Len(s) < n THEN Len(s) ELSE n)
           /\ \A i \in 1..Len(t) : t[i] = s[i]
           /\ (Len(s) <= n => t = s)
           /\ (Len(s) > n => Len(t) = n)
<1> DEFINE m == IF Len(s) < n THEN Len(s) ELSE n
<1>1. m \in Nat /\ m <= Len(s) /\ m <= n /\ Len(s) \in Nat
  OBVIOUS
<1>2. t = SubSeq(s, 1, m)
  BY DEF Prefix
<1> HIDE DEF m
<1>3. t \in Seq(S) /\ Len(t) = m /\ \A i \in 1..m : t[i] = s[i]
  BY <1>1, <1>2
<1>4. Len(s) <= n => m = Len(s)
  BY <1>1 DEF m
<1>5. Len(s) <= n => t = s
  <2> SUFFICES ASSUME Len(s) <= n PROVE t = s
    OBVIOUS
  <2>1. Len(t) = Len(s) /\ \A i \in 1..Len(s) : t[i] = s[i]
    BY <1>3, <1>4
  <2> QED
    BY <1>3, <2>1
<1> QED
  BY <1>1, <1>3, <1>5 DEF m

\* The beginning of a list holds its members up to there.
LEMMA BeginningOf ==
    ASSUME NEW S, NEW s \in Seq(S), Distinct(s), NEW n \in Nat, NEW t, t = Prefix(s, n)
    PROVE  /\ Distinct(t) /\ ToSet(t) \in SUBSET ToSet(s)
           /\ \A x \in ToSet(t) : At(t, x) = At(s, x)
           /\ \A x \in ToSet(s), y \in ToSet(t) : At(s, x) < At(s, y) => x \in ToSet(t)
<1>1. /\ t \in Seq(S) /\ Len(t) <= Len(s) /\ \A i \in 1..Len(t) : t[i] = s[i]
  BY Beginning
<1>2. DOMAIN t = 1..Len(t) /\ DOMAIN s = 1..Len(s) /\ Len(t) \in Nat /\ Len(s) \in Nat
  BY <1>1
<1>3. \A i \in 1..Len(t) : i \in 1..Len(s)
  BY <1>1, <1>2
<1>4. Distinct(t)
  BY <1>1, <1>2, <1>3 DEF Distinct
<1>5. ToSet(t) \in SUBSET ToSet(s)
  BY <1>1, <1>2, <1>3 DEF ToSet
<1>6. ASSUME NEW x \in ToSet(t) PROVE At(t, x) = At(s, x)
  <2>1. At(t, x) \in 1..Len(t) /\ t[At(t, x)] = x
    BY <1>1, <1>4, PlaceOf
  <2>2. s[At(t, x)] = x /\ At(t, x) \in 1..Len(s) /\ x \in ToSet(s)
    BY <1>1, <1>3, <1>5, <2>1
  <2> QED
    BY <2>2, PlaceOf
<1>7. ASSUME NEW x \in ToSet(s), NEW y \in ToSet(t), At(s, x) < At(s, y) PROVE x \in ToSet(t)
  <2>1. At(t, y) \in 1..Len(t) /\ At(t, y) = At(s, y)
    BY <1>1, <1>4, <1>6, PlaceOf
  <2>2. At(s, x) \in 1..Len(s) /\ s[At(s, x)] = x
    BY PlaceOf
  <2>3. At(s, x) \in 1..Len(t)
    BY <1>2, <1>7, <2>1, <2>2
  <2> QED
    BY <1>1, <1>2, <2>2, <2>3 DEF ToSet
<1> QED
  BY <1>4, <1>5, <1>6, <1>7

-----------------------------------------------------------------------------
(* A loop over a list that keeps some of its members. *)

KeepsOrSkips(s, k) ==
    /\ k[0] = <<>>
    /\ \A n \in 1..Len(s) : k[n] = k[n - 1] \/ k[n] = Append(k[n - 1], s[n])

UpToPlace(s, n) == {s[i] : i \in 1..n}

\* What such a loop has kept: members it has passed, each once, and what it has kept stays.
LEMMA LoopKeeps ==
    ASSUME NEW S, NEW s \in Seq(S), Distinct(s),
           NEW k \in [0..Len(s) -> Seq(S)], KeepsOrSkips(s, k)
    PROVE  \A n \in 0..Len(s) :
              /\ Distinct(k[n]) /\ ToSet(k[n]) \in SUBSET UpToPlace(s, n)
              /\ n # 0 => ToSet(k[n - 1]) \in SUBSET ToSet(k[n])
<1>1. Len(s) \in Nat /\ DOMAIN s = 1..Len(s) /\ \A i \in 1..Len(s) : s[i] \in S
  OBVIOUS
<1>2. k[0] = <<>> /\ \A n \in 1..Len(s) : k[n] = k[n - 1] \/ k[n] = Append(k[n - 1], s[n])
  BY DEF KeepsOrSkips
<1> DEFINE Good(n) == /\ Distinct(k[n]) /\ ToSet(k[n]) \in SUBSET UpToPlace(s, n)
                      /\ n # 0 => ToSet(k[n - 1]) \in SUBSET ToSet(k[n])
           T == {n \in 0..Len(s) : Good(n)}
<1>3. 0 \in T
  <2>1. Distinct(<<>>) /\ ToSet(<<>>) = {}
    BY DEF Distinct, ToSet
  <2> QED
    BY <1>1, <1>2, <2>1
<1>4. ASSUME NEW n \in 1..Len(s), n - 1 \in T PROVE n \in T
  <2>1. n - 1 \in 0..Len(s) /\ n \in 0..Len(s) /\ n \in Nat
    BY <1>1
  <2>2. k[n - 1] \in Seq(S) /\ Distinct(k[n - 1])
        /\ ToSet(k[n - 1]) \in SUBSET UpToPlace(s, n - 1)
    BY <1>4, <2>1
  <2>3. UpToPlace(s, n - 1) \in SUBSET UpToPlace(s, n) /\ s[n] \in UpToPlace(s, n)
    <3>1. \A i \in 1..n - 1 : i \in 1..n
      BY <2>1
    <3>2. n \in 1..n
      BY <2>1
    <3> QED
      BY <3>1, <3>2 DEF UpToPlace
  <2>4. s[n] \notin UpToPlace(s, n - 1)
    <3> SUFFICES ASSUME NEW i \in 1..n - 1, s[i] = s[n] PROVE FALSE
      BY DEF UpToPlace
    <3>1. i \in 1..Len(s) /\ i # n
      BY <1>1, <2>1
    <3> QED
      BY <1>1, <3>1 DEF Distinct
  <2>5. CASE k[n] = k[n - 1]
    BY <2>1, <2>2, <2>3, <2>5
  <2>6. CASE k[n] = Append(k[n - 1], s[n])
    <3>1. s[n] \in S /\ s[n] \notin ToSet(k[n - 1])
      BY <1>1, <2>2, <2>4
    <3> DEFINE q == k[n - 1]
               x == s[n]
    <3>2. q \in Seq(S) /\ x \in S /\ x \notin ToSet(q)
          /\ (\A i, j \in DOMAIN q : q[i] = q[j] => i = j)
      BY <2>2, <3>1 DEF Distinct
    <3> HIDE DEF q, x
    <3>3. ToSet(Append(q, x)) = ToSet(q) \cup {x}
          /\ \A i, j \in DOMAIN Append(q, x) : Append(q, x)[i] = Append(q, x)[j] => i = j
      BY <3>2, Appended
    <3>4. ToSet(k[n]) = ToSet(k[n - 1]) \cup {s[n]} /\ Distinct(k[n])
      BY <2>6, <3>3 DEF q, x, Distinct
    <3> QED
      BY <2>1, <2>2, <2>3, <3>4
  <2> QED
    BY <1>2, <2>5, <2>6
<1> HIDE DEF T
<1>5. ASSUME NEW n \in 0..Len(s) PROVE n \in T
  <2>1. n \in Nat /\ \A i \in 1..n : i \in 1..Len(s)
    BY <1>1
  <2>2. Inductive(T, n)
    BY <1>3, <1>4, <2>1 DEF Inductive
  <2> QED
    BY <2>1, <2>2, UpTo
<1> QED
  BY <1>5 DEF T

\* What was kept once is in the end.
LEMMA LoopKeepsOn ==
    ASSUME NEW S, NEW s \in Seq(S), Distinct(s),
           NEW k \in [0..Len(s) -> Seq(S)], KeepsOrSkips(s, k)
    PROVE  \A n \in 0..Len(s) : ToSet(k[n]) \in SUBSET ToSet(k[Len(s)])
<1>1. Len(s) \in Nat
  OBVIOUS
<1>2. ASSUME NEW n \in 1..Len(s) PROVE ToSet(k[n - 1]) \in SUBSET ToSet(k[n])
  <2>1. n \in 0..Len(s) /\ n # 0
    BY <1>1
  <2> QED
    BY <2>1, LoopKeeps
<1> SUFFICES ASSUME NEW n \in 0..Len(s) PROVE ToSet(k[n]) \in SUBSET ToSet(k[Len(s)])
  OBVIOUS
<1> DEFINE T == {i \in 0..Len(s) - n : ToSet(k[n]) \in SUBSET ToSet(k[n + i])}
           m == Len(s) - n
<1>3. m \in Nat /\ n + 0 = n /\ n + m = Len(s)
  BY <1>1
<1>4. 0 \in T
  BY <1>3
<1>5. ASSUME NEW i \in 1..m, i - 1 \in T PROVE i \in T
  <2>1. n + i \in 1..Len(s) /\ n + (i - 1) = (n + i) - 1
    BY <1>1
  <2>2. ToSet(k[n]) \in SUBSET ToSet(k[n + (i - 1)])
    BY <1>5
  <2>3. ToSet(k[(n + i) - 1]) \in SUBSET ToSet(k[n + i])
    BY <1>2, <2>1
  <2>4. ToSet(k[n]) \in SUBSET ToSet(k[n + i])
    BY <2>1, <2>2, <2>3
  <2> QED
    BY <1>3, <2>4
<1> HIDE DEF T, m
<1>6. m \in T
  <2>1. Inductive(T, m)
    BY <1>4, <1>5 DEF Inductive
  <2> QED
    BY <1>3, <2>1, UpTo
<1> QED
  BY <1>3, <1>6 DEF T, m

\* The members of t are in t as they are in s.
SameOrder(s, t) == \A x, y \in ToSet(t) : At(t, x) < At(t, y) <=> At(s, x) < At(s, y)

\* What was kept when a member came up had been passed before it.
LEMMA LoopPassed ==
    ASSUME NEW S, NEW s \in Seq(S), Distinct(s),
           NEW k \in [0..Len(s) -> Seq(S)], KeepsOrSkips(s, k),
           NEW n \in 1..Len(s), NEW x \in ToSet(k[n - 1])
    PROVE  x \in ToSet(s) /\ At(s, x) < n /\ At(s, s[n]) = n
<1>1. Len(s) \in Nat /\ DOMAIN s = 1..Len(s) /\ n - 1 \in 0..Len(s)
  OBVIOUS
<1>2. ToSet(k[n - 1]) \in SUBSET UpToPlace(s, n - 1)
  BY <1>1, LoopKeeps
<1>3. PICK i \in 1..n - 1 : s[i] = x
  BY <1>2 DEF UpToPlace
<1>4. i \in 1..Len(s) /\ i < n
  BY <1>1
<1>5. x \in ToSet(s) /\ s[n] \in ToSet(s)
  BY <1>1, <1>3, <1>4 DEF ToSet
<1>6. At(s, x) = i /\ At(s, s[n]) = n
  BY <1>3, <1>4, <1>5, PlaceOf
<1> QED
  BY <1>4, <1>5, <1>6

\* The loop keeps the order.
LEMMA LoopOrder ==
    ASSUME NEW S, NEW s \in Seq(S), Distinct(s),
           NEW k \in [0..Len(s) -> Seq(S)], KeepsOrSkips(s, k)
    PROVE  SameOrder(s, k[Len(s)])
<1>1. Len(s) \in Nat /\ DOMAIN s = 1..Len(s) /\ \A i \in 1..Len(s) : s[i] \in S
  OBVIOUS
<1>2. k[0] = <<>> /\ \A n \in 1..Len(s) : k[n] = k[n - 1] \/ k[n] = Append(k[n - 1], s[n])
  BY DEF KeepsOrSkips
<1> DEFINE Rises(q) == \A i, j \in 1..Len(q) : i < j => At(s, q[i]) < At(s, q[j])
           T == {n \in 0..Len(s) : Rises(k[n])}
<1>3. 0 \in T
  <2>1. Rises(<<>>)
    OBVIOUS
  <2> QED
    BY <1>1, <1>2, <2>1
<1>4. ASSUME NEW n \in 1..Len(s), n - 1 \in T PROVE n \in T
  <2> DEFINE q == k[n - 1]
             x == s[n]
  <2>1. n - 1 \in 0..Len(s) /\ n \in 0..Len(s)
    BY <1>1
  <2>2. q \in Seq(S) /\ x \in S
    BY <1>1, <2>1
  <2>3. \A i, j \in 1..Len(q) : i < j => At(s, q[i]) < At(s, q[j])
    BY <1>4
  <2>4. \A y \in ToSet(q) : At(s, y) < At(s, x)
    BY LoopPassed
  <2>5. CASE k[n] = k[n - 1]
    BY <2>1, <2>3, <2>5
  <2>6. CASE k[n] = Append(k[n - 1], s[n])
    <3> HIDE DEF q, x, T
    <3>1. /\ Len(Append(q, x)) = Len(q) + 1 /\ Len(q) \in Nat /\ Append(q, x)[Len(q) + 1] = x
          /\ \A i \in 1..Len(q) : Append(q, x)[i] = q[i] /\ q[i] \in ToSet(q)
      BY <2>2 DEF ToSet
    <3>2. ASSUME NEW i \in 1..Len(q) + 1, NEW j \in 1..Len(q) + 1, i < j
          PROVE  At(s, Append(q, x)[i]) < At(s, Append(q, x)[j])
      <4>1. i \in 1..Len(q) /\ (j \in 1..Len(q) \/ j = Len(q) + 1)
        BY SMTT(30), <3>1, <3>2
      <4>2. CASE j \in 1..Len(q)
        BY <2>3, <3>1, <3>2, <4>1, <4>2
      <4>3. CASE j = Len(q) + 1
        BY <2>4, <3>1, <4>1, <4>3
      <4> QED
        BY <4>1, <4>2, <4>3
    <3>3. Rises(Append(q, x))
      BY <3>1, <3>2
    <3>4. Rises(k[n])
      BY <2>6, <3>3 DEF q, x
    <3> QED
      BY <2>1, <3>4 DEF T
  <2> QED
    BY <1>2, <2>5, <2>6
<1> DEFINE l == k[Len(s)]
<1>5. Rises(l)
  <2> HIDE DEF T
  <2>1. Inductive(T, Len(s))
    BY <1>3, <1>4 DEF Inductive
  <2>2. Len(s) \in T
    BY <1>1, <2>1, UpTo
  <2> QED
    BY <2>2 DEF T
<1>6. Len(s) \in 0..Len(s) /\ l \in Seq(S)
  BY <1>1
<1>7. Distinct(l) /\ ToSet(l) \in SUBSET ToSet(s)
  <2>1. Distinct(l) /\ ToSet(l) \in SUBSET UpToPlace(s, Len(s))
    BY <1>6, LoopKeeps
  <2>2. UpToPlace(s, Len(s)) \in SUBSET ToSet(s)
    BY <1>1 DEF UpToPlace, ToSet
  <2> QED
    BY <2>1, <2>2
<1> HIDE DEF l
<1>8. ASSUME NEW x \in ToSet(l), NEW y \in ToSet(l)
      PROVE  At(l, x) < At(l, y) <=> At(s, x) < At(s, y)
  <2>1. At(l, x) \in 1..Len(l) /\ l[At(l, x)] = x /\ At(l, y) \in 1..Len(l) /\ l[At(l, y)] = y
    BY <1>6, <1>7, PlaceOf
  <2>2. At(s, x) \in 1..Len(s) /\ At(s, y) \in 1..Len(s)
    BY <1>7, PlaceOf
  <2> DEFINE i == At(l, x)
             j == At(l, y)
  <2>3. i \in Nat /\ j \in Nat /\ (i < j \/ i = j \/ j < i)
    BY <1>6, <2>1
  <2>4. i < j => At(s, x) < At(s, y)
    BY <1>5, <2>1
  <2>5. j < i => At(s, y) < At(s, x)
    BY <1>5, <2>1
  <2>6. i = j => x = y
    BY <2>1
  <2> HIDE DEF i, j
  <2>7. i < j <=> At(s, x) < At(s, y)
    BY <1>1, <2>2, <2>3, <2>4, <2>5, <2>6
  <2> QED
    BY <2>7 DEF i, j
<1> QED
  BY <1>8 DEF SameOrder, l

\* A member the loop did not keep was skipped when it came up: what was kept by then had been
\* passed before it, and is kept still.
LEMMA LoopSkipped ==
    ASSUME NEW S, NEW s \in Seq(S), Distinct(s),
           NEW k \in [0..Len(s) -> Seq(S)], KeepsOrSkips(s, k)
    PROVE  \A c \in ToSet(s) \ ToSet(k[Len(s)]) : \E n \in 1..Len(s) :
              /\ s[n] = c /\ k[n] # Append(k[n - 1], c)
              /\ ToSet(k[n - 1]) \in SUBSET ToSet(s)
              /\ c \notin ToSet(k[n - 1])
              /\ ToSet(k[n - 1]) \in SUBSET ToSet(k[Len(s)])
              /\ \A d \in ToSet(k[n - 1]) : At(s, d) < At(s, c)
<1> TAKE c \in ToSet(s) \ ToSet(k[Len(s)])
<1>1. Len(s) \in Nat /\ DOMAIN s = 1..Len(s) /\ \A i \in 1..Len(s) : s[i] \in S
  OBVIOUS
<1>2. PICK n \in 1..Len(s) : s[n] = c
  BY <1>1 DEF ToSet
<1>3. n - 1 \in 0..Len(s) /\ n \in 0..Len(s)
  BY <1>1
<1>4. ToSet(k[n - 1]) \in SUBSET ToSet(k[Len(s)]) /\ ToSet(k[n]) \in SUBSET ToSet(k[Len(s)])
  BY <1>3, LoopKeepsOn
<1>5. k[n] # Append(k[n - 1], c)
  <2> SUFFICES ASSUME k[n] = Append(k[n - 1], c) PROVE FALSE
    OBVIOUS
  <2> DEFINE q == k[n - 1]
  <2>1. q \in Seq(S) /\ c \in S
    BY <1>1, <1>2, <1>3
  <2> HIDE DEF q
  <2>2. ToSet(Append(q, c)) = ToSet(q) \cup {c}
    BY <2>1, Appended
  <2>3. c \in ToSet(k[n])
    BY <2>2 DEF q
  <2> QED
    BY <1>4, <2>3
<1>6. ToSet(k[n - 1]) \in SUBSET ToSet(s)
  <2>1. ToSet(k[n - 1]) \in SUBSET UpToPlace(s, n - 1)
    BY <1>3, LoopKeeps
  <2>2. \A i \in 1..n - 1 : i \in 1..Len(s)
    BY <1>1
  <2>3. UpToPlace(s, n - 1) \in SUBSET ToSet(s)
    BY <1>1, <2>2 DEF UpToPlace, ToSet
  <2> QED
    BY <2>1, <2>3
<1>7. \A d \in ToSet(k[n - 1]) : At(s, d) < At(s, c)
  <2> SUFFICES ASSUME NEW d \in ToSet(k[n - 1]) PROVE At(s, d) < At(s, c)
    OBVIOUS
  <2>1. At(s, d) < n /\ At(s, s[n]) = n
    BY LoopPassed
  <2> QED
    BY <1>2, <2>1
<1>8. c \notin ToSet(k[n - 1])
  BY <1>4
<1> QED
  BY <1>2, <1>4, <1>5, <1>6, <1>7, <1>8

\* What the loop keeps first is in the end.
LEMMA LoopKeepsFirst ==
    ASSUME NEW S, NEW s \in Seq(S), Distinct(s), s # <<>>,
           NEW k \in [0..Len(s) -> Seq(S)], KeepsOrSkips(s, k), k[1] = Append(k[0], s[1])
    PROVE  k[Len(s)] # <<>>
<1>1. Len(s) \in Nat /\ 1 \in 0..Len(s) /\ 0 \in 0..Len(s) /\ s[1] \in S
  OBVIOUS
<1> DEFINE q == k[0]
           x == s[1]
<1>2. q \in Seq(S) /\ x \in S
  BY <1>1
<1> HIDE DEF q, x
<1>3. ToSet(Append(q, x)) = ToSet(q) \cup {x}
  BY <1>2, Appended
<1>4. x \in ToSet(k[1])
  BY <1>3 DEF q, x
<1>5. x \in ToSet(k[Len(s)])
  BY <1>1, <1>4, LoopKeepsOn
<1>6. ToSet(<<>>) = {}
  BY DEF ToSet
<1> QED
  BY <1>5, <1>6

-----------------------------------------------------------------------------
(* Lists of chunks. *)

\* A list of at most k chunks.
LEMMA ListsAre ==
    ASSUME NEW k \in Nat, NEW s
    PROVE  s \in Lists(k) <=> s \in Seq(Chunks) /\ Len(s) <= k /\ Distinct(s)
<1>1. IsInjection(s) <=> Distinct(s)
  BY DEF IsInjection, Distinct
<1>2. ASSUME NEW n \in 0..k, s \in [1..n -> Chunks] PROVE s \in Seq(Chunks) /\ Len(s) <= k
  BY <1>2
<1>3. s \in Seq(Chunks) /\ Len(s) <= k => Len(s) \in 0..k /\ s \in [1..Len(s) -> Chunks]
  OBVIOUS
<1> QED
  BY <1>1, <1>2, <1>3 DEF Lists

\* The empty list is a list of any length.
LEMMA EmptyList == \A k \in Nat : <<>> \in Lists(k) /\ ToSet(<<>>) = {}
<1>1. <<>> \in Seq(Chunks) /\ Len(<<>>) = 0 /\ Distinct(<<>>) /\ ToSet(<<>>) = {}
  BY DEF Distinct, ToSet
<1>2. ASSUME NEW k \in Nat PROVE <<>> \in Lists(k)
  <2>1. Len(<<>>) <= k
    BY <1>1
  <2> QED
    BY <1>1, <2>1, ListsAre
<1> QED
  BY <1>1, <1>2

\* A list of candidates holds chunks of the corpus.
LEMMA MembersAreChunks ==
    ASSUME NEW s \in Seq(Chunks)
    PROVE  ToSet(s) \in SUBSET Chunks /\ IsFiniteSet(ToSet(s))
           /\ (s = <<>> <=> ToSet(s) = {}) /\ (s # <<>> => s[1] \in ToSet(s))
<1>1. Len(s) \in Nat /\ DOMAIN s = 1..Len(s) /\ 1 \in Int /\ Len(s) \in Int
      /\ \A i \in 1..Len(s) : s[i] \in Chunks
  OBVIOUS
<1>2. IsFiniteSet(1..Len(s))
  BY <1>1, FS_Interval
<1>3. s \in [1..Len(s) -> ToSet(s)]
  BY <1>1 DEF ToSet
<1>4. s \in Surjection(1..Len(s), ToSet(s))
  BY <1>1, <1>3 DEF Surjection, ToSet
<1>5. IsFiniteSet(ToSet(s))
  BY <1>2, <1>4, FS_Surjection
<1>6. s # <<>> => 1 \in 1..Len(s)
  BY <1>1
<1>7. s = <<>> => ToSet(s) = {}
  BY DEF ToSet
<1>8. s # <<>> => s[1] \in ToSet(s)
  BY <1>1, <1>6 DEF ToSet
<1> QED
  BY <1>1, <1>5, <1>7, <1>8 DEF ToSet

\* The sizes of the settings are numbers.
LEMMA Bounds ==
    /\ VectorTopK \in Nat /\ Bm25TopK \in Nat /\ RrfTopK \in Nat /\ RerankK \in Nat
    /\ TopK \in Nat /\ RrfK \in Nat /\ MaxPerDoc \in Nat /\ GapMillis \in Nat
    /\ Threshold \in Nat /\ MaxSearches \in Nat /\ TopK # 0 /\ RrfK # 0
    /\ VectorTopK # 0 /\ Bm25TopK # 0 /\ RrfTopK # 0 /\ RerankK # 0
    /\ Deepest \in Nat \ {0} /\ VectorTopK <= Deepest /\ Bm25TopK <= Deepest
BY RetrievalAssumption DEF Deepest, Max2

-----------------------------------------------------------------------------
(* The scores of the fusion. *)

\* The common denominator is one: every RrfK + i divides it.
LEMMA CommonIs ==
    /\ Common \in Nat \ {0}
    /\ \A i \in 1..Deepest : \E w \in Nat \ {0} : w * (RrfK + i) = Common
<1> DEFINE D == Deepest
           K == RrfK
           F == [i \in 1..D |-> [x \in Nat |-> x * (K + i)]]
           Step(f) == f = [i \in 0..D |-> IF i = 0 THEN 1 ELSE f[i - 1] * (K + i)]
           h == CHOOSE f : Step(f)
<1>1. D \in Nat \ {0} /\ K \in Nat \ {0}
  BY Bounds
<1>2. Common = h[D]
  BY DEF Common
<1>3. \E f : Step(f)
  <2> HIDE DEF D, K
  <2>1. F \in Steps(Nat, D)
    <3>1. \A i \in 1..D, x \in Nat : x * (K + i) \in Nat
      BY <1>1
    <3> QED
      BY <3>1 DEF Steps
  <2>2. 1 \in Nat /\ D \in Nat
    BY <1>1
  <2>3. PICK f : Follows(f, 1, F, Nat, D)
    <3> HIDE DEF F
    <3> QED
      BY <2>1, <2>2, Stepwise
  <2>4. f \in [0..D -> Nat] /\ f[0] = 1 /\ \A i \in 1..D : f[i] = F[i][f[i - 1]]
    BY <2>3 DEF Follows
  <2>5. ASSUME NEW i \in 1..D PROVE f[i] = f[i - 1] * (K + i)
    <3>1. i - 1 \in 0..D
      BY <1>1
    <3>2. f[i - 1] \in Nat
      BY <2>4, <3>1
    <3> QED
      BY <2>4, <3>2
  <2>6. \A i \in 0..D : f[i] = IF i = 0 THEN 1 ELSE f[i - 1] * (K + i)
    <3>1. \A i \in 0..D : i = 0 \/ i \in 1..D
      BY <1>1
    <3> QED
      BY <2>4, <2>5, <3>1
  <2>7. Step(f)
    BY <2>4, <2>6
  <2> HIDE DEF Step
  <2> QED
    BY <2>7
<1>4. Step(h)
  <2> HIDE DEF Step
  <2> QED
    BY <1>3
<1> HIDE DEF h
<1>5. \A i \in 0..D : h[i] = IF i = 0 THEN 1 ELSE h[i - 1] * (K + i)
  BY <1>4
<1> HIDE DEF D, K, Step, F
<1> DEFINE Divided(n) == /\ h[n] \in Nat \ {0}
                         /\ \A i \in 1..n : \E w \in Nat \ {0} : w * (K + i) = h[n]
           T == {n \in 0..D : Divided(n)}
<1>6. 0 \in T
  BY <1>1, <1>5
<1>7. ASSUME NEW n \in 1..D, n - 1 \in T PROVE n \in T
  <2>1. n - 1 \in 0..D /\ n \in 0..D /\ n # 0 /\ n \in Nat
    BY <1>1
  <2>2. h[n] = h[n - 1] * (K + n) /\ h[n - 1] \in Nat \ {0}
    BY <1>5, <1>7, <2>1
  <2>3. h[n] \in Nat \ {0}
    <3> DEFINE a == h[n - 1]
               b == K + n
    <3>1. a \in Nat \ {0} /\ b \in Nat \ {0}
      BY <1>1, <2>1, <2>2
    <3> HIDE DEF a, b
    <3>2. a * b \in Nat \ {0}
      BY <3>1
    <3> QED
      BY <2>2, <3>2 DEF a, b
  <2>4. ASSUME NEW i \in 1..n PROVE \E w \in Nat \ {0} : w * (K + i) = h[n]
    <3>1. CASE i = n
      BY <2>2, <3>1
    <3>2. CASE i # n
      <4>1. i \in 1..n - 1
        BY <2>1, <3>2
      <4>2. PICK w \in Nat \ {0} : w * (K + i) = h[n - 1]
        BY <1>7, <4>1
      <4> DEFINE b == K + n
                 c == K + i
      <4>3. b \in Nat \ {0} /\ c \in Nat
        BY <1>1, <2>1
      <4> HIDE DEF b, c
      <4>4. w * b \in Nat \ {0} /\ (w * b) * c = (w * c) * b
        BY <4>3
      <4>5. (w * b) * c = h[n]
        BY <2>2, <4>2, <4>4 DEF b, c
      <4> QED
        BY <4>4, <4>5 DEF c
    <3> QED
      BY <3>1, <3>2
  <2> QED
    BY <2>1, <2>3, <2>4
<1> HIDE DEF T
<1>8. D \in T
  <2>1. Inductive(T, D)
    BY <1>6, <1>7 DEF Inductive
  <2> QED
    BY <1>1, <2>1, UpTo
<1>9. Divided(D)
  BY <1>8 DEF T
<1> QED
  BY <1>2, <1>9 DEF D, K

\* What divides evenly: the quotient is exact, and a larger divisor gives less.
LEMMA Exact ==
    ASSUME NEW c \in Nat \ {0}, NEW x \in Nat \ {0}, NEW w \in Nat \ {0}, w * x = c
    PROVE  c \div x = w
<1> DEFINE q == c \div x
           r == c % x
<1>1. q \in Nat /\ r \in 0..x - 1 /\ c = q * x + r
  OBVIOUS
<1> HIDE DEF q, r
<1>2. w * x = q * x + r
  BY <1>1
<1>3. ~ (w < q)
  <2> SUFFICES ASSUME w < q PROVE FALSE
    OBVIOUS
  <2>1. w * x + x <= q * x
    <3>1. (w + 1) * x <= q * x
      BY <1>1
    <3>2. (w + 1) * x = w * x + x
      OBVIOUS
    <3> QED
      BY <3>1, <3>2
  <2>2. w * x \in Nat /\ q * x \in Nat
    BY <1>1
  <2> QED
    BY <1>1, <1>2, <2>1, <2>2
<1>4. ~ (q < w)
  <2> SUFFICES ASSUME q < w PROVE FALSE
    OBVIOUS
  <2>1. q * x + x <= w * x
    <3>1. (q + 1) * x <= w * x
      BY <1>1
    <3>2. (q + 1) * x = q * x + x
      BY <1>1
    <3> QED
      BY <3>1, <3>2
  <2>2. w * x \in Nat /\ q * x \in Nat
    BY <1>1
  <2> QED
    BY <1>1, <1>2, <2>1, <2>2
<1> QED
  BY <1>1, <1>3, <1>4 DEF q

\* Of more ranks a smaller share of the score is left.
LEMMA LessOfMore ==
    ASSUME NEW a \in Nat \ {0}, NEW b \in Nat \ {0}, NEW x \in Nat \ {0}, NEW y \in Nat \ {0},
           a * x = b * y
    PROVE  (x < y => b < a) /\ (x <= y => b <= a)
<1>1. x < y => b < a
  <2> SUFFICES ASSUME x < y, a <= b PROVE FALSE
    OBVIOUS
  <2>1. a * x <= b * x
    OBVIOUS
  <2>2. b * x < b * y
    OBVIOUS
  <2>3. a * x \in Nat /\ b * x \in Nat /\ b * y \in Nat
    OBVIOUS
  <2> QED
    BY <2>1, <2>2, <2>3
<1>2. x = y => a = b
  <2> SUFFICES ASSUME x = y, a # b PROVE FALSE
    OBVIOUS
  <2>1. a < b \/ b < a
    OBVIOUS
  <2>2. a < b => a * x < b * x
    OBVIOUS
  <2>3. b < a => b * x < a * x
    OBVIOUS
  <2>4. a * x \in Nat /\ b * x \in Nat
    OBVIOUS
  <2> QED
    BY <2>1, <2>2, <2>3, <2>4
<1> QED
  BY <1>1, <1>2

Recalled(s) ==
    s.vector \in Lists(VectorTopK) \union {Error} /\ s.bm25 \in Lists(Bm25TopK) \union {Error}

Vectors(s) == ShortRows(s.vector)

Words(s) == ShortRows(s.bm25)

\* What the channels give: lists no longer than Deepest.
LEMMA RowsAre ==
    ASSUME NEW s, Recalled(s)
    PROVE  \A list \in {Vectors(s), Words(s)} :
              list \in Seq(Chunks) /\ Distinct(list) /\ Len(list) <= Deepest
<1>1. Vectors(s) \in Lists(VectorTopK) /\ Words(s) \in Lists(Bm25TopK)
  BY Bounds, EmptyList DEF Recalled, Vectors, Words, ShortRows
<1>2. Vectors(s) \in Seq(Chunks) /\ Distinct(Vectors(s)) /\ Len(Vectors(s)) <= VectorTopK
  BY <1>1, Bounds, ListsAre
<1>3. Words(s) \in Seq(Chunks) /\ Distinct(Words(s)) /\ Len(Words(s)) <= Bm25TopK
  BY <1>1, Bounds, ListsAre
<1>4. Len(Vectors(s)) \in Nat /\ Len(Words(s)) \in Nat
  BY <1>2, <1>3
<1>5. Len(Vectors(s)) <= Deepest /\ Len(Words(s)) <= Deepest
  BY <1>2, <1>3, <1>4, Bounds
<1> QED
  BY <1>2, <1>3, <1>5

\* The weight of a place in a list is exact, and less at a later place.
LEMMA WeightIs ==
    ASSUME NEW list \in Seq(Chunks), Distinct(list), Len(list) <= Deepest
    PROVE  /\ \A c : Weight(list, c) \in Nat /\ (c \notin ToSet(list) => Weight(list, c) = 0)
           /\ \A c \in ToSet(list) :
                 /\ Weight(list, c) # 0 /\ At(list, c) \in 1..Deepest
                 /\ Weight(list, c) * (RrfK + At(list, c)) = Common
           /\ \A c, d \in ToSet(list) : At(list, c) < At(list, d) => Weight(list, c) > Weight(list, d)
<1>1. Deepest \in Nat /\ RrfK \in Nat \ {0} /\ Common \in Nat \ {0} /\ Len(list) \in Nat
  BY Bounds, CommonIs
<1>2. ASSUME NEW c \in ToSet(list)
      PROVE  /\ At(list, c) \in 1..Deepest /\ Weight(list, c) \in Nat \ {0}
             /\ Weight(list, c) * (RrfK + At(list, c)) = Common
  <2>1. At(list, c) \in 1..Len(list)
    BY PlaceOf
  <2>2. At(list, c) \in 1..Deepest
    BY <1>1, <2>1
  <2>3. PICK w \in Nat \ {0} : w * (RrfK + At(list, c)) = Common
    BY <2>2, CommonIs
  <2> DEFINE x == RrfK + At(list, c)
  <2>4. x \in Nat \ {0}
    BY <1>1, <2>2
  <2> HIDE DEF x
  <2>5. w * x = Common
    BY <2>3 DEF x
  <2>6. Common \div x = w
    BY <1>1, <2>4, <2>5, Exact
  <2> QED
    BY <2>2, <2>5, <2>6 DEF Weight, x
<1>3. \A c : c \notin ToSet(list) => Weight(list, c) = 0
  BY DEF Weight
<1>4. ASSUME NEW c \in ToSet(list), NEW d \in ToSet(list), At(list, c) < At(list, d)
      PROVE  Weight(list, c) > Weight(list, d)
  <2> DEFINE x == RrfK + At(list, c)
             y == RrfK + At(list, d)
             a == Weight(list, c)
             b == Weight(list, d)
  <2>1. x \in Nat \ {0} /\ y \in Nat \ {0} /\ x < y /\ a \in Nat \ {0} /\ b \in Nat \ {0}
    BY <1>1, <1>2, <1>4
  <2>2. a * x = b * y
    BY <1>2
  <2> HIDE DEF x, y, a, b
  <2>3. b < a
    BY <2>1, <2>2, LessOfMore
  <2> QED
    BY <2>1, <2>3 DEF a, b
<1>5. ASSUME NEW c PROVE Weight(list, c) \in Nat
  BY <1>2, <1>3
<1> QED
  BY <1>2, <1>3, <1>4, <1>5

Everything(s) == ToSet(Vectors(s)) \cup ToSet(Words(s))

\* All ids: everything the channels found, each once.
LEMMA AllIdsAre ==
    ASSUME NEW s, Recalled(s)
    PROVE  AllIds(s) \in Seq(Chunks) /\ Distinct(AllIds(s)) /\ ToSet(AllIds(s)) = Everything(s)
<1> DEFINE a == Vectors(s)
           b == Only(Words(s), OnlyBm25(s))
           n == Len(a)
<1>1. a \in Seq(Chunks) /\ Distinct(a) /\ Words(s) \in Seq(Chunks) /\ Distinct(Words(s))
  BY RowsAre
<1>2. b \in Seq(Chunks) /\ Distinct(b) /\ ToSet(b) = ToSet(Words(s)) \intersect OnlyBm25(s)
  BY <1>1, Selected
<1>3. ToSet(b) = ToSet(Words(s)) \ ToSet(a)
  BY <1>2 DEF OnlyBm25, Vectors, Words
<1>4. AllIds(s) = a \o b
  BY DEF AllIds, Vectors, Words
<1>5. Everything(s) = ToSet(a) \cup ToSet(b)
  BY <1>3 DEF Everything
<1> HIDE DEF a, b
<1>6. /\ a \o b \in Seq(Chunks) /\ Len(a \o b) = Len(a) + Len(b)
      /\ DOMAIN (a \o b) = 1..Len(a) + Len(b)
      /\ \A i \in 1..Len(a) + Len(b) : (a \o b)[i] = IF i <= Len(a) THEN a[i] ELSE b[i - Len(a)]
  BY <1>1, <1>2, PutBehind
<1> DEFINE t == a \o b
           m == Len(b)
<1>7. n \in Nat /\ m \in Nat /\ DOMAIN a = 1..n /\ DOMAIN b = 1..m /\ DOMAIN t = 1..n + m
  BY <1>1, <1>2, <1>6
<1>8. \A i \in 1..n + m : t[i] = IF i <= n THEN a[i] ELSE b[i - n]
  BY <1>6
<1>9. /\ \A i \in 1..n : a[i] \in ToSet(a)
      /\ \A i \in 1..m : b[i] \in ToSet(b)
      /\ \A x \in ToSet(a) : \E i \in 1..n : a[i] = x
      /\ \A x \in ToSet(b) : \E i \in 1..m : b[i] = x
  BY <1>7 DEF ToSet
<1>10. /\ \A i, j \in 1..n : a[i] = a[j] => i = j
       /\ \A i, j \in 1..m : b[i] = b[j] => i = j
       /\ \A x : ~ (x \in ToSet(a) /\ x \in ToSet(b))
  BY <1>1, <1>2, <1>3, <1>7 DEF Distinct
<1>11. t \in Seq(Chunks)
  BY <1>6
<1> HIDE DEF t, n, m
<1>12. ASSUME NEW i \in 1..n + m, NEW j \in 1..n + m, t[i] = t[j] PROVE i = j
  <2>1. \A l \in 1..n + m : l > n => l - n \in 1..m
    BY <1>7
  <2>2. CASE i <= n /\ j <= n
    BY <1>7, <1>8, <1>10, <1>12, <2>2
  <2>3. CASE i > n /\ j > n
    <3>1. i - n = j - n
      BY <1>7, <1>8, <1>10, <1>12, <2>1, <2>3
    <3> QED
      BY <1>7, <3>1
  <2>4. CASE i <= n /\ j > n
    BY <1>7, <1>8, <1>9, <1>10, <1>12, <2>1, <2>4
  <2>5. CASE i > n /\ j <= n
    BY <1>7, <1>8, <1>9, <1>10, <1>12, <2>1, <2>5
  <2> QED
    BY <1>7, <2>2, <2>3, <2>4, <2>5
<1>13. ASSUME NEW x PROVE x \in ToSet(t) <=> x \in ToSet(a) \cup ToSet(b)
  <2>1. x \in ToSet(t) <=> \E i \in 1..n + m : t[i] = x
    BY <1>7 DEF ToSet
  <2>2. ASSUME NEW i \in 1..n + m PROVE t[i] \in ToSet(a) \cup ToSet(b)
    <3>1. i > n => i - n \in 1..m
      BY <1>7
    <3> QED
      BY <1>7, <1>8, <1>9, <3>1
  <2>3. \A i \in 1..n : i \in 1..n + m /\ t[i] = a[i]
    BY <1>7, <1>8
  <2>4. ASSUME NEW i \in 1..m PROVE n + i \in 1..n + m /\ t[n + i] = b[i]
    <3>1. n + i \in 1..n + m /\ ~ (n + i <= n) /\ (n + i) - n = i
      BY <1>7
    <3> QED
      BY <1>8, <3>1
  <2> QED
    BY <1>9, <2>1, <2>2, <2>3, <2>4
<1>14. Distinct(t)
  BY <1>7, <1>12 DEF Distinct
<1> QED
  BY <1>4, <1>5, <1>11, <1>13, <1>14 DEF t

\* The fusion: everything found, the better score first.
LEMMA FusionIs ==
    ASSUME NEW s, Recalled(s)
    PROVE  /\ RrfFusion(s) \in Seq(Chunks) /\ Distinct(RrfFusion(s))
           /\ ToSet(RrfFusion(s)) = Everything(s)
           /\ \A c, d \in Everything(s) :
                 RrfScore(s, c) > RrfScore(s, d) => At(RrfFusion(s), c) < At(RrfFusion(s), d)
<1> DEFINE ids == AllIds(s)
           key == [c \in ToSet(ids) |-> RrfScore(s, c)]
<1>1. ids \in Seq(Chunks) /\ Distinct(ids) /\ ToSet(ids) = Everything(s)
  BY AllIdsAre
<1>2. ASSUME NEW c PROVE RrfScore(s, c) \in Nat
  <2>1. Weight(Vectors(s), c) \in Nat /\ Weight(Words(s), c) \in Nat
    BY RowsAre, WeightIs
  <2> QED
    BY <2>1 DEF RrfScore, Vectors, Words
<1>3. \A c \in ToSet(ids) : key[c] = RrfScore(s, c)
  OBVIOUS
<1>4. RrfFusion(s) = BestFirst(ids, key)
  BY DEF RrfFusion
<1> HIDE DEF ids, key
<1>5. \A c \in ToSet(ids) : key[c] \in Nat
  BY <1>2, <1>3
<1>6. /\ RrfFusion(s) \in Seq(Chunks) /\ Distinct(RrfFusion(s)) /\ ToSet(RrfFusion(s)) = ToSet(ids)
      /\ \A x, y \in ToSet(ids) : key[x] > key[y] => At(RrfFusion(s), x) < At(RrfFusion(s), y)
  BY <1>1, <1>4, <1>5, Sorted
<1> QED
  BY <1>1, <1>3, <1>6

\* The candidates: of the best RrfTopK those that have their row, in that order.
LEMMA CandidatesAre ==
    ASSUME NEW s, Recalled(s), NEW missing, NEW cand, cand = Candidates(s, missing),
           NEW best, best = Prefix(RrfFusion(s), RrfTopK)
    PROVE  /\ cand \in Lists(RrfTopK) /\ ToSet(cand) = ToSet(best) \ missing
           /\ ToSet(best) \in SUBSET Everything(s)
           /\ \A x, y \in ToSet(cand) : At(cand, x) < At(cand, y) <=> At(best, x) < At(best, y)
           /\ \A x \in ToSet(best) : At(best, x) = At(RrfFusion(s), x)
           /\ \A x \in Everything(s), y \in ToSet(best) :
                 At(RrfFusion(s), x) < At(RrfFusion(s), y) => x \in ToSet(best)
<1>1. RrfFusion(s) \in Seq(Chunks) /\ Distinct(RrfFusion(s)) /\ ToSet(RrfFusion(s)) = Everything(s)
  BY FusionIs
<1>2. RrfTopK \in Nat
  BY Bounds
<1>3. best \in Seq(Chunks) /\ Len(best) <= RrfTopK
  BY <1>1, <1>2, Beginning
<1>4. /\ Distinct(best) /\ ToSet(best) \in SUBSET Everything(s)
      /\ \A x \in ToSet(best) : At(best, x) = At(RrfFusion(s), x)
      /\ \A x \in Everything(s), y \in ToSet(best) :
            At(RrfFusion(s), x) < At(RrfFusion(s), y) => x \in ToSet(best)
  BY <1>1, <1>2, BeginningOf
<1> DEFINE rest == Chunks \ missing
<1>5. cand = Only(best, rest)
  BY DEF Candidates
<1> HIDE DEF rest
<1>6. /\ cand \in Seq(Chunks) /\ Distinct(cand) /\ ToSet(cand) = ToSet(best) \intersect rest
      /\ Len(cand) = Cardinality(ToSet(best) \intersect rest)
      /\ \A x, y \in ToSet(cand) : At(cand, x) < At(cand, y) <=> At(best, x) < At(best, y)
  BY <1>3, <1>4, <1>5, Selected, SMTT(30)
<1>7. ToSet(best) \in SUBSET Chunks /\ IsFiniteSet(ToSet(best))
  BY <1>3, MembersAreChunks
<1>8. Len(best) = Cardinality(ToSet(best))
  BY <1>3, <1>4, LengthOfListed DEF Distinct
<1>9. Len(cand) <= RrfTopK
  <2> DEFINE U == ToSet(best) \intersect rest
  <2>1. U \in SUBSET ToSet(best)
    OBVIOUS
  <2> HIDE DEF U
  <2>2. Cardinality(U) <= Cardinality(ToSet(best)) /\ Cardinality(U) \in Nat
    BY <1>7, <2>1, FS_Subset, FS_CardinalityType
  <2>3. Len(cand) = Cardinality(U)
    BY <1>6 DEF U
  <2>4. Len(best) \in Nat
    BY <1>3
  <2> QED
    BY <1>2, <1>3, <1>8, <2>2, <2>3, <2>4
<1>10. cand \in Lists(RrfTopK)
  BY <1>2, <1>6, <1>9, ListsAre
<1>11. ToSet(cand) = ToSet(best) \ missing
  BY <1>6, <1>7 DEF rest
<1> QED
  BY <1>4, <1>6, <1>10, <1>11

\* A chunk that is nowhere behind another one and somewhere ahead of it scores more.
LEMMA AheadScoresMore ==
    ASSUME NEW s, Recalled(s), NEW c \in Everything(s), NEW d \in Everything(s),
           \A list \in {Vectors(s), Words(s)} : NotBehind(list, c, d)
    PROVE  RrfScore(s, c) > RrfScore(s, d)
<1>1. ASSUME NEW list \in {Vectors(s), Words(s)}
      PROVE  /\ Weight(list, c) \in Nat /\ Weight(list, d) \in Nat
             /\ Weight(list, c) >= Weight(list, d)
             /\ d \in ToSet(list) => Weight(list, c) > Weight(list, d)
  <2>1. list \in Seq(Chunks) /\ Distinct(list) /\ Len(list) <= Deepest
    BY RowsAre
  <2>2. Weight(list, c) \in Nat /\ Weight(list, d) \in Nat
        /\ (d \notin ToSet(list) => Weight(list, d) = 0)
    BY <2>1, WeightIs
  <2>3. ASSUME d \in ToSet(list) PROVE Weight(list, c) > Weight(list, d)
    <3>1. c \in ToSet(list) /\ At(list, c) < At(list, d)
      BY <2>3 DEF NotBehind, Ahead
    <3> QED
      BY <2>1, <2>3, <3>1, WeightIs
  <2> QED
    BY <2>2, <2>3
<1>2. d \in ToSet(Vectors(s)) \/ d \in ToSet(Words(s))
  BY DEF Everything
<1> DEFINE a == Weight(Vectors(s), c)
           b == Weight(Words(s), c)
           x == Weight(Vectors(s), d)
           y == Weight(Words(s), d)
<1>3. /\ a \in Nat /\ b \in Nat /\ x \in Nat /\ y \in Nat /\ a >= x /\ b >= y
      /\ a > x \/ b > y
  BY <1>1, <1>2
<1>4. RrfScore(s, c) = a + b /\ RrfScore(s, d) = x + y
  BY DEF RrfScore, Vectors, Words
<1> HIDE DEF a, b, x, y
<1> QED
  BY <1>3, <1>4

OrderKept(s) ==
    \A c \in Everything(s), d \in ToSet(s.cand) :
       /\ c # d /\ c \notin s.missing
       /\ \A list \in {Vectors(s), Words(s)} : NotBehind(list, c, d)
       => c \in ToSet(s.cand) /\ At(s.cand, c) < At(s.cand, d)

\* The candidates keep the order the channels agree on.
LEMMA FusionKeeps ==
    ASSUME NEW s, Recalled(s), s.cand = Candidates(s, s.missing)
    PROVE  OrderKept(s)
<1> DEFINE best == Prefix(RrfFusion(s), RrfTopK)
<1> SUFFICES ASSUME NEW c \in Everything(s), NEW d \in ToSet(s.cand), c # d, c \notin s.missing,
                    \A list \in {Vectors(s), Words(s)} : NotBehind(list, c, d)
             PROVE  c \in ToSet(s.cand) /\ At(s.cand, c) < At(s.cand, d)
  BY DEF OrderKept
<1>1. /\ ToSet(s.cand) = ToSet(best) \ s.missing /\ ToSet(best) \in SUBSET Everything(s)
      /\ \A x, y \in ToSet(s.cand) : At(s.cand, x) < At(s.cand, y) <=> At(best, x) < At(best, y)
      /\ \A x \in ToSet(best) : At(best, x) = At(RrfFusion(s), x)
      /\ \A x \in Everything(s), y \in ToSet(best) :
            At(RrfFusion(s), x) < At(RrfFusion(s), y) => x \in ToSet(best)
  BY CandidatesAre
<1> HIDE DEF best
<1>2. d \in ToSet(best) /\ d \in Everything(s)
  BY <1>1
<1>3. RrfScore(s, c) > RrfScore(s, d)
  BY <1>2, AheadScoresMore
<1>4. At(RrfFusion(s), c) < At(RrfFusion(s), d)
  BY <1>2, <1>3, FusionIs
<1>5. c \in ToSet(best)
  BY <1>1, <1>2, <1>4
<1>6. c \in ToSet(s.cand)
  BY <1>1, <1>5
<1>7. At(best, c) < At(best, d)
  BY <1>1, <1>2, <1>4, <1>5
<1> QED
  BY <1>1, <1>6, <1>7

-----------------------------------------------------------------------------
(* The rerank. *)

\* What the rerank service gives: the candidates whose score is usable.
LEMMA RerankedIs ==
    ASSUME NEW k \in Nat, NEW list \in Lists(k), NEW lost \in SUBSET ToSet(list),
           NEW pairs, pairs = Reranked(list, lost)
    PROVE  /\ pairs \in Lists(k) /\ ToSet(pairs) = ToSet(list) \ lost
           /\ Len(pairs) = Len(list) => lost = {}
<1>1. list \in Seq(Chunks) /\ Len(list) <= k /\ Distinct(list)
  BY ListsAre
<1>2. ToSet(list) \in SUBSET Chunks /\ IsFiniteSet(ToSet(list))
  BY <1>1, MembersAreChunks
<1> DEFINE ranked == BestFirst(list, ScoreOf)
           rest == Chunks \ lost
           U == ToSet(ranked) \intersect rest
<1>3. \A c \in ToSet(list) : ScoreOf[c] \in Nat
  BY <1>2, RetrievalAssumption
<1>4. ranked \in Seq(Chunks) /\ Distinct(ranked) /\ ToSet(ranked) = ToSet(list)
  BY <1>1, <1>3, Sorted
<1>5. pairs = Only(ranked, rest)
  BY DEF Reranked
<1> HIDE DEF ranked, rest
<1>6. pairs \in Seq(Chunks) /\ Distinct(pairs) /\ ToSet(pairs) = U /\ Len(pairs) = Cardinality(U)
  BY <1>4, <1>5, Selected
<1>7. U = ToSet(list) \ lost
  BY <1>2, <1>4 DEF rest
<1>8. Len(list) = Cardinality(ToSet(list))
  BY <1>1, LengthOfListed DEF Distinct
<1>9. U \in SUBSET ToSet(list)
  BY <1>7
<1> HIDE DEF U
<1>10. /\ Cardinality(U) \in Nat /\ Cardinality(U) <= Cardinality(ToSet(list))
       /\ Cardinality(U) = Cardinality(ToSet(list)) => U = ToSet(list)
  BY <1>2, <1>9, FS_Subset, FS_CardinalityType
<1>11. Len(list) \in Nat
  BY <1>1
<1>12. Len(pairs) <= k
  BY <1>1, <1>6, <1>8, <1>10, <1>11
<1>13. Len(pairs) = Len(list) => lost = {}
  BY <1>6, <1>7, <1>8, <1>10
<1> QED
  BY <1>6, <1>7, <1>12, <1>13, ListsAre

\* What is put to the rerank.
LEMMA InputIs ==
    ASSUME NEW s, s.cand \in Lists(RrfTopK)
    PROVE  Input(s) \in Lists(RerankK) /\ ToSet(Input(s)) \in SUBSET ToSet(s.cand)
<1>1. s.cand \in Seq(Chunks) /\ Distinct(s.cand) /\ RerankK \in Nat
  BY Bounds, ListsAre
<1>2. Input(s) \in Seq(Chunks) /\ Len(Input(s)) <= RerankK
  BY <1>1, Beginning DEF Input
<1>3. Distinct(Input(s)) /\ ToSet(Input(s)) \in SUBSET ToSet(s.cand)
  BY <1>1, BeginningOf DEF Input
<1> QED
  BY <1>1, <1>2, <1>3, ListsAre

\* An answer of the service, and the only one that covers every candidate.
LEMMA AnswersAre ==
    ASSUME NEW k \in Nat, NEW input \in Lists(k), NEW pairs \in Answers(input)
    PROVE  /\ pairs \in Lists(k) /\ ToSet(pairs) \in SUBSET ToSet(input)
           /\ Len(pairs) = Len(input) => pairs = Reranked(input, {})
<1>1. PICK lost \in SUBSET ToSet(input) : pairs = Reranked(input, lost)
  BY DEF Answers
<1>2. /\ pairs \in Lists(k) /\ ToSet(pairs) = ToSet(input) \ lost
      /\ Len(pairs) = Len(input) => lost = {}
  BY <1>1, RerankedIs
<1> QED
  BY <1>1, <1>2

\* The gap of two scores of a search: the first is at most twice the weight of the
\* first place, the second at least the weight of the last one.
LEMMA GapIs ==
    ASSUME NEW s, Recalled(s), NEW c, NEW d \in Everything(s), GapIsSmall
    PROVE  (RrfScore(s, c) - RrfScore(s, d)) * 1000 <= GapMillis * Common
<1> DEFINE K == RrfK
           D == Deepest
           G == GapMillis
           C == Common
<1>1. K \in Nat \ {0} /\ D \in Nat \ {0} /\ G \in Nat /\ C \in Nat \ {0}
  BY Bounds, CommonIs
<1>2. 1 \in 1..D /\ D \in 1..D
  BY <1>1
<1>3. PICK a \in Nat \ {0} : a * (K + 1) = C
  BY <1>2, CommonIs
<1>4. PICK b \in Nat \ {0} : b * (K + D) = C
  BY <1>2, CommonIs
<1>5. ASSUME NEW list \in {Vectors(s), Words(s)}
      PROVE  /\ \A x : Weight(list, x) \in Nat /\ Weight(list, x) <= a
             /\ \A x \in ToSet(list) : b <= Weight(list, x)
  <2>1. list \in Seq(Chunks) /\ Distinct(list) /\ Len(list) <= Deepest
    BY RowsAre
  <2>2. \A x : Weight(list, x) \in Nat /\ (x \notin ToSet(list) => Weight(list, x) = 0)
    BY <2>1, WeightIs
  <2>3. ASSUME NEW x \in ToSet(list) PROVE b <= Weight(list, x) /\ Weight(list, x) <= a
    <3> DEFINE w == Weight(list, x)
               y == K + At(list, x)
               u == K + 1
               v == K + D
    <3>1. w \in Nat \ {0} /\ At(list, x) \in 1..D /\ w * y = C
      BY <2>1, <2>2, WeightIs
    <3>2. y \in Nat \ {0} /\ u \in Nat \ {0} /\ v \in Nat \ {0} /\ u <= y /\ y <= v
      BY <1>1, <3>1
    <3>3. a * u = w * y /\ w * y = b * v
      BY <1>3, <1>4, <3>1
    <3>4. w \in Nat \ {0}
      BY <3>1
    <3> HIDE DEF w, y, u, v
    <3>5. w <= a
      BY <3>2, <3>3, <3>4, LessOfMore
    <3>6. b <= w
      BY <3>2, <3>3, <3>4, LessOfMore
    <3> QED
      BY <3>5, <3>6 DEF w
  <2>4. ASSUME NEW x PROVE Weight(list, x) \in Nat /\ Weight(list, x) <= a
    BY <2>2, <2>3
  <2> QED
    BY <2>3, <2>4
<1>6. Vectors(s) \in {Vectors(s), Words(s)} /\ Words(s) \in {Vectors(s), Words(s)}
  OBVIOUS
<1>7. RrfScore(s, c) \in Nat /\ RrfScore(s, c) <= 2 * a
  <2> DEFINE p == Weight(Vectors(s), c)
             q == Weight(Words(s), c)
  <2>1. p \in Nat /\ p <= a /\ q \in Nat /\ q <= a
    BY <1>5, <1>6
  <2>2. RrfScore(s, c) = p + q
    BY DEF RrfScore, Vectors, Words
  <2> HIDE DEF p, q
  <2> QED
    BY <2>1, <2>2
<1>8. RrfScore(s, d) \in Nat /\ b <= RrfScore(s, d)
  <2> DEFINE p == Weight(Vectors(s), d)
             q == Weight(Words(s), d)
  <2>1. p \in Nat /\ q \in Nat /\ (b <= p \/ b <= q)
    BY <1>5, <1>6 DEF Everything
  <2>2. RrfScore(s, d) = p + q
    BY DEF RrfScore, Vectors, Words
  <2> HIDE DEF p, q
  <2> QED
    BY <2>1, <2>2
<1> DEFINE u == K + 1
           v == K + D
           g == RrfScore(s, c) - RrfScore(s, d)
           h == 2 * a - b
<1>9. u \in Nat \ {0} /\ v \in Nat \ {0} /\ a * u = C /\ b * v = C
  BY <1>1, <1>3, <1>4
<1>10. g \in Int /\ h \in Int /\ g <= h
  BY <1>7, <1>8
<1>11. 1000 * (2 * v - u) <= G * (u * v)
  BY DEF GapIsSmall
<1> HIDE DEF u, v, g, h, K, D, G, C
<1>12. h * (u * v) = C * (2 * v - u)
  <2>1. h * (u * v) = 2 * (a * u) * v - (b * v) * u
    BY <1>9 DEF h
  <2>2. 2 * C * v - C * u = C * (2 * v - u)
    BY <1>1, <1>9
  <2> QED
    BY <1>9, <2>1, <2>2
<1>13. (h * 1000) * (u * v) <= (G * C) * (u * v)
  <2> DEFINE e == 2 * v - u
             t == u * v
  <2>1. e \in Int /\ t \in Nat /\ 1000 * e <= G * t /\ h * t = C * e
    BY <1>9, <1>11, <1>12
  <2> HIDE DEF e, t
  <2>2. C * (1000 * e) <= C * (G * t)
    BY <1>1, <2>1
  <2>3. C * (1000 * e) = 1000 * (C * e) /\ C * (G * t) = (G * C) * t
    BY <1>1, <2>1
  <2>4. (h * 1000) * t = 1000 * (h * t)
    BY <1>10, <2>1
  <2>5. (h * 1000) * t <= (G * C) * t
    BY <2>1, <2>2, <2>3, <2>4
  <2> QED
    BY <2>5 DEF t
<1>14. h * 1000 <= G * C
  <2> DEFINE t == u * v
             x == h * 1000
             y == G * C
  <2>1. t \in Nat \ {0} /\ x \in Int /\ y \in Int /\ x * t <= y * t
    BY <1>1, <1>9, <1>10, <1>13
  <2> HIDE DEF t, x, y
  <2>2. x <= y
    <3> SUFFICES ASSUME y < x PROVE FALSE
      BY <2>1
    <3>1. y * t < x * t
      BY <2>1
    <3>2. y * t \in Int /\ x * t \in Int
      BY <2>1
    <3> QED
      BY <2>1, <3>1, <3>2
  <2> QED
    BY <2>2 DEF x, y
<1>15. g * 1000 <= G * C
  <2> DEFINE y == G * C
  <2>1. y \in Int /\ h * 1000 <= y
    BY <1>1, <1>14
  <2> HIDE DEF y
  <2>2. g * 1000 <= y
    BY <1>10, <2>1
  <2> QED
    BY <2>2 DEF y
<1> QED
  BY <1>15 DEF g, G, C

ReranksAlways(s) ==
    GapIsSmall /\ Len(s.cand) > 1 /\ RerankK > 1 => DecideRerank(s, FALSE)

\* With a small gap the reranker is never skipped (should_rerank).
LEMMA GapNeverSkips ==
    ASSUME NEW s, Recalled(s), s.cand = Candidates(s, s.missing)
    PROVE  ReranksAlways(s)
<1> SUFFICES ASSUME GapIsSmall, Len(s.cand) > 1, RerankK > 1 PROVE CloseScores(s)
  BY DEF ReranksAlways, DecideRerank
<1> DEFINE best == Prefix(RrfFusion(s), RrfTopK)
<1>1. /\ s.cand \in Lists(RrfTopK) /\ ToSet(s.cand) = ToSet(best) \ s.missing
      /\ ToSet(best) \in SUBSET Everything(s)
  BY CandidatesAre
<1> HIDE DEF best
<1>2. s.cand \in Seq(Chunks)
  BY <1>1, Bounds, ListsAre
<1>3. DOMAIN s.cand = 1..Len(s.cand) /\ 2 \in 1..Len(s.cand)
  BY <1>2
<1>4. s.cand[2] \in Everything(s)
  BY <1>1, <1>3 DEF ToSet
<1>5. Gap(s) * 1000 <= GapMillis * Common
  BY <1>4, GapIs DEF Gap
<1> QED
  BY <1>5 DEF CloseScores

-----------------------------------------------------------------------------
(* The post-processing. *)

RankedOf(s) ==
    /\ s.pairs # NoPairs => s.pairs \in Lists(RerankK) /\ ToSet(s.pairs) \in SUBSET ToSet(s.cand)
    /\ s.hit => s.pairs = Reranked(Input(s), {})

\* What stays above the threshold: the candidates that are scored.
LEMMA AboveIs ==
    ASSUME NEW s, s.cand \in Lists(RrfTopK), RankedOf(s), NEW a, a = AboveThreshold(s)
    PROVE  /\ a \in Seq(Chunks) /\ Distinct(a) /\ ToSet(a) = {c \in ToSet(s.cand) : Scored(s, c)}
           /\ Ranked(s) \in Seq(Chunks) /\ Distinct(Ranked(s))
           /\ ToSet(a) \in SUBSET ToSet(Ranked(s)) /\ SameOrder(Ranked(s), a)
<1>1. s.cand \in Seq(Chunks) /\ Distinct(s.cand) /\ RerankK \in Nat
  BY Bounds, ListsAre
<1>2. CASE s.pairs = NoPairs
  BY <1>1, <1>2 DEF AboveThreshold, Scored, Ranked, SameOrder
<1>3. CASE s.pairs # NoPairs
  <2> DEFINE good == {c \in Chunks : ScoreOf[c] >= Threshold}
  <2>1. s.pairs \in Seq(Chunks) /\ Distinct(s.pairs) /\ ToSet(s.pairs) \in SUBSET ToSet(s.cand)
    BY <1>1, <1>3, ListsAre DEF RankedOf
  <2>2. a = Only(s.pairs, good)
    BY <1>3 DEF AboveThreshold
  <2>3. ToSet(s.pairs) \in SUBSET Chunks
    BY <2>1, MembersAreChunks
  <2>4. \A c \in Chunks : c \in good <=> ScoreOf[c] >= Threshold
    OBVIOUS
  <2> HIDE DEF good
  <2>5. a \in Seq(Chunks) /\ Distinct(a) /\ ToSet(a) = ToSet(s.pairs) \intersect good
    BY <2>1, <2>2, Selected
  <2>6. \A c \in ToSet(s.cand) : Scored(s, c) <=> c \in ToSet(s.pairs) /\ ScoreOf[c] >= Threshold
    BY <1>3 DEF Scored
  <2>7. \A c : c \in ToSet(a) <=> c \in ToSet(s.cand) /\ Scored(s, c)
    BY <2>1, <2>3, <2>4, <2>5, <2>6
  <2>8. SameOrder(s.pairs, a)
    BY <2>1, <2>2, Selected DEF SameOrder
  <2>9. Ranked(s) = s.pairs
    BY <1>3 DEF Ranked
  <2> QED
    BY <2>1, <2>5, <2>7, <2>8, <2>9
<1> QED
  BY <1>2, <1>3

\* Of a content the first is kept: what is left out has its like among what is kept.
LEMMA DeduplicatedIs ==
    ASSUME NEW s \in Seq(Chunks), Distinct(s), NEW t, t = Deduplicated(s)
    PROVE  /\ t \in Seq(Chunks) /\ Distinct(t) /\ ToSet(t) \in SUBSET ToSet(s)
           /\ s # <<>> => t # <<>>
           /\ SameOrder(s, t)
           /\ \A c \in ToSet(s) \ ToSet(t) :
                 /\ TextOf[c] \notin ShortTexts
                 /\ \E d \in ToSet(t) : TextOf[d] = TextOf[c] /\ At(s, d) < At(s, c)
<1> DEFINE n == Len(s)
           F == [i \in 1..n |-> [k \in Seq(Chunks) |->
                    IF Duplicate(k, s[i]) THEN k ELSE Append(k, s[i])]]
           Step(f) == f = [i \in 0..n |->
                    IF i = 0 THEN <<>>
                    ELSE IF Duplicate(f[i - 1], s[i]) THEN f[i - 1] ELSE Append(f[i - 1], s[i])]
           h == CHOOSE f : Step(f)
<1>1. n \in Nat /\ DOMAIN s = 1..n /\ \A i \in 1..n : s[i] \in Chunks
  OBVIOUS
<1>2. t = h[n]
  BY DEF Deduplicated
<1> HIDE DEF n
<1>3. \E f \in [0..n -> Seq(Chunks)] : Step(f)
  <2>1. F \in Steps(Seq(Chunks), n)
    <3>1. \A i \in 1..n, k \in Seq(Chunks) : Append(k, s[i]) \in Seq(Chunks)
      BY <1>1
    <3> QED
      BY <3>1 DEF Steps
  <2>2. <<>> \in Seq(Chunks)
    OBVIOUS
  <2>3. PICK f : Follows(f, <<>>, F, Seq(Chunks), n)
    <3> HIDE DEF F
    <3> QED
      BY <1>1, <2>1, <2>2, Stepwise
  <2>4. f \in [0..n -> Seq(Chunks)] /\ f[0] = <<>> /\ \A i \in 1..n : f[i] = F[i][f[i - 1]]
    BY <2>3 DEF Follows
  <2>5. ASSUME NEW i \in 1..n
        PROVE  f[i] = IF Duplicate(f[i - 1], s[i]) THEN f[i - 1] ELSE Append(f[i - 1], s[i])
    <3>1. i - 1 \in 0..n
      BY <1>1
    <3>2. f[i - 1] \in Seq(Chunks)
      BY <2>4, <3>1
    <3> QED
      BY <2>4, <3>2
  <2>6. \A i \in 0..n : i = 0 \/ i \in 1..n
    BY <1>1
  <2>7. Step(f)
    BY <2>4, <2>5, <2>6
  <2> HIDE DEF Step
  <2> QED
    BY <2>4, <2>7
<1>4. Step(h)
  <2> HIDE DEF Step
  <2> QED
    BY <1>3
<1> HIDE DEF h
<1>5. /\ h[0] = <<>>
      /\ \A i \in 1..n : h[i] = IF Duplicate(h[i - 1], s[i]) THEN h[i - 1] ELSE Append(h[i - 1], s[i])
  <2>1. \A i \in 0..n : h[i] = IF i = 0 THEN <<>>
                        ELSE IF Duplicate(h[i - 1], s[i]) THEN h[i - 1] ELSE Append(h[i - 1], s[i])
    BY <1>4
  <2>2. 0 \in 0..n /\ \A i \in 1..n : i \in 0..n /\ i # 0
    BY <1>1
  <2> QED
    BY <2>1, <2>2
<1>6. h \in [0..n -> Seq(Chunks)]
  <2> DEFINE T == {i \in 0..n : h[i] \in Seq(Chunks)}
  <2>1. 0 \in T
    <3>1. 0 \in 0..n /\ <<>> \in Seq(Chunks)
      BY <1>1
    <3> QED
      BY <1>5, <3>1
  <2>2. ASSUME NEW i \in 1..n, i - 1 \in T PROVE i \in T
    <3>1. h[i - 1] \in Seq(Chunks) /\ i \in 0..n /\ Append(h[i - 1], s[i]) \in Seq(Chunks)
      BY <1>1, <2>2
    <3>2. h[i] = h[i - 1] \/ h[i] = Append(h[i - 1], s[i])
      BY <1>5
    <3> QED
      BY <3>1, <3>2
  <2> HIDE DEF T
  <2>3. ASSUME NEW m \in 0..n PROVE m \in T
    <3>1. m \in Nat /\ \A i \in 1..m : i \in 1..n
      BY <1>1
    <3>2. Inductive(T, m)
      BY <2>1, <2>2, <3>1 DEF Inductive
    <3> QED
      BY <3>1, <3>2, UpTo
  <2>4. \A i \in 0..n : h[i] \in Seq(Chunks)
    BY <2>3 DEF T
  <2>5. h = [i \in 0..n |-> h[i]]
    BY <1>4
  <2> HIDE DEF Step
  <2> QED
    BY <2>4, <2>5
<1> HIDE DEF Step, F
<1>7. KeepsOrSkips(s, h) /\ h \in [0..Len(s) -> Seq(Chunks)]
  BY <1>5, <1>6 DEF KeepsOrSkips, n
<1>8. n \in 0..n
  BY <1>1
<1>9. Distinct(t) /\ ToSet(t) \in SUBSET UpToPlace(s, n)
  BY <1>2, <1>7, <1>8, LoopKeeps DEF n
<1>10. UpToPlace(s, n) \in SUBSET ToSet(s)
  BY <1>1 DEF UpToPlace, ToSet
<1>11. ASSUME NEW c \in ToSet(s) \ ToSet(t)
       PROVE  /\ TextOf[c] \notin ShortTexts
              /\ \E d \in ToSet(t) : TextOf[d] = TextOf[c] /\ At(s, d) < At(s, c)
  <2>1. c \in ToSet(s) /\ c \notin ToSet(h[Len(s)])
    BY <1>2, <1>11 DEF n
  <2>2. \A d \in ToSet(s) \ ToSet(h[Len(s)]) : \E i \in 1..Len(s) :
              /\ s[i] = d /\ h[i] # Append(h[i - 1], d)
              /\ ToSet(h[i - 1]) \in SUBSET ToSet(s)
              /\ d \notin ToSet(h[i - 1])
              /\ ToSet(h[i - 1]) \in SUBSET ToSet(h[Len(s)])
              /\ \A x \in ToSet(h[i - 1]) : At(s, x) < At(s, d)
    BY <1>7, LoopSkipped
  <2>3. PICK i \in 1..n :
              /\ s[i] = c /\ h[i] # Append(h[i - 1], c)
              /\ ToSet(h[i - 1]) \in SUBSET ToSet(h[Len(s)])
              /\ \A x \in ToSet(h[i - 1]) : At(s, x) < At(s, c)
    BY <2>1, <2>2 DEF n
  <2>4. Duplicate(h[i - 1], c)
    BY <1>5, <2>3
  <2>5. ToSet(h[i - 1]) \in SUBSET ToSet(t)
    BY <1>2, <2>3 DEF n
  <2> QED
    BY <2>3, <2>4, <2>5 DEF Duplicate
<1>12. s # <<>> => t # <<>>
  <2> SUFFICES ASSUME s # <<>> PROVE h[n] # <<>>
    BY <1>2
  <2>1. 1 \in 1..n /\ 1 - 1 = 0
    BY <1>1 DEF n
  <2>2. ~ Duplicate(h[0], s[1])
    BY <1>5, EmptyList DEF Duplicate
  <2>3. h[1] = Append(h[0], s[1])
    BY <1>5, <2>1, <2>2
  <2> QED
    BY <1>7, <2>3, LoopKeepsFirst DEF n
<1>13. t \in Seq(Chunks)
  BY <1>2, <1>6, <1>8
<1>14. SameOrder(s, t)
  BY <1>2, <1>7, LoopOrder DEF n
<1> QED
  BY <1>9, <1>10, <1>11, <1>12, <1>13, <1>14

\* What a document may have at most: before a chunk left out its document has its share, and
\* another document is among the chunks.
FullBefore(s, t, c) ==
    /\ MaxPerDoc > 0
    /\ Cardinality({d \in OfDoc(t, DocOf[c]) : At(s, d) < At(s, c)}) >= MaxPerDoc
    /\ \E d \in ToSet(s) : DocOf[d] # DocOf[c]

LEMMA DocumentLimitedIs ==
    ASSUME NEW s \in Seq(Chunks), Distinct(s), NEW t, t = DocumentLimited(s)
    PROVE  /\ t \in Seq(Chunks) /\ Distinct(t) /\ ToSet(t) \in SUBSET ToSet(s)
           /\ s # <<>> => t # <<>>
           /\ SameOrder(s, t)
           /\ \A c \in ToSet(s) \ ToSet(t) : FullBefore(s, t, c)
<1> DEFINE n == Len(s)
           Full(k, i) == Cardinality(OfDoc(k, DocOf[s[i]])) >= MaxPerDoc
           F == [i \in 1..n |-> [k \in Seq(Chunks) |-> IF Full(k, i) THEN k ELSE Append(k, s[i])]]
           Step(f) == f = [i \in 0..n |->
                    IF i = 0 THEN <<>>
                    ELSE IF Full(f[i - 1], i) THEN f[i - 1] ELSE Append(f[i - 1], s[i])]
           h == CHOOSE f : Step(f)
           Free == MaxPerDoc = 0 \/ Cardinality({DocOf[c] : c \in ToSet(s)}) <= 1
<1>1. n \in Nat /\ DOMAIN s = 1..n /\ \A i \in 1..n : s[i] \in Chunks
  OBVIOUS
<1>2. t = IF Free THEN s ELSE h[n]
  BY DEF DocumentLimited
<1> HIDE DEF n, Free
<1>f. CASE Free
  BY <1>2, <1>f DEF SameOrder
<1>n. CASE ~Free
  <2>1. t = h[n]
    BY <1>2, <1>n
  <2>3. \E f \in [0..n -> Seq(Chunks)] : Step(f)
    <3> HIDE DEF Full
    <3>1. F \in Steps(Seq(Chunks), n)
      <4>1. \A i \in 1..n, k \in Seq(Chunks) : Append(k, s[i]) \in Seq(Chunks)
        BY <1>1
      <4> QED
        BY <4>1 DEF Steps
    <3>2. <<>> \in Seq(Chunks)
      OBVIOUS
    <3>3. PICK f : Follows(f, <<>>, F, Seq(Chunks), n)
      <4> HIDE DEF F
      <4> QED
        BY <1>1, <3>1, <3>2, Stepwise
    <3>4. f \in [0..n -> Seq(Chunks)] /\ f[0] = <<>> /\ \A i \in 1..n : f[i] = F[i][f[i - 1]]
      BY <3>3 DEF Follows
    <3>5. ASSUME NEW i \in 1..n
          PROVE  f[i] = IF Full(f[i - 1], i) THEN f[i - 1] ELSE Append(f[i - 1], s[i])
      <4>1. i - 1 \in 0..n
        BY <1>1
      <4>2. f[i - 1] \in Seq(Chunks)
        BY <3>4, <4>1
      <4> QED
        BY <3>4, <4>2
    <3>6. \A i \in 0..n : i = 0 \/ i \in 1..n
      BY <1>1
    <3>7. Step(f)
      BY <3>4, <3>5, <3>6
    <3> HIDE DEF Step
    <3> QED
      BY <3>4, <3>7
  <2>4. Step(h)
    <3> HIDE DEF Step
    <3> QED
      BY <2>3
  <2> HIDE DEF h, Full
  <2>5. /\ h[0] = <<>>
        /\ \A i \in 1..n : h[i] = IF Full(h[i - 1], i) THEN h[i - 1] ELSE Append(h[i - 1], s[i])
    <3>1. \A i \in 0..n : h[i] = IF i = 0 THEN <<>>
                          ELSE IF Full(h[i - 1], i) THEN h[i - 1] ELSE Append(h[i - 1], s[i])
      BY <2>4
    <3>2. 0 \in 0..n /\ \A i \in 1..n : i \in 0..n /\ i # 0
      BY <1>1
    <3> QED
      BY <3>1, <3>2
  <2>6. h \in [0..n -> Seq(Chunks)]
    <3> DEFINE T == {i \in 0..n : h[i] \in Seq(Chunks)}
    <3>1. 0 \in T
      <4>1. 0 \in 0..n /\ <<>> \in Seq(Chunks)
        BY <1>1
      <4> QED
        BY <2>5, <4>1
    <3>2. ASSUME NEW i \in 1..n, i - 1 \in T PROVE i \in T
      <4>1. h[i - 1] \in Seq(Chunks) /\ i \in 0..n /\ Append(h[i - 1], s[i]) \in Seq(Chunks)
        BY <1>1, <3>2
      <4>2. h[i] = h[i - 1] \/ h[i] = Append(h[i - 1], s[i])
        BY <2>5
      <4> QED
        BY <4>1, <4>2
    <3> HIDE DEF T
    <3>3. ASSUME NEW m \in 0..n PROVE m \in T
      <4>1. m \in Nat /\ \A i \in 1..m : i \in 1..n
        BY <1>1
      <4>2. Inductive(T, m)
        BY <3>1, <3>2, <4>1 DEF Inductive
      <4> QED
        BY <4>1, <4>2, UpTo
    <3>4. \A i \in 0..n : h[i] \in Seq(Chunks)
      BY <3>3 DEF T
    <3>5. h = [i \in 0..n |-> h[i]]
      BY <2>4
    <3> HIDE DEF Step
    <3> QED
      BY <3>4, <3>5
  <2> HIDE DEF Step, F
  <2>7. KeepsOrSkips(s, h) /\ h \in [0..Len(s) -> Seq(Chunks)]
    BY <2>5, <2>6 DEF KeepsOrSkips, n
  <2>8. n \in 0..n
    BY <1>1
  <2>9. Distinct(t) /\ ToSet(t) \in SUBSET UpToPlace(s, n)
    BY <2>1, <2>7, <2>8, LoopKeeps DEF n
  <2>10. UpToPlace(s, n) \in SUBSET ToSet(s)
    BY <1>1 DEF UpToPlace, ToSet
  <2>11. t \in Seq(Chunks)
    BY <2>1, <2>6, <2>8
  <2>12. ASSUME NEW c \in ToSet(s) \ ToSet(t) PROVE FullBefore(s, t, c)
    <3>1. c \in ToSet(s) /\ c \notin ToSet(h[Len(s)])
      BY <2>1, <2>12 DEF n
    <3>s. \A d \in ToSet(s) \ ToSet(h[Len(s)]) : \E i \in 1..Len(s) :
                /\ s[i] = d /\ h[i] # Append(h[i - 1], d)
                /\ ToSet(h[i - 1]) \in SUBSET ToSet(s)
                /\ d \notin ToSet(h[i - 1])
                /\ ToSet(h[i - 1]) \in SUBSET ToSet(h[Len(s)])
                /\ \A x \in ToSet(h[i - 1]) : At(s, x) < At(s, d)
      BY <2>7, LoopSkipped
    <3>p. PICK i \in 1..n :
                /\ s[i] = c /\ h[i] # Append(h[i - 1], c)
                /\ ToSet(h[i - 1]) \in SUBSET ToSet(h[Len(s)])
                /\ \A x \in ToSet(h[i - 1]) : At(s, x) < At(s, c)
      BY <3>1, <3>s DEF n
    <3>3. Cardinality(OfDoc(h[i - 1], DocOf[c])) >= MaxPerDoc
      BY <2>5, <3>p DEF Full
    <3> DEFINE U == OfDoc(h[i - 1], DocOf[c])
               W == {d \in OfDoc(t, DocOf[c]) : At(s, d) < At(s, c)}
    <3>4. U \in SUBSET W
      BY <2>1, <3>p DEF OfDoc, n
    <3>5. IsFiniteSet(W)
      <4>1. IsFiniteSet(ToSet(t)) /\ W \in SUBSET ToSet(t)
        BY <2>11, MembersAreChunks DEF OfDoc
      <4> QED
        BY <4>1, FS_Subset
    <3>6. Cardinality(U) >= MaxPerDoc
      BY <3>3
    <3> HIDE DEF U, W
    <3>7. Cardinality(U) <= Cardinality(W) /\ Cardinality(U) \in Nat /\ Cardinality(W) \in Nat
      BY <3>4, <3>5, FS_Subset, FS_CardinalityType
    <3>8. Cardinality(W) >= MaxPerDoc /\ MaxPerDoc > 0
      <4>1. MaxPerDoc \in Nat /\ MaxPerDoc # 0
        BY <1>n, Bounds DEF Free
      <4> QED
        BY <3>6, <3>7, <4>1
    <3>9. \E d \in ToSet(s) : DocOf[d] # DocOf[c]
      <4> SUFFICES ASSUME \A d \in ToSet(s) : DocOf[d] = DocOf[c] PROVE FALSE
        OBVIOUS
      <4>1. {DocOf[d] : d \in ToSet(s)} = {DocOf[c]}
        BY <3>1
      <4>2. Cardinality({DocOf[c]}) = 1
        BY FS_Singleton
      <4>3. Cardinality({DocOf[d] : d \in ToSet(s)}) = 1
        BY <4>1, <4>2
      <4>4. 1 <= 1
        OBVIOUS
      <4> QED
        BY <1>n, <4>3, <4>4 DEF Free
    <3> QED
      BY <3>8, <3>9 DEF W, FullBefore
  <2>13. s # <<>> => t # <<>>
    <3> SUFFICES ASSUME s # <<>> PROVE h[n] # <<>>
      BY <2>1
    <3>1. 1 \in 1..n /\ 1 - 1 = 0
      BY <1>1 DEF n
    <3>2. OfDoc(h[0], DocOf[s[1]]) = {}
      BY <2>5, EmptyList DEF OfDoc
    <3>3. Cardinality({}) = 0 /\ ~ (0 >= MaxPerDoc)
      BY <1>n, FS_EmptySet, Bounds DEF Free
    <3>4. ~ Full(h[0], 1)
      BY <3>2, <3>3 DEF Full
    <3>5. h[1] = Append(h[0], s[1])
      BY <2>5, <3>1, <3>4
    <3> QED
      BY <2>7, <3>5, LoopKeepsFirst DEF n
  <2>14. SameOrder(s, t)
    BY <2>1, <2>7, LoopOrder DEF n
  <2> QED
    BY <2>9, <2>10, <2>11, <2>12, <2>13, <2>14
<1> QED
  BY <1>f, <1>n

\* What NothingLostNeedlessly says of the results of a search.
KeptInOrder(s) ==
    /\ \A c \in ToSet(s.results) : c \in ToSet(s.cand) /\ Scored(s, c)
    /\ \A i, j \in DOMAIN s.results : i < j => Before(s, s.results[i], s.results[j])
    /\ \A c \in ToSet(s.cand) \ ToSet(s.results) : LeftOut(s, c)

\* The order goes on from list to list.
LEMMA SameOrderOn ==
    ASSUME NEW p, NEW q, NEW r, SameOrder(p, q), SameOrder(q, r), ToSet(r) \in SUBSET ToSet(q)
    PROVE  SameOrder(p, r)
BY DEF SameOrder

\* The stages between the ranking and the cut, and the order they keep.
StagesOk(s, a, u, l) ==
    /\ ToSet(a) = {c \in ToSet(s.cand) : Scored(s, c)} /\ ToSet(u) \in SUBSET ToSet(a)
    /\ l \in Seq(Chunks) /\ Distinct(l) /\ ToSet(l) \in SUBSET ToSet(u)
    /\ Ranked(s) \in Seq(Chunks) /\ Distinct(Ranked(s)) /\ ToSet(a) \in SUBSET ToSet(Ranked(s))
    /\ SameOrder(Ranked(s), l)
    /\ ToSet(a) # {} => l # <<>>
    /\ \A c \in ToSet(a) \ ToSet(u) : \E d \in ToSet(u) : Repeats(s, c, d)
    /\ \A c \in ToSet(u) \ ToSet(l) :
          /\ MaxPerDoc > 0 /\ \E d \in ToSet(a) : DocOf[d] # DocOf[c]
          /\ Cardinality({d \in OfDoc(l, DocOf[c]) : Before(s, d, c)}) >= MaxPerDoc

LEMMA StagesAre ==
    ASSUME NEW s, s.cand \in Lists(RrfTopK), RankedOf(s),
           NEW a, a = AboveThreshold(s), NEW u, u = Deduplicated(a), NEW l, l = DocumentLimited(u)
    PROVE  StagesOk(s, a, u, l)
<1>1. /\ a \in Seq(Chunks) /\ Distinct(a) /\ ToSet(a) = {c \in ToSet(s.cand) : Scored(s, c)}
      /\ Ranked(s) \in Seq(Chunks) /\ Distinct(Ranked(s))
      /\ ToSet(a) \in SUBSET ToSet(Ranked(s)) /\ SameOrder(Ranked(s), a)
  BY AboveIs
<1>2. /\ u \in Seq(Chunks) /\ Distinct(u) /\ ToSet(u) \in SUBSET ToSet(a)
      /\ a # <<>> => u # <<>>
      /\ SameOrder(a, u)
      /\ \A c \in ToSet(a) \ ToSet(u) :
            /\ TextOf[c] \notin ShortTexts
            /\ \E d \in ToSet(u) : TextOf[d] = TextOf[c] /\ At(a, d) < At(a, c)
  BY <1>1, DeduplicatedIs
<1>3. /\ l \in Seq(Chunks) /\ Distinct(l) /\ ToSet(l) \in SUBSET ToSet(u)
      /\ u # <<>> => l # <<>>
      /\ SameOrder(u, l)
      /\ \A c \in ToSet(u) \ ToSet(l) : FullBefore(u, l, c)
  BY <1>2, DocumentLimitedIs
<1>4. SameOrder(Ranked(s), u)
  BY <1>1, <1>2, SameOrderOn
<1>5. SameOrder(Ranked(s), l)
  BY <1>3, <1>4, SameOrderOn
<1>6. ASSUME NEW c \in ToSet(a) \ ToSet(u) PROVE \E d \in ToSet(u) : Repeats(s, c, d)
  <2>1. PICK d \in ToSet(u) : TextOf[d] = TextOf[c] /\ At(a, d) < At(a, c)
    BY <1>2
  <2>2. At(Ranked(s), d) < At(Ranked(s), c)
    BY <1>1, <1>2, <2>1 DEF SameOrder
  <2> QED
    BY <1>2, <2>1, <2>2 DEF Repeats, Before
<1>7. ASSUME NEW c \in ToSet(u) \ ToSet(l)
      PROVE  /\ MaxPerDoc > 0 /\ \E d \in ToSet(a) : DocOf[d] # DocOf[c]
             /\ Cardinality({d \in OfDoc(l, DocOf[c]) : Before(s, d, c)}) >= MaxPerDoc
  <2>1. \A d \in ToSet(l) : At(u, d) < At(u, c) <=> Before(s, d, c)
    BY <1>3, <1>4 DEF SameOrder, Before
  <2>2. {d \in OfDoc(l, DocOf[c]) : At(u, d) < At(u, c)} = {d \in OfDoc(l, DocOf[c]) : Before(s, d, c)}
    BY <2>1 DEF OfDoc
  <2>3. FullBefore(u, l, c)
    BY <1>3
  <2> QED
    BY <1>2, <2>2, <2>3 DEF FullBefore
<1>8. ASSUME ToSet(a) # {} PROVE l # <<>>
  <2>1. ToSet(<<>>) = {}
    BY DEF ToSet
  <2> QED
    BY <1>2, <1>3, <1>8, <2>1
<1> QED
  BY <1>1, <1>2, <1>3, <1>5, <1>6, <1>7, <1>8 DEF StagesOk

\* What a search returns: at most TopK, in order, and what is left out has its reason.
LEMMA ReturnedIs ==
    ASSUME NEW s, s.cand \in Lists(RrfTopK), RankedOf(s), s.results = Returned(s)
    PROVE  /\ s.results \in Lists(TopK) /\ KeptInOrder(s)
           /\ s.results = <<>> => \A c \in ToSet(s.cand) : ~Scored(s, c)
<1> DEFINE a == AboveThreshold(s)
           u == Deduplicated(a)
           l == DocumentLimited(u)
           r == s.results
<1>0. TopK \in Nat /\ TopK # 0
  BY Bounds
<1>s. StagesOk(s, a, u, l)
  BY StagesAre
<1>4. r = Prefix(l, TopK)
  BY DEF Returned
<1> HIDE DEF a, u, l, r
<1>1. /\ ToSet(a) = {c \in ToSet(s.cand) : Scored(s, c)} /\ ToSet(u) \in SUBSET ToSet(a)
      /\ l \in Seq(Chunks) /\ Distinct(l) /\ ToSet(l) \in SUBSET ToSet(u)
      /\ Ranked(s) \in Seq(Chunks) /\ Distinct(Ranked(s)) /\ ToSet(a) \in SUBSET ToSet(Ranked(s))
      /\ SameOrder(Ranked(s), l)
      /\ ToSet(a) # {} => l # <<>>
  BY <1>s DEF StagesOk
<1>2. \A c \in ToSet(a) \ ToSet(u) : \E d \in ToSet(u) : Repeats(s, c, d)
  BY <1>s DEF StagesOk
<1>3. \A c \in ToSet(u) \ ToSet(l) :
            /\ MaxPerDoc > 0 /\ \E d \in ToSet(a) : DocOf[d] # DocOf[c]
            /\ Cardinality({d \in OfDoc(l, DocOf[c]) : Before(s, d, c)}) >= MaxPerDoc
  BY <1>s DEF StagesOk
<1>5. /\ r \in Seq(Chunks) /\ Len(r) <= TopK /\ (Len(l) <= TopK => r = l)
      /\ (Len(l) > TopK => Len(r) = TopK)
  BY <1>0, <1>1, <1>4, Beginning
<1>6. /\ Distinct(r) /\ ToSet(r) \in SUBSET ToSet(l)
      /\ \A x \in ToSet(r) : At(r, x) = At(l, x)
      /\ \A x \in ToSet(l), y \in ToSet(r) : At(l, x) < At(l, y) => x \in ToSet(r)
  BY <1>0, <1>1, <1>4, BeginningOf
<1>7. r \in Lists(TopK)
  BY <1>0, <1>5, <1>6, ListsAre
<1>8. r = l \/ Len(r) = TopK
  <2>1. Len(l) \in Nat
    BY <1>1
  <2> QED
    BY <1>0, <1>5, <2>1
<1>9. \A x \in ToSet(a) : At(Ranked(s), x) \in 1..Len(Ranked(s)) /\ x \in Chunks
  BY <1>1, PlaceOf
<1>10. Len(Ranked(s)) \in Nat
  BY <1>1
<1>11. ASSUME NEW i \in DOMAIN r, NEW j \in DOMAIN r, i < j PROVE Before(s, r[i], r[j])
  <2>1. DOMAIN r = 1..Len(r) /\ r[i] \in ToSet(r) /\ r[j] \in ToSet(r)
    BY <1>5 DEF ToSet
  <2>2. i = At(r, r[i]) /\ j = At(r, r[j])
    BY <1>5, <1>6, <2>1, PlaceOf
  <2>3. At(l, r[i]) < At(l, r[j])
    BY <1>6, <1>11, <2>1, <2>2
  <2> QED
    BY <1>1, <1>6, <2>1, <2>3 DEF SameOrder, Before
<1> DEFINE CutOff(c) == Len(r) = TopK /\ \A d \in ToSet(r) : Before(s, d, c)
\* What follows a member that was cut off was cut off.
<1>12. ASSUME NEW d \in ToSet(l) \ ToSet(r) PROVE CutOff(d)
  <2>1. Len(r) = TopK
    BY <1>8, <1>12
  <2>2. ASSUME NEW y \in ToSet(r) PROVE Before(s, y, d)
    <3>1. y \in ToSet(l) /\ y # d /\ ~(At(l, d) < At(l, y))
      BY <1>6, <1>12, <2>2
    <3>2. /\ At(l, d) \in 1..Len(l) /\ l[At(l, d)] = d /\ At(l, y) \in 1..Len(l) /\ l[At(l, y)] = y
          /\ Len(l) \in Nat
      BY <1>1, <1>12, <3>1, PlaceOf
    <3>3. At(l, d) # At(l, y)
      BY <3>1, <3>2
    <3>4. At(l, y) < At(l, d)
      BY <3>1, <3>2, <3>3
    <3> QED
      BY <1>1, <1>12, <3>1, <3>4 DEF SameOrder, Before
  <2> QED
    BY <2>1, <2>2
<1>13. ASSUME NEW c \in ToSet(a), NEW d \in ToSet(a), CutOff(d), Before(s, d, c) PROVE CutOff(c)
  <2>1. Len(r) = TopK
    BY <1>13
  <2>2. ASSUME NEW y \in ToSet(r) PROVE Before(s, y, c)
    <3>1. y \in ToSet(a)
      BY <1>1, <1>6, <2>2
    <3> DEFINE Y == At(Ranked(s), y)
               D == At(Ranked(s), d)
               C == At(Ranked(s), c)
    <3>2. Y \in 1..Len(Ranked(s)) /\ D \in 1..Len(Ranked(s)) /\ C \in 1..Len(Ranked(s))
      BY <1>9, <1>13, <3>1
    <3>3. Y < D /\ D < C
      BY <1>13, <2>2 DEF Before
    <3> HIDE DEF Y, D, C
    <3>4. Y < C
      BY <1>10, <3>2, <3>3
    <3> QED
      BY <3>4 DEF Before, Y, C
  <2> QED
    BY <2>1, <2>2
<1>14. ASSUME NEW c \in ToSet(u) \ ToSet(l) PROVE ShareTaken(s, c) \/ CutOff(c)
  <2> DEFINE W == {d \in OfDoc(l, DocOf[c]) : Before(s, d, c)}
  <2>1. CASE W \in SUBSET ToSet(r)
    <3>1. W = {d \in OfDoc(r, DocOf[c]) : Before(s, d, c)}
      BY <1>6, <2>1 DEF OfDoc
    <3>2. \E d \in ToSet(s.cand) : Scored(s, d) /\ DocOf[d] # DocOf[c]
      BY <1>1, <1>3, <1>14
    <3>3. MaxPerDoc > 0 /\ Cardinality(W) >= MaxPerDoc
      BY <1>3, <1>14
    <3> QED
      BY <3>1, <3>2, <3>3 DEF ShareTaken, r
  <2>2. CASE W \notin SUBSET ToSet(r)
    <3>1. PICK d \in W : d \notin ToSet(r)
      BY <2>2
    <3>2. d \in ToSet(l) \ ToSet(r) /\ Before(s, d, c)
      BY <3>1 DEF OfDoc
    <3>3. CutOff(d) /\ d \in ToSet(a) /\ c \in ToSet(a)
      BY <1>1, <1>12, <1>14, <3>2
    <3> QED
      BY <1>13, <3>2, <3>3
  <2> QED
    BY <2>1, <2>2
<1>15. ASSUME NEW c \in ToSet(s.cand) \ ToSet(r), Scored(s, c) PROVE LeftOut(s, c)
  <2>1. c \in ToSet(a)
    BY <1>1, <1>15
  <2>2. CutOff(c) => LeftOut(s, c)
    BY DEF LeftOut, r
  <2>3. ShareTaken(s, c) => LeftOut(s, c)
    BY DEF LeftOut
  <2>4. CASE c \notin ToSet(u)
    <3>1. PICK d \in ToSet(u) : Repeats(s, c, d)
      BY <1>2, <2>1, <2>4
    <3>2. d \in ToSet(a) /\ Before(s, d, c)
      BY <1>1, <3>1 DEF Repeats
    <3>3. CutOff(d) => LeftOut(s, c)
      BY <1>13, <2>1, <2>2, <3>2
    <3>4. CASE d \in ToSet(r)
      BY <3>1, <3>4 DEF LeftOut, r
    <3>5. CASE d \in ToSet(l) \ ToSet(r)
      BY <1>12, <3>3, <3>5
    <3>6. CASE d \notin ToSet(l)
      <4>1. ShareTaken(s, d) \/ CutOff(d)
        BY <1>14, <3>6
      <4>2. d \in ToSet(s.cand) /\ Scored(s, d)
        BY <1>1, <3>2
      <4>3. ShareTaken(s, d) => LeftOut(s, c)
        BY <3>1, <4>2 DEF LeftOut
      <4> QED
        BY <3>3, <4>1, <4>3
    <3> QED
      BY <3>4, <3>5, <3>6
  <2>5. CASE c \in ToSet(u) \ ToSet(l)
    BY <1>14, <2>2, <2>3, <2>5
  <2>6. CASE c \in ToSet(l)
    BY <1>12, <1>15, <2>2, <2>6
  <2> QED
    BY <2>4, <2>5, <2>6
<1>16. ASSUME NEW c \in ToSet(s.cand) \ ToSet(r) PROVE LeftOut(s, c)
  <2>1. CASE Scored(s, c)
    BY <1>15, <2>1
  <2>2. CASE ~Scored(s, c)
    BY <2>2 DEF LeftOut
  <2> QED
    BY <2>1, <2>2
<1>17. \A c \in ToSet(r) : c \in ToSet(s.cand) /\ Scored(s, c)
  BY <1>1, <1>6
<1>18. ASSUME r = <<>>, NEW c \in ToSet(s.cand), Scored(s, c) PROVE FALSE
  <2>1. ToSet(a) # {}
    BY <1>1, <1>18
  <2>2. l # <<>>
    BY <1>1, <2>1
  <2>3. Len(r) = 0
    BY <1>18
  <2> QED
    BY <1>0, <1>8, <1>18, <2>2, <2>3
<1> QED
  BY <1>7, <1>11, <1>16, <1>17, <1>18 DEF KeptInOrder, r

-----------------------------------------------------------------------------
(* The invariant of a search. *)

Early == {"idle", "vector", "bm25", "degrade", "merge"}

Late == {"expand", "done", "raised"}

SearchType ==
    [pc : Early \cup {"rerank", "post"} \cup Late, tx : {"ok", "aborted"},
     embedded : {"none", "query", "blended"},
     vector : Lists(VectorTopK) \union {Error}, bm25 : Lists(Bm25TopK) \union {Error},
     missing : SUBSET Chunks, cand : Lists(RrfTopK), pairs : Lists(RerankK) \union {NoPairs},
     hit : BOOLEAN, results : Lists(TopK)]

Unranked(s) == s.pairs = NoPairs /\ s.hit = FALSE

Merged(s) == s.cand = Candidates(s, s.missing)

\* What has been worked out at each point of a search.
Progress(s) ==
    \/ s.pc \in Early /\ s.cand = <<>> /\ s.results = <<>> /\ Unranked(s)
    \/ /\ s.pc = "done" /\ s.cand = <<>> /\ s.results = <<>> /\ Unranked(s)
       /\ Vectors(s) = <<>> /\ Words(s) = <<>>
    \/ s.pc = "rerank" /\ Merged(s) /\ s.results = <<>> /\ Unranked(s)
    \/ s.pc = "post" /\ Merged(s) /\ s.results = <<>> /\ RankedOf(s)
    \/ s.pc \in Late /\ Merged(s) /\ RankedOf(s) /\ s.results = Returned(s)

CacheOk ==
    \A input \in DOMAIN cache : input \in Lists(RerankK) /\ cache[input] \in Answers(input)

SearchInv ==
    /\ search \in SearchType
    /\ Progress(search)
    /\ search.pc = "raised" => search.tx = "aborted"
    /\ CacheOk

\* What the invariant says of a search where it is.
LEMMA SearchOk == SearchInv => RetrievalInv
<1> SUFFICES ASSUME SearchInv PROVE RetrievalInv
  OBVIOUS
<1> DEFINE s == search
<1>1. s \in SearchType /\ Progress(s) /\ CacheOk /\ (s.pc = "raised" => s.tx = "aborted")
  BY DEF SearchInv
<1>2. Recalled(s) /\ s.cand \in Lists(RrfTopK)
  BY <1>1 DEF SearchType, Recalled
<1>3. Unranked(s) => RankedOf(s)
  BY DEF Unranked, RankedOf
<1>4. RankedOf(s)
  BY <1>1, <1>3 DEF Progress
<1>5. RetrievalTypeOK
  <2>1. \A input \in DOMAIN cache : ToSet(cache[input]) \subseteq ToSet(input)
    <3> SUFFICES ASSUME NEW input \in DOMAIN cache PROVE ToSet(cache[input]) \subseteq ToSet(input)
      OBVIOUS
    <3>1. RerankK \in Nat /\ input \in Lists(RerankK) /\ cache[input] \in Answers(input)
      BY <1>1, Bounds DEF CacheOk
    <3>2. ToSet(cache[input]) \in SUBSET ToSet(input)
      BY <3>1, AnswersAre
    <3> QED
      BY <3>2
  <2> QED
    BY <1>1, <2>1 DEF RetrievalTypeOK, SearchType, Early, Late
<1>6. s.cand = <<>> \/ Merged(s)
  BY <1>1 DEF Progress
<1>7. s.cand = <<>> => ToSet(s.cand) = {} /\ ~ (Len(s.cand) > 1)
  BY EmptyList
<1>8. FusionKeepsOrder
  <2>1. Merged(s) => OrderKept(s)
    BY <1>2, FusionKeeps DEF Merged
  <2> QED
    BY <1>6, <1>7, <2>1 DEF FusionKeepsOrder, OrderKept, Everything, Vectors, Words
<1>9. s.pc \in Late => (s.cand = <<>> /\ s.results = <<>>) \/ s.results = Returned(s)
  BY <1>1 DEF Progress, Early, Late
<1>10. NothingLostNeedlessly
  <2>1. ASSUME s.pc \in Late PROVE KeptInOrder(s)
    <3>1. CASE s.cand = <<>> /\ s.results = <<>>
      <4>1. ToSet(<<>>) = {} /\ DOMAIN <<>> = {}
        BY DEF ToSet
      <4> QED
        BY <3>1, <4>1 DEF KeptInOrder
    <3>2. CASE s.results = Returned(s)
      BY <1>2, <1>4, <3>2, ReturnedIs
    <3> QED
      BY <1>9, <2>1, <3>1, <3>2
  <2> QED
    BY <2>1 DEF NothingLostNeedlessly, Late, KeptInOrder
<1>11. CacheTransparent
  BY <1>4 DEF CacheTransparent, RankedOf
<1>12. AlwaysReranks
  <2>1. Merged(s) => ReranksAlways(s)
    BY <1>2, GapNeverSkips DEF Merged
  <2> QED
    BY <1>6, <1>7, <2>1 DEF AlwaysReranks, ReranksAlways
<1>13. FoundIsReturned
  <2>1. ASSUME s.pc = "done", s.results = <<>>, NEW c \in Everything(s)
        PROVE  \/ c \in s.missing
               \/ c \notin ToSet(Prefix(RrfFusion(s), RrfTopK))
               \/ s.pairs # NoPairs /\ ~Scored(s, c)
    <3>1. CASE Vectors(s) = <<>> /\ Words(s) = <<>>
      BY <3>1, EmptyList DEF Everything
    <3>2. CASE Merged(s) /\ s.results = Returned(s)
      <4> DEFINE best == Prefix(RrfFusion(s), RrfTopK)
      <4>1. ToSet(s.cand) = ToSet(best) \ s.missing
        BY <1>2, <3>2, CandidatesAre DEF Merged
      <4>2. \A x \in ToSet(s.cand) : ~Scored(s, x)
        BY <1>2, <1>4, <2>1, <3>2, ReturnedIs
      <4> HIDE DEF best
      <4>3. c \in s.missing \/ c \notin ToSet(best) \/ ~Scored(s, c)
        BY <4>1, <4>2
      <4>4. ~Scored(s, c) => s.pairs # NoPairs
        BY DEF Scored
      <4> QED
        BY <4>3, <4>4 DEF best
    <3>3. (Vectors(s) = <<>> /\ Words(s) = <<>>) \/ (Merged(s) /\ s.results = Returned(s))
      BY <1>1, <2>1 DEF Progress, Early
    <3> QED
      BY <3>1, <3>2, <3>3
  <2> QED
    BY <1>1, <2>1 DEF FoundIsReturned, Everything, Vectors, Words
<1> QED
  BY <1>5, <1>8, <1>10, <1>11, <1>12, <1>13 DEF RetrievalInv

\* The candidates depend on the two channels only.
LEMMA SameCandidates ==
    ASSUME NEW s, NEW r, s.vector = r.vector, s.bm25 = r.bm25, NEW m
    PROVE  Candidates(s, m) = Candidates(r, m)
<1>1. AllIds(s) = AllIds(r)
  BY DEF AllIds, OnlyBm25
<1>2. \A c : RrfScore(s, c) = RrfScore(r, c)
  BY DEF RrfScore
<1>3. RrfFusion(s) = RrfFusion(r)
  BY <1>1, <1>2 DEF RrfFusion
<1> QED
  BY <1>3 DEF Candidates

\* The final order depends on what was merged and reranked only.
LEMMA SameRank ==
    ASSUME NEW s, NEW r, s.cand = r.cand, s.pairs = r.pairs, s.hit = r.hit
    PROVE  (RankedOf(s) <=> RankedOf(r)) /\ Returned(s) = Returned(r)
<1>1. Input(s) = Input(r) /\ AboveThreshold(s) = AboveThreshold(r)
  BY DEF Input, AboveThreshold
<1> QED
  BY <1>1 DEF RankedOf, Returned

\* A search that begins has no lists yet.
LEMMA FreshType == Fresh \in SearchType
BY EmptyList, Bounds DEF Fresh, SearchType, Early

\* The invariant holds before the first search.
LEMMA SearchInit == RetrievalInit => SearchInv
<1> SUFFICES ASSUME RetrievalInit PROVE SearchInv
  OBVIOUS
<1>1. search = Fresh /\ DOMAIN cache = {}
  BY DEF RetrievalInit
<1>2. Progress(Fresh) /\ Fresh.pc = "idle"
  BY DEF Progress, Fresh, Unranked, Early
<1> QED
  BY <1>1, <1>2, FreshType DEF SearchInv, CacheOk

\* Each step of a search keeps the invariant: the query is embedded,
LEMMA EmbedQueryStep == SearchInv /\ Embed => SearchInv'
<1> SUFFICES ASSUME SearchInv, Embed PROVE SearchInv'
  OBVIOUS
<1>1. PICK e \in {"none"} \union {Blended(h) : h \in Hyde} :
         search' = [Fresh EXCEPT !.pc = "vector", !.embedded = e]
  BY DEF Embed
<1>2. e \in {"none", "query", "blended"}
  BY DEF Blended
<1>3. search' \in SearchType
  BY <1>1, <1>2, FreshType DEF SearchType, Early
<1>4. Progress(search') /\ search'.pc = "vector"
  BY <1>1 DEF Progress, Fresh, Unranked, Early
<1>5. cache' = cache
  BY DEF Embed
<1> QED
  BY <1>3, <1>4, <1>5 DEF SearchInv, CacheOk

\* the vector channel answers,
LEMMA VectorStep == SearchInv /\ VectorRecall => SearchInv'
<1> SUFFICES ASSUME SearchInv, VectorRecall PROVE SearchInv'
  OBVIOUS
<1>1. PICK outcome \in Outcomes, list \in Lists(VectorTopK) :
         search' = [search EXCEPT !.pc = "bm25", !.embedded = "none",
                       !.tx = TxAfter(search.embedded # "none", outcome),
                       !.vector = IF ~(search.embedded # "none") \/ Fails(outcome)
                                  THEN Error ELSE list]
  BY DEF VectorRecall
<1>2. search \in SearchType /\ Progress(search) /\ search.pc = "vector" /\ cache' = cache
  BY DEF SearchInv, VectorRecall
<1>3. search' \in SearchType
  <2> DEFINE tx == TxAfter(search.embedded # "none", outcome)
             rows == IF ~(search.embedded # "none") \/ Fails(outcome) THEN Error ELSE list
  <2>1. tx \in {"ok", "aborted"}
    BY <1>2 DEF TxAfter, SearchType
  <2>2. rows \in Lists(VectorTopK) \union {Error}
    OBVIOUS
  <2>3. search' = [search EXCEPT !.pc = "bm25", !.embedded = "none", !.tx = tx, !.vector = rows]
    BY <1>1
  <2> HIDE DEF tx, rows
  <2> QED
    BY <1>2, <2>1, <2>2, <2>3 DEF SearchType, Early
<1>4. search'.pc = "bm25" /\ search'.cand = search.cand /\ search'.results = search.results
      /\ search'.pairs = search.pairs /\ search'.hit = search.hit
  BY <1>1, <1>2 DEF SearchType
<1>5. Progress(search')
  BY <1>2, <1>4 DEF Progress, Unranked, Early, Late
<1> QED
  BY <1>2, <1>3, <1>4, <1>5 DEF SearchInv, CacheOk

\* the lexical channel answers,
LEMMA Bm25Step == SearchInv /\ Bm25Recall => SearchInv'
<1> SUFFICES ASSUME SearchInv, Bm25Recall PROVE SearchInv'
  OBVIOUS
<1>1. PICK terms \in BOOLEAN, outcome \in Outcomes, list \in Lists(Bm25TopK) :
         search' = [search EXCEPT !.pc = "degrade", !.tx = TxAfter(terms, outcome),
                       !.bm25 = IF terms /\ Fails(outcome) THEN Error ELSE list]
  BY DEF Bm25Recall
<1>2. search \in SearchType /\ Progress(search) /\ search.pc = "bm25" /\ cache' = cache
  BY DEF SearchInv, Bm25Recall
<1>3. search' \in SearchType
  <2> DEFINE tx == TxAfter(terms, outcome)
             rows == IF terms /\ Fails(outcome) THEN Error ELSE list
  <2>1. tx \in {"ok", "aborted"}
    BY <1>2 DEF TxAfter, SearchType
  <2>2. rows \in Lists(Bm25TopK) \union {Error}
    OBVIOUS
  <2>3. search' = [search EXCEPT !.pc = "degrade", !.tx = tx, !.bm25 = rows]
    BY <1>1
  <2> HIDE DEF tx, rows
  <2> QED
    BY <1>2, <2>1, <2>2, <2>3 DEF SearchType, Early
<1>4. search'.pc = "degrade" /\ search'.cand = search.cand /\ search'.results = search.results
      /\ search'.pairs = search.pairs /\ search'.hit = search.hit
  BY <1>1, <1>2 DEF SearchType
<1>5. Progress(search')
  BY <1>2, <1>4 DEF Progress, Unranked, Early, Late
<1> QED
  BY <1>2, <1>3, <1>4, <1>5 DEF SearchInv, CacheOk

\* a channel fails and the search goes on without it,
LEMMA DegradeStep == SearchInv /\ Degrade => SearchInv'
<1> SUFFICES ASSUME SearchInv, Degrade PROVE SearchInv'
  OBVIOUS
<1> DEFINE nothing == search.vector = search.bm25 /\ search.vector \in {Error, <<>>}
<1>1. search' = [search EXCEPT !.pc = IF nothing THEN "done" ELSE "merge"]
  BY DEF Degrade
<1>2. search \in SearchType /\ Progress(search) /\ search.pc = "degrade" /\ cache' = cache
  BY DEF SearchInv, Degrade
<1>3. nothing => Vectors(search) = <<>> /\ Words(search) = <<>>
  BY DEF Vectors, Words, ShortRows
<1> HIDE DEF nothing
<1>4. search' \in SearchType
  BY <1>1, <1>2 DEF SearchType, Early, Late
<1>5. /\ search'.pc = (IF nothing THEN "done" ELSE "merge")
      /\ search'.cand = search.cand /\ search'.results = search.results
      /\ search'.pairs = search.pairs /\ search'.hit = search.hit
      /\ search'.vector = search.vector /\ search'.bm25 = search.bm25
  BY <1>1, <1>2 DEF SearchType
<1>6. nothing => Vectors(search') = <<>> /\ Words(search') = <<>>
  BY <1>3, <1>5 DEF Vectors, Words
<1>7. Progress(search')
  BY <1>2, <1>5, <1>6 DEF Progress, Unranked, Early, Late
<1> QED
  BY <1>2, <1>4, <1>5, <1>7 DEF SearchInv, CacheOk

\* the channels are merged,
LEMMA MergeStep == SearchInv /\ Merge => SearchInv'
<1> SUFFICES ASSUME SearchInv, Merge PROVE SearchInv'
  OBVIOUS
<1> DEFINE ran == OnlyBm25(search) # {}
<1>1. PICK outcome \in Outcomes, missing \in SUBSET OnlyBm25(search) :
         search' = [search EXCEPT !.pc = "rerank", !.tx = TxAfter(ran, outcome),
                       !.missing = missing, !.cand = Candidates(search, missing)]
  BY DEF Merge
<1> HIDE DEF ran
<1>2. search \in SearchType /\ Progress(search) /\ search.pc = "merge" /\ cache' = cache
  BY DEF SearchInv, Merge
<1>3. Recalled(search)
  BY <1>2 DEF SearchType, Recalled
<1>4. Candidates(search, missing) \in Lists(RrfTopK)
  BY <1>3, CandidatesAre
<1>5. missing \in SUBSET Chunks
  <2>1. Words(search) \in Seq(Chunks)
    BY <1>3, RowsAre
  <2>2. OnlyBm25(search) \in SUBSET ToSet(Words(search))
    BY DEF OnlyBm25, Words
  <2> QED
    BY <2>1, <2>2, MembersAreChunks
<1>6. search' \in SearchType
  BY <1>1, <1>2, <1>4, <1>5 DEF SearchType, Early, TxAfter
<1>7. /\ search'.pc = "rerank" /\ search'.cand = Candidates(search, missing)
      /\ search'.missing = missing /\ search'.results = search.results
      /\ search'.pairs = search.pairs /\ search'.hit = search.hit
      /\ search'.vector = search.vector /\ search'.bm25 = search.bm25
  BY <1>1, <1>2 DEF SearchType
<1>8. Merged(search')
  BY <1>7, SameCandidates DEF Merged
<1>9. search.results = <<>> /\ Unranked(search)
  BY <1>2 DEF Progress, Early, Late
<1>10. Progress(search')
  BY <1>7, <1>8, <1>9 DEF Progress, Unranked
<1> QED
  BY <1>2, <1>6, <1>7, <1>10 DEF SearchInv, CacheOk

\* the candidates are reranked, by the cache or by the service, or are not,
LEMMA RerankStep == SearchInv /\ Rerank => SearchInv'
<1> SUFFICES ASSUME SearchInv, Rerank PROVE SearchInv'
  OBVIOUS
<1> DEFINE input == Input(search)
<1>1. search \in SearchType /\ Progress(search) /\ search.pc = "rerank" /\ CacheOk
  BY DEF SearchInv, Rerank
<1>2. /\ Merged(search) /\ search.results = <<>> /\ search.pairs = NoPairs
      /\ search.hit = FALSE /\ search.cand \in Lists(RrfTopK)
  BY <1>1 DEF Progress, Early, Late, Unranked, SearchType
<1>3. RerankK \in Nat /\ input \in Lists(RerankK) /\ ToSet(input) \in SUBSET ToSet(search.cand)
  BY <1>2, Bounds, InputIs
<1>4. CASE search' = [search EXCEPT !.pc = "post"] /\ cache' = cache
  <2>1. search' \in SearchType
    BY <1>1, <1>4 DEF SearchType, Early
  <2>2. /\ search'.pc = "post" /\ search'.cand = search.cand /\ search'.missing = search.missing
        /\ search'.results = <<>> /\ search'.pairs = NoPairs /\ search'.hit = FALSE
        /\ search'.vector = search.vector /\ search'.bm25 = search.bm25
    BY <1>1, <1>2, <1>4 DEF SearchType
  <2>3. Merged(search')
    BY <1>2, <2>2, SameCandidates DEF Merged
  <2>4. RankedOf(search')
    BY <2>2 DEF RankedOf
  <2>5. Progress(search')
    BY <2>2, <2>3, <2>4 DEF Progress
  <2> QED
    BY <1>1, <1>4, <2>1, <2>2, <2>5 DEF SearchInv, CacheOk
<1>5. ASSUME NEW hit \in BOOLEAN, NEW pairs \in {NoPairs} \union Lists(RerankK),
             RunRerank(input, pairs, hit),
             search' = [search EXCEPT !.pc = "post", !.pairs = pairs, !.hit = hit]
      PROVE  SearchInv'
  <2>1. search' \in SearchType
    BY <1>1, <1>5 DEF SearchType, Early
  <2>2. /\ search'.pc = "post" /\ search'.cand = search.cand /\ search'.missing = search.missing
        /\ search'.results = <<>> /\ search'.pairs = pairs /\ search'.hit = hit
        /\ search'.vector = search.vector /\ search'.bm25 = search.bm25
    BY <1>1, <1>2, <1>5 DEF SearchType
  <2>3. Merged(search')
    BY <1>2, <2>2, SameCandidates DEF Merged
  <2>4. /\ hit => input \in DOMAIN cache /\ Len(cache[input]) = Len(input)
                  /\ pairs = cache[input] /\ cache' = cache
        /\ ~hit => \/ pairs \in Answers(input) /\ cache' \in {cache, Store(input, pairs)}
                   \/ pairs = NoPairs /\ cache' = cache
    BY <1>5 DEF RunRerank, CacheHit
  <2>5. hit => pairs \in Answers(input)
    BY <1>1, <2>4 DEF CacheOk
  <2>6. pairs # NoPairs => pairs \in Answers(input)
    BY <2>4, <2>5
  <2>7. pairs \in Answers(input) =>
           /\ pairs \in Lists(RerankK) /\ ToSet(pairs) \in SUBSET ToSet(search.cand)
           /\ Len(pairs) = Len(input) => pairs = Reranked(input, {})
    BY <1>3, AnswersAre
  <2>8. Input(search') = input
    BY <2>2 DEF Input
  <2>9. RankedOf(search')
    BY <2>2, <2>4, <2>5, <2>6, <2>7, <2>8 DEF RankedOf
  <2>10. CacheOk'
    <3>1. CASE cache' = cache
      BY <1>1, <3>1 DEF CacheOk
    <3>2. CASE pairs \in Answers(input) /\ cache' = Store(input, pairs)
      <4> HIDE DEF input
      <4>1. DOMAIN cache' = DOMAIN cache \union {input}
        BY <3>2 DEF Store
      <4>2. \A k \in DOMAIN cache' : cache'[k] = IF k = input THEN pairs ELSE cache[k]
        BY <3>2, <4>1 DEF Store
      <4> QED
        BY <1>1, <1>3, <3>2, <4>1, <4>2 DEF CacheOk
    <3> QED
      BY <2>4, <3>1, <3>2
  <2>11. Progress(search')
    BY <2>2, <2>3, <2>9 DEF Progress
  <2> QED
    BY <2>1, <2>2, <2>10, <2>11 DEF SearchInv
<1>6. UNION {Lists(k) : k \in {RerankK}} = Lists(RerankK)
  OBVIOUS
<1> QED
  BY <1>4, <1>5, <1>6 DEF Rerank

\* the ranking is cut to what is returned,
LEMMA PostStep == SearchInv /\ PostProcess => SearchInv'
<1> SUFFICES ASSUME SearchInv, PostProcess PROVE SearchInv'
  OBVIOUS
<1>1. search \in SearchType /\ Progress(search) /\ search.pc = "post" /\ cache' = cache
      /\ search' = [search EXCEPT !.pc = "expand", !.results = Returned(search)]
  BY DEF SearchInv, PostProcess
<1>2. Merged(search) /\ RankedOf(search) /\ search.cand \in Lists(RrfTopK)
  BY <1>1 DEF Progress, Early, Late, SearchType
<1>3. Returned(search) \in Lists(TopK)
  <2> DEFINE s == search'
  <2>1. /\ s.cand = search.cand /\ s.pairs = search.pairs /\ s.hit = search.hit
        /\ s.results = Returned(search)
    BY <1>1 DEF SearchType
  <2> HIDE DEF s
  <2>2. RankedOf(s) /\ s.results = Returned(s)
    BY <1>2, <2>1, SameRank
  <2>3. s.results \in Lists(TopK)
    BY <1>2, <2>1, <2>2, ReturnedIs
  <2> QED
    BY <2>1, <2>3
<1>4. search' \in SearchType
  BY <1>1, <1>3 DEF SearchType, Early, Late
<1>5. /\ search'.pc = "expand" /\ search'.cand = search.cand /\ search'.missing = search.missing
      /\ search'.results = Returned(search) /\ search'.pairs = search.pairs
      /\ search'.hit = search.hit /\ search'.vector = search.vector /\ search'.bm25 = search.bm25
  BY <1>1 DEF SearchType
<1>6. Merged(search')
  BY <1>2, <1>5, SameCandidates DEF Merged
<1>7. RankedOf(search') /\ Returned(search') = Returned(search)
  BY <1>2, <1>5, SameRank
<1>8. Progress(search')
  BY <1>5, <1>6, <1>7 DEF Progress, Late
<1> QED
  BY <1>1, <1>4, <1>5, <1>8 DEF SearchInv, CacheOk

\* and the results are expanded.
LEMMA ExpandStep == SearchInv /\ Expand => SearchInv'
<1> SUFFICES ASSUME SearchInv, Expand PROVE SearchInv'
  OBVIOUS
<1> DEFINE ran == search.results # <<>>
<1>1. PICK outcome \in Outcomes :
         search' = [search EXCEPT !.pc = IF ran /\ Fails(outcome) THEN "raised" ELSE "done",
                                  !.tx = TxAfter(ran, outcome)]
  BY DEF Expand
<1> HIDE DEF ran
<1>2. search \in SearchType /\ Progress(search) /\ search.pc = "expand" /\ cache' = cache
  BY DEF SearchInv, Expand
<1>3. Merged(search) /\ RankedOf(search) /\ search.results = Returned(search)
  BY <1>2 DEF Progress, Early
<1>4. search' \in SearchType
  BY <1>1, <1>2 DEF SearchType, Late, TxAfter
<1>5. /\ search'.pc = (IF ran /\ Fails(outcome) THEN "raised" ELSE "done")
      /\ search'.tx = TxAfter(ran, outcome)
      /\ search'.cand = search.cand /\ search'.missing = search.missing
      /\ search'.results = search.results /\ search'.pairs = search.pairs
      /\ search'.hit = search.hit /\ search'.vector = search.vector /\ search'.bm25 = search.bm25
  BY <1>1, <1>2 DEF SearchType
<1>6. Merged(search')
  BY <1>3, <1>5, SameCandidates DEF Merged
<1>7. RankedOf(search') /\ Returned(search') = Returned(search)
  BY <1>3, <1>5, SameRank
<1>8. Progress(search')
  BY <1>3, <1>5, <1>6, <1>7 DEF Progress, Late
<1>9. search'.pc = "raised" => search'.tx = "aborted"
  BY <1>2, <1>5 DEF Fails, TxAfter, SearchType
<1> QED
  BY <1>2, <1>4, <1>8, <1>9 DEF SearchInv, CacheOk

\* The invariant of RetrievalInv: every search keeps the order the channels agree on, loses
\* a candidate for a reason only, and is answered from the rerank cache as by the service.
THEOREM RetrievalKeeps == RetrievalSpec => []RetrievalInv
<1>1. SearchInv /\ [RetrievalNext]_retrievalVars => SearchInv'
  <2>1. SearchInv /\ UNCHANGED retrievalVars => SearchInv'
    BY DEF retrievalVars, SearchInv, CacheOk
  <2> QED
    BY <2>1, EmbedQueryStep, VectorStep, Bm25Step, DegradeStep, MergeStep, RerankStep, PostStep,
       ExpandStep DEF RetrievalNext
<1> QED
  BY <1>1, SearchInit, SearchOk, PTL DEF RetrievalSpec

-----------------------------------------------------------------------------
(* Blocks of a document. *)

ChunkType == [tokens : Nat, heading : BOOLEAN]

BlockType == (Nat \ {0}) \X Nat

AccType == [first : Nat \ {0}, size : Nat, tokens : Nat, blocks : Seq(BlockType)]

Width(block) == block[2] - block[1] + 1

\* Blocks that follow each other from chunk 1 up to the chunk before next.
Chain(blocks, next) ==
    /\ blocks # <<>> => blocks[1][1] = 1 /\ blocks[Len(blocks)][2] = next - 1
    /\ blocks = <<>> => next = 1
    /\ \A k \in 1..Len(blocks) :
          /\ blocks[k][2] < next /\ blocks[k][1] <= blocks[k][2]
          /\ Width(blocks[k]) <= MaxChildren
          /\ k < Len(blocks) => blocks[k + 1][1] = blocks[k][2] + 1

Filled(blocks, n) == \A k \in 1..n : Width(blocks[k]) >= LeastOf(MinChildren, MaxChildren)

\* After n chunks: full blocks, and a group of the chunks since.
Grouping(acc, n) ==
    /\ acc \in AccType
    /\ acc.first + acc.size = n + 1
    /\ acc.size <= MaxChildren
    /\ Chain(acc.blocks, acc.first)
    /\ Filled(acc.blocks, Len(acc.blocks))

\* What Append does to a sequence.
LEMMA AppendAt ==
    ASSUME NEW S, NEW s \in Seq(S), NEW x \in S
    PROVE  /\ Append(s, x) \in Seq(S) /\ Len(Append(s, x)) = Len(s) + 1
           /\ \A i \in 1..Len(s) : Append(s, x)[i] = s[i]
           /\ Append(s, x)[Len(s) + 1] = x
OBVIOUS

\* Flushing a group of allowed size makes it a block.
LEMMA Flushed ==
    ASSUME NEW acc \in AccType, acc.size \in 1..MaxChildren, Chain(acc.blocks, acc.first)
    PROVE  /\ Flush(acc) \in AccType
           /\ Flush(acc).first = acc.first + acc.size /\ Flush(acc).size = 0
           /\ Chain(Flush(acc).blocks, acc.first + acc.size)
           /\ Len(Flush(acc).blocks) = Len(acc.blocks) + 1
           /\ Filled(acc.blocks, Len(acc.blocks)) => Filled(Flush(acc).blocks, Len(acc.blocks))
           /\ Filled(acc.blocks, Len(acc.blocks)) /\ acc.size >= LeastOf(MinChildren, MaxChildren)
                => Filled(Flush(acc).blocks, Len(acc.blocks) + 1)
<1> USE ContextAssumption
<1> DEFINE b == <<acc.first, acc.first + acc.size - 1>>
           s == acc.blocks
           t == Append(s, b)
           n == Len(s)
<1>1. acc.first \in Nat \ {0} /\ acc.size \in Nat \ {0} /\ s \in Seq(BlockType) /\ n \in Nat
      /\ MaxChildren \in Nat /\ MinChildren \in Nat
  BY DEF AccType
<1>2. b \in BlockType /\ b[1] = acc.first /\ b[2] = acc.first + acc.size - 1
  BY <1>1 DEF BlockType
<1>3. Width(b) = acc.size /\ b[1] <= b[2] /\ b[2] < acc.first + acc.size
  BY <1>1, <1>2 DEF Width
<1>4. Flush(acc) = [first |-> acc.first + acc.size, size |-> 0, tokens |-> 0, blocks |-> t]
  BY <1>1 DEF Flush
<1> HIDE DEF b
<1>5. t \in Seq(BlockType) /\ Len(t) = n + 1 /\ (\A i \in 1..n : t[i] = s[i]) /\ t[n + 1] = b
  BY <1>1, <1>2, AppendAt
<1>6. Flush(acc) \in AccType
  BY <1>1, <1>4, <1>5 DEF AccType
<1>7. \A k \in 1..n : s[k] \in BlockType
  BY <1>1
<1>8. \A k \in 1..n + 1 : k \in 1..n \/ k = n + 1
  BY <1>1
<1>c. /\ s # <<>> => s[1][1] = 1 /\ s[n][2] = acc.first - 1
      /\ s = <<>> => acc.first = 1
      /\ \A k \in 1..n :
            /\ s[k][2] < acc.first /\ s[k][1] <= s[k][2]
            /\ Width(s[k]) <= MaxChildren
            /\ k < n => s[k + 1][1] = s[k][2] + 1
  BY DEF Chain
<1>e. s = <<>> <=> n = 0
  BY <1>1
<1> HIDE DEF t, n, s
<1>9. Chain(t, acc.first + acc.size)
  <2>1. t # <<>>
    BY <1>1, <1>5
  <2>2. t[1][1] = 1
    <3>1. CASE n = 0
      BY <1>c, <1>e, <1>2, <1>5, <3>1
    <3>2. CASE n # 0
      BY <1>c, <1>e, <1>1, <1>5, <3>2
    <3> QED
      BY <3>1, <3>2
  <2>3. t[Len(t)][2] = acc.first + acc.size - 1
    BY <1>2, <1>5
  <2>4. ASSUME NEW k \in 1..Len(t)
        PROVE  /\ t[k][2] < acc.first + acc.size /\ t[k][1] <= t[k][2]
               /\ Width(t[k]) <= MaxChildren
               /\ k < Len(t) => t[k + 1][1] = t[k][2] + 1
    <3>1. CASE k = n + 1
      BY <1>1, <1>3, <1>5, <3>1
    <3>2. CASE k \in 1..n
      <4>1. t[k] = s[k] /\ s[k] \in BlockType
        BY <1>5, <1>7, <3>2
      <4>2. t[k][2] < acc.first + acc.size /\ t[k][1] <= t[k][2] /\ Width(t[k]) <= MaxChildren
        <5>1. s[k][2] < acc.first /\ s[k][1] <= s[k][2] /\ Width(s[k]) <= MaxChildren
          BY <1>c, <3>2
        <5>2. s[k][2] \in Nat
          BY <4>1 DEF BlockType
        <5> QED
          BY <1>1, <4>1, <5>1, <5>2
      <4>3. t[k + 1][1] = t[k][2] + 1
        <5>1. CASE k < n
          <6>1. k + 1 \in 1..n
            BY <1>1, <3>2, <5>1
          <6>2. t[k + 1] = s[k + 1]
            BY <1>5, <6>1
          <6> QED
            BY <1>c, <3>2, <4>1, <5>1, <6>2
        <5>2. CASE k = n
          <6>1. s # <<>> /\ k + 1 = n + 1
            BY <1>1, <1>e, <3>2, <5>2
          <6>2. t[k + 1] = b /\ s[k][2] = acc.first - 1
            BY <1>c, <1>5, <5>2, <6>1
          <6> QED
            BY <1>1, <1>2, <4>1, <6>2
        <5> QED
          BY <1>1, <3>2, <5>1, <5>2
      <4> QED
        BY <4>2, <4>3
    <3> QED
      BY <1>5, <1>8, <3>1, <3>2
  <2> DEFINE next == acc.first + acc.size
  <2> HIDE DEF next
  <2>5. t[Len(t)][2] = next - 1
    BY <1>1, <2>3 DEF next
  <2>6. \A k \in 1..Len(t) :
          /\ t[k][2] < next /\ t[k][1] <= t[k][2] /\ Width(t[k]) <= MaxChildren
          /\ k < Len(t) => t[k + 1][1] = t[k][2] + 1
    BY <2>4 DEF next
  <2>7. Chain(t, next)
    BY <2>1, <2>2, <2>5, <2>6 DEF Chain
  <2> QED
    BY <2>7 DEF next
<1>10. Filled(s, n) => Filled(t, n)
  BY <1>5 DEF Filled
<1>11. Filled(s, n) /\ acc.size >= LeastOf(MinChildren, MaxChildren) => Filled(t, n + 1)
  BY <1>3, <1>5, <1>8 DEF Filled
<1> QED
  BY <1>4, <1>5, <1>6, <1>9, <1>10, <1>11 DEF s, n

\* A group that is flushed early is full enough.
LEMMA FlushedEarly ==
    ASSUME NEW n \in Nat, NEW acc, Grouping(acc, n), NEW cond \in BOOLEAN,
           cond => acc.size >= MinChildren \/ acc.size >= MaxChildren
    PROVE  Grouping(FlushIf(cond, acc), n) /\ (cond => FlushIf(cond, acc).size = 0)
           /\ (~cond => FlushIf(cond, acc) = acc)
<1> USE ContextAssumption
<1>1. CASE cond
  <2>1. acc \in AccType /\ acc.size \in 1..MaxChildren /\ Chain(acc.blocks, acc.first)
        /\ acc.first + acc.size = n + 1
        /\ acc.size >= LeastOf(MinChildren, MaxChildren) /\ Filled(acc.blocks, Len(acc.blocks))
    BY <1>1 DEF Grouping, AccType, LeastOf
  <2>2. FlushIf(cond, acc) = Flush(acc)
    BY <1>1 DEF FlushIf
  <2>3. /\ Flush(acc) \in AccType
        /\ Flush(acc).first = acc.first + acc.size /\ Flush(acc).size = 0
        /\ Chain(Flush(acc).blocks, acc.first + acc.size)
        /\ Len(Flush(acc).blocks) = Len(acc.blocks) + 1
        /\ Filled(Flush(acc).blocks, Len(acc.blocks) + 1)
    BY <2>1, Flushed
  <2>4. Grouping(Flush(acc), n)
    BY <2>1, <2>3 DEF Grouping
  <2> QED
    BY <1>1, <2>2, <2>3, <2>4
<1>2. CASE ~cond
  BY <1>2 DEF FlushIf
<1> QED
  BY <1>1, <1>2

\* One chunk more.
LEMMA AddedChunk ==
    ASSUME NEW n \in Nat, NEW acc, Grouping(acc, n), NEW chunk \in ChunkType
    PROVE  Grouping(AddChunk(acc, chunk), n + 1)
<1>0. MaxChildren \in Nat \ {0}
  BY ContextAssumption
<1> DEFINE a == FlushIf(chunk.heading /\ acc.size >= MinChildren, acc)
           b == FlushIf(Exceeds(a, chunk), a)
           c == [b EXCEPT !.size = @ + 1, !.tokens = @ + chunk.tokens]
           full == c.tokens >= TargetTokens /\ c.size >= MinChildren
<1>1. AddChunk(acc, chunk) = FlushIf(full, c)
  BY DEF AddChunk
<1>2. Grouping(a, n)
  BY FlushedEarly DEF ChunkType
<1> HIDE DEF a
<1>3. Exceeds(a, chunk) \in BOOLEAN /\ (Exceeds(a, chunk) => a.size >= MinChildren \/ a.size >= MaxChildren)
  BY DEF Exceeds
<1>4. /\ Grouping(b, n) /\ (Exceeds(a, chunk) => b.size = 0)
      /\ (~Exceeds(a, chunk) => b = a)
  BY <1>2, <1>3, FlushedEarly
<1> HIDE DEF b
<1>5. b.size < MaxChildren
  <2>1. a.size \in Nat /\ b.size \in Nat
    BY <1>2, <1>4 DEF Grouping, AccType
  <2> QED
    <3>1. CASE Exceeds(a, chunk)
      BY <1>0, <1>4, <3>1
    <3>2. CASE ~Exceeds(a, chunk)
      <4>1. b = a /\ ~(a.size >= MaxChildren)
        BY <1>4, <3>2 DEF Exceeds
      <4> QED
        BY <1>0, <2>1, <4>1
    <3> QED
      BY <3>1, <3>2
<1>6. Grouping(c, n + 1)
  <2>1. b \in AccType
    BY <1>4 DEF Grouping
  <2>2. /\ c \in AccType /\ c.size = b.size + 1
        /\ c.first = b.first /\ c.blocks = b.blocks
    <3> DEFINE size == b.size + 1
               tokens == b.tokens + chunk.tokens
    <3>1. size \in Nat /\ tokens \in Nat /\ c = [b EXCEPT !.size = size, !.tokens = tokens]
      BY <2>1 DEF AccType, ChunkType
    <3> HIDE DEF size, tokens, c
    <3>2. /\ c \in AccType /\ c.size = size /\ c.first = b.first /\ c.blocks = b.blocks
      <4>1. c = [first |-> b.first, size |-> size, tokens |-> tokens, blocks |-> b.blocks]
        BY <2>1, <3>1 DEF AccType
      <4>2. b.first \in Nat \ {0} /\ b.blocks \in Seq(BlockType)
        BY <2>1 DEF AccType
      <4> QED
        BY <3>1, <4>1, <4>2 DEF AccType
    <3> QED
      BY <3>2 DEF size
  <2>3. b.size \in Nat /\ b.first \in Nat
    BY <2>1 DEF AccType
  <2> HIDE DEF c
  <2> QED
    BY <1>0, <1>4, <1>5, <2>2, <2>3 DEF Grouping
<1> HIDE DEF c
<1>7. full \in BOOLEAN /\ (full => c.size >= MinChildren)
  OBVIOUS
<1> HIDE DEF full
<1> QED
  BY <1>1, <1>6, <1>7, FlushedEarly

\* The blocks of a document hold its chunks, one after the other.
LEMMA BlocksOfChunks ==
    ASSUME NEW chunks \in Seq(ChunkType)
    PROVE  /\ Blocks(chunks) \in Seq(BlockType)
           /\ Chain(Blocks(chunks), Len(chunks) + 1)
           /\ Filled(Blocks(chunks), Len(Blocks(chunks)) - 1)
<1> USE ContextAssumption
<1> DEFINE n == Len(chunks)
           Step(f) == f = [i \in 0..n |-> IF i = 0 THEN NoGroup ELSE AddChunk(f[i - 1], chunks[i])]
           f == CHOOSE g : Step(g)
           T == {i \in 0..n : Grouping(f[i], i)}
<1>0. n \in Nat /\ \A i \in 1..n : chunks[i] \in ChunkType
  OBVIOUS
<1>1. Blocks(chunks) = Flush(f[n]).blocks
  BY DEF Blocks
<1>2. Grouping(NoGroup, 0)
  BY DEF NoGroup, Grouping, AccType, Chain, Filled
<1> DEFINE B == AccType
           F == [i \in 1..n |-> [acc \in B |->
                    IF AddChunk(acc, chunks[i]) \in B THEN AddChunk(acc, chunks[i]) ELSE NoGroup]]
<1>3. NoGroup \in B
  BY <1>2 DEF Grouping
<1>4. F \in Steps(B, n)
  BY <1>3 DEF Steps
<1>5. \A i \in 1..n, acc \in B :
         F[i][acc] = IF AddChunk(acc, chunks[i]) \in B THEN AddChunk(acc, chunks[i]) ELSE NoGroup
  OBVIOUS
<1> HIDE DEF F, B, n
<1>6. PICK g : Follows(g, NoGroup, F, B, n)
  BY <1>0, <1>3, <1>4, Stepwise
<1>7. g \in [0..n -> B] /\ g[0] = NoGroup /\ \A i \in 1..n : g[i] = F[i][g[i - 1]]
  BY <1>6 DEF Follows
<1> DEFINE U == {i \in 0..n : Grouping(g[i], i)}
<1>8. ASSUME NEW i \in 1..n, Grouping(g[i - 1], i - 1)
      PROVE  g[i] = AddChunk(g[i - 1], chunks[i]) /\ Grouping(g[i], i)
  <2>1. i - 1 \in Nat /\ i - 1 + 1 = i /\ chunks[i] \in ChunkType /\ i - 1 \in 0..n
    BY <1>0
  <2>2. Grouping(AddChunk(g[i - 1], chunks[i]), i)
    BY <1>8, <2>1, AddedChunk
  <2>3. AddChunk(g[i - 1], chunks[i]) \in B /\ g[i - 1] \in B
    BY <1>7, <2>1, <2>2 DEF Grouping, B
  <2> QED
    BY <1>5, <1>7, <2>2, <2>3
<1>9. \A i \in 0..n : Grouping(g[i], i)
  <2> SUFFICES ASSUME NEW k \in 0..n PROVE k \in U
    OBVIOUS
  <2>1. 0 \in U
    BY <1>0, <1>2, <1>7
  <2>2. ASSUME NEW i \in 1..k, i - 1 \in U PROVE i \in U
    <3>1. i \in 1..n /\ i \in 0..n
      BY <1>0
    <3> QED
      BY <1>8, <2>2, <3>1
  <2> HIDE DEF U
  <2>3. Inductive(U, k) /\ k \in Nat
    BY <1>0, <2>1, <2>2 DEF Inductive
  <2> QED
    BY <2>3, UpTo
<1>10. Step(g)
  <2>1. ASSUME NEW i \in 0..n
        PROVE  g[i] = IF i = 0 THEN NoGroup ELSE AddChunk(g[i - 1], chunks[i])
    <3>1. CASE i = 0
      BY <1>7, <3>1
    <3>2. CASE i # 0
      <4>1. i \in 1..n /\ i - 1 \in 0..n
        BY <1>0, <3>2
      <4> QED
        BY <1>8, <1>9, <3>2, <4>1
    <3> QED
      BY <3>1, <3>2
  <2>2. g = [i \in 0..n |-> g[i]]
    BY <1>7
  <2> QED
    BY <2>1, <2>2
<1>11. Step(f)
  <2> HIDE DEF Step
  <2> QED
    BY <1>10
<1> HIDE DEF f
<1>12. \A i \in 0..n : f[i] = IF i = 0 THEN NoGroup ELSE AddChunk(f[i - 1], chunks[i])
  BY <1>11
<1>13. Grouping(f[n], n)
  <2>1. 0 \in T
    BY <1>0, <1>2, <1>12
  <2>2. ASSUME NEW i \in 1..n, i - 1 \in T PROVE i \in T
    <3>1. i - 1 \in Nat /\ i - 1 + 1 = i /\ chunks[i] \in ChunkType /\ i \in 0..n /\ i # 0
      BY <1>0 DEF n
    <3>2. Grouping(AddChunk(f[i - 1], chunks[i]), i)
      BY <2>2, <3>1, AddedChunk
    <3> QED
      BY <1>12, <3>1, <3>2
  <2> HIDE DEF T
  <2>3. Inductive(T, n)
    BY <2>1, <2>2 DEF Inductive
  <2> QED
    BY <1>0, <2>3, UpTo DEF T
<1> DEFINE acc == f[n]
<1>14. acc \in AccType /\ acc.first + acc.size = n + 1 /\ acc.size <= MaxChildren
       /\ Chain(acc.blocks, acc.first) /\ Filled(acc.blocks, Len(acc.blocks))
  BY <1>13 DEF Grouping
<1> HIDE DEF acc
<1>15. acc.size \in Nat /\ acc.first \in Nat /\ acc.blocks \in Seq(BlockType)
  BY <1>14 DEF AccType
<1>16. CASE acc.size = 0
  <2>1. Flush(acc) = acc /\ acc.first = n + 1
    BY <1>14, <1>15, <1>16 DEF Flush
  <2>2. Filled(acc.blocks, Len(acc.blocks) - 1)
    <3> DEFINE l == Len(acc.blocks)
    <3>1. l \in Nat /\ \A k \in 1..l - 1 : k \in 1..l
      BY <1>15
    <3> HIDE DEF l
    <3>2. Filled(acc.blocks, l - 1)
      BY <1>14, <3>1 DEF Filled, l
    <3> QED
      BY <3>2 DEF l
  <2> QED
    BY <1>1, <1>14, <1>15, <2>1, <2>2 DEF n, acc
<1>17. CASE acc.size # 0
  <2>1. acc.size \in 1..MaxChildren
    BY <1>14, <1>15, <1>17
  <2>2. /\ Flush(acc) \in AccType
        /\ Chain(Flush(acc).blocks, acc.first + acc.size)
        /\ Len(Flush(acc).blocks) = Len(acc.blocks) + 1
        /\ Filled(Flush(acc).blocks, Len(acc.blocks))
    BY <1>14, <2>1, Flushed
  <2>3. Len(acc.blocks) + 1 - 1 = Len(acc.blocks)
    BY <1>15
  <2>4. Flush(acc).blocks \in Seq(BlockType)
    BY <2>2 DEF AccType
  <2> QED
    BY <1>1, <1>14, <2>2, <2>3, <2>4 DEF n, acc
<1> QED
  BY <1>16, <1>17

-----------------------------------------------------------------------------
(* The text given for a hit. *)

Cell == Docs \X Nat

\* n cells of a document, from cell lo on.
Stretch(doc, lo, n) == [i \in 1..n |-> <<doc, lo + i - 1>>]

\* A stretch is a text.
LEMMA StretchIsText ==
    ASSUME NEW doc \in Docs, NEW lo \in Nat \ {0}, NEW n \in Nat
    PROVE  /\ Stretch(doc, lo, n) \in Seq(Cell) /\ Len(Stretch(doc, lo, n)) = n
           /\ \A i \in 1..n : Stretch(doc, lo, n)[i] = <<doc, lo + i - 1>>
<1> DEFINE t == Stretch(doc, lo, n)
<1>1. \A i \in 1..n : t[i] = <<doc, lo + i - 1>> /\ <<doc, lo + i - 1>> \in Cell
  BY DEF Stretch, Cell
<1>2. DOMAIN t = 1..n /\ t = [i \in 1..n |-> t[i]]
  BY DEF Stretch
<1> HIDE DEF t
<1>3. t \in [1..n -> Cell]
  BY <1>1, <1>2
<1>4. t \in Seq(Cell) /\ Len(t) = n
  BY <1>2, <1>3
<1>5. \A i \in 1..n : t[i] = <<doc, lo + i - 1>>
  BY <1>1
<1> QED
  BY <1>4, <1>5 DEF t

\* Texts of the same cells are the same.
LEMMA SameText ==
    ASSUME NEW S, NEW s \in Seq(S), NEW t \in Seq(S), Len(s) = Len(t),
           \A i \in 1..Len(s) : s[i] = t[i]
    PROVE  s = t
OBVIOUS

\* A part of a text.
LEMMA PartOf ==
    ASSUME NEW S, NEW s \in Seq(S), NEW a \in Nat \ {0}, NEW b \in Nat, a <= b + 1, b <= Len(s)
    PROVE  /\ SubSeq(s, a, b) \in Seq(S) /\ Len(SubSeq(s, a, b)) = b - a + 1
           /\ \A i \in 1..b - a + 1 : SubSeq(s, a, b)[i] = s[a + i - 1]
OBVIOUS

\* A part of a stretch is a stretch.
LEMMA PartOfStretch ==
    ASSUME NEW doc \in Docs, NEW lo \in Nat \ {0}, NEW n \in Nat,
           NEW x \in Nat, NEW m \in Nat, x + m <= n
    PROVE  SubSeq(Stretch(doc, lo, n), x + 1, x + m) = Stretch(doc, lo + x, m)
<1> DEFINE t == Stretch(doc, lo, n)
           u == Stretch(doc, lo + x, m)
           b == x + m
<1>1. t \in Seq(Cell) /\ Len(t) = n /\ \A i \in 1..n : t[i] = <<doc, lo + i - 1>>
  BY StretchIsText
<1>2. u \in Seq(Cell) /\ Len(u) = m /\ \A i \in 1..m : u[i] = <<doc, lo + x + i - 1>>
  <2>1. lo + x \in Nat \ {0}
    OBVIOUS
  <2> QED
    BY <2>1, StretchIsText
<1> HIDE DEF t, u
<1> DEFINE v == SubSeq(t, x + 1, b)
<1>3. v \in Seq(Cell) /\ Len(v) = b - (x + 1) + 1 /\ \A i \in 1..b - (x + 1) + 1 : v[i] = t[x + 1 + i - 1]
  <2>1. x + 1 \in Nat \ {0} /\ b \in Nat /\ x + 1 <= b + 1 /\ b <= Len(t)
    BY <1>1
  <2> HIDE DEF b
  <2> QED
    BY <1>1, <2>1, PartOf
<1>4. b - (x + 1) + 1 = m
  OBVIOUS
<1>5. \A i \in 1..m : v[i] = u[i]
  <2> SUFFICES ASSUME NEW i \in 1..m PROVE v[i] = u[i]
    OBVIOUS
  <2>1. x + 1 + i - 1 = x + i /\ x + i \in 1..n /\ lo + (x + i) - 1 = lo + x + i - 1
    OBVIOUS
  <2> QED
    BY <1>1, <1>2, <1>3, <1>4, <2>1
<1> HIDE DEF v
<1>6. v = u
  BY <1>2, <1>3, <1>4, <1>5, SameText
<1> QED
  BY <1>6 DEF t, u, v

\* The two cells of a chunk.
LEMMA TwoCells ==
    ASSUME NEW doc \in Docs, NEW s \in Nat \ {0}
    PROVE  Cells(doc, s) = Stretch(doc, s, 2) /\ Cells(doc, s) \in Seq(Cell) /\ Len(Cells(doc, s)) = 2
           /\ Cells(doc, s)[1] = <<doc, s>> /\ Cells(doc, s)[2] = <<doc, s + 1>>
<1> DEFINE t == Cells(doc, s)
           u == Stretch(doc, s, 2)
<1>1. u \in Seq(Cell) /\ Len(u) = 2 /\ \A i \in 1..2 : u[i] = <<doc, s + i - 1>>
  BY StretchIsText
<1>2. t \in Seq(Cell) /\ Len(t) = 2 /\ t[1] = <<doc, s>> /\ t[2] = <<doc, s + 1>>
  BY DEF Cells, Cell
<1> HIDE DEF t, u
<1>3. u[1] = <<doc, s>> /\ u[2] = <<doc, s + 1>>
  <2>1. 1 \in 1..2 /\ 2 \in 1..2 /\ s + 1 - 1 = s /\ s + 2 - 1 = s + 1
    OBVIOUS
  <2> QED
    BY <1>1, <2>1
<1>4. \A i \in 1..2 : i = 1 \/ i = 2
  OBVIOUS
<1>5. t = u
  BY <1>1, <1>2, <1>3, <1>4, SameText
<1> QED
  BY <1>2, <1>5 DEF t, u

\* Of neighbouring chunks the common cell is kept once.
LEMMA NeighboursOverlap ==
    ASSUME NEW doc \in Docs, NEW s \in Nat \ {0}
    PROVE  RemoveOverlap(Cells(doc, s), Cells(doc, s + 1)) = Stretch(doc, s + 2, 1)
<1> DEFINE l == Cells(doc, s)
           r == Cells(doc, s + 1)
           most == LeastOf(LeastOf(Len(l), Len(r)), 3 * Overlap)
           shared == {n \in 0..most : EndsWith(l, SubSeq(r, 1, n))}
           n == CHOOSE m \in shared : \A k \in shared : k <= m
<1>0. s + 1 \in Nat \ {0} /\ s + 2 \in Nat \ {0} /\ s + 1 + 1 = s + 2 /\ Overlap \in Nat \ {0}
  BY ContextAssumption
<1>1. /\ l = Stretch(doc, s, 2) /\ l \in Seq(Cell) /\ Len(l) = 2
      /\ l[1] = <<doc, s>> /\ l[2] = <<doc, s + 1>>
      /\ r = Stretch(doc, s + 1, 2) /\ r \in Seq(Cell) /\ Len(r) = 2
      /\ r[1] = <<doc, s + 1>> /\ r[2] = <<doc, s + 2>>
  BY <1>0, TwoCells
<1>2. RemoveOverlap(l, r) = SubSeq(r, n + 1, Len(r))
  BY DEF RemoveOverlap
<1> HIDE DEF l, r
<1>3. most = 2
  <2>1. LeastOf(Len(l), Len(r)) = 2
    BY <1>1 DEF LeastOf
  <2>2. 2 <= 3 * Overlap
    BY <1>0
  <2> QED
    BY <2>1, <2>2 DEF LeastOf
<1>4. 1 \in shared
  <2>1. SubSeq(r, 1, 1) \in Seq(Cell) /\ Len(SubSeq(r, 1, 1)) = 1 /\ SubSeq(r, 1, 1)[1] = <<doc, s + 1>>
    BY <1>1
  <2>2. SubSeq(l, 2, 2) \in Seq(Cell) /\ Len(SubSeq(l, 2, 2)) = 1 /\ SubSeq(l, 2, 2)[1] = <<doc, s + 1>>
    BY <1>1
  <2>3. SubSeq(r, 1, 1) = SubSeq(l, 2, 2)
    BY <2>1, <2>2, SameText
  <2>4. EndsWith(l, SubSeq(r, 1, 1))
    BY <1>1, <2>1, <2>3 DEF EndsWith
  <2> QED
    BY <1>3, <2>4
<1>5. 2 \notin shared
  <2>1. SubSeq(r, 1, 2) \in Seq(Cell) /\ Len(SubSeq(r, 1, 2)) = 2 /\ SubSeq(r, 1, 2)[1] = <<doc, s + 1>>
    BY <1>1
  <2>2. SubSeq(l, 1, 2)[1] = <<doc, s>>
    BY <1>1
  <2>3. <<doc, s>> # <<doc, s + 1>>
    OBVIOUS
  <2>4. ~EndsWith(l, SubSeq(r, 1, 2))
    BY <1>1, <2>1, <2>2, <2>3 DEF EndsWith
  <2> QED
    BY <2>4
<1>6. \A k \in shared : k \in 0..2
  BY <1>3
<1> HIDE DEF shared
<1>7. n = 1
  <2>1. \A k \in shared : k <= 1
    BY <1>5, <1>6
  <2>2. n \in shared /\ \A k \in shared : k <= n
    BY <1>4, <2>1
  <2>3. n \in 0..2
    BY <1>6, <2>2
  <2> QED
    BY <1>4, <2>1, <2>2, <2>3
<1> HIDE DEF n
<1>8. SubSeq(r, 2, 2) = Stretch(doc, s + 2, 1)
  <2> DEFINE q == s + 1
  <2>1. q \in Nat \ {0} /\ 1 \in Nat /\ 2 \in Nat /\ 1 + 1 = 2 /\ 2 <= 2 /\ q + 1 = s + 2
    BY <1>0
  <2> HIDE DEF q
  <2>p. \A x, m \in Nat : x + m <= 2 =>
           SubSeq(Stretch(doc, q, 2), x + 1, x + m) = Stretch(doc, q + x, m)
    BY <2>1, PartOfStretch
  <2>2. SubSeq(Stretch(doc, q, 2), 1 + 1, 1 + 1) = Stretch(doc, q + 1, 1)
    BY <2>1, <2>p
  <2> QED
    BY <1>1, <2>1, <2>2 DEF q
<1> QED
  BY <1>1, <1>2, <1>7, <1>8 DEF l, r

\* A stretch and the cell behind it.
LEMMA StretchFurther ==
    ASSUME NEW doc \in Docs, NEW lo \in Nat \ {0}, NEW n \in Nat
    PROVE  Stretch(doc, lo, n) \o Stretch(doc, lo + n, 1) = Stretch(doc, lo, n + 1)
<1> DEFINE t == Stretch(doc, lo, n)
           u == Stretch(doc, lo + n, 1)
           v == Stretch(doc, lo, n + 1)
           w == t \o u
<1>0. lo + n \in Nat \ {0} /\ n + 1 \in Nat /\ lo + n + 1 - 1 = lo + n /\ 1 \in 1..1
  OBVIOUS
<1>1. t \in Seq(Cell) /\ Len(t) = n /\ \A i \in 1..n : t[i] = <<doc, lo + i - 1>>
  BY StretchIsText
<1>2. u \in Seq(Cell) /\ Len(u) = 1 /\ u[1] = <<doc, lo + n>>
  <2> DEFINE q == lo + n
  <2>1. q \in Nat \ {0} /\ 1 \in Nat /\ q + 1 - 1 = q
    BY <1>0
  <2> HIDE DEF q
  <2>2. /\ Stretch(doc, q, 1) \in Seq(Cell) /\ Len(Stretch(doc, q, 1)) = 1
        /\ \A i \in 1..1 : Stretch(doc, q, 1)[i] = <<doc, q + i - 1>>
    BY <2>1, StretchIsText
  <2>3. Stretch(doc, q, 1)[1] = <<doc, q>>
    BY <1>0, <2>1, <2>2
  <2> QED
    BY <2>2, <2>3 DEF q
<1>3. v \in Seq(Cell) /\ Len(v) = n + 1 /\ \A i \in 1..n + 1 : v[i] = <<doc, lo + i - 1>>
  BY <1>0, StretchIsText
<1> HIDE DEF t, u, v
<1>4. w \in Seq(Cell) /\ Len(w) = n + 1
      /\ \A i \in 1..n + 1 : w[i] = IF i <= n THEN t[i] ELSE u[i - n]
  <2>1. t \in Seq(Cell) /\ u \in Seq(Cell) /\ Len(t) = n /\ Len(u) = 1
    BY <1>1, <1>2
  <2>2. /\ w \in Seq(Cell) /\ Len(w) = Len(t) + Len(u)
        /\ \A i \in 1..Len(t) + Len(u) : w[i] = IF i <= Len(t) THEN t[i] ELSE u[i - Len(t)]
    BY <2>1, PutBehind
  <2> HIDE DEF w
  <2> QED
    BY <2>1, <2>2
<1>5. \A i \in 1..n + 1 : w[i] = v[i]
  <2> SUFFICES ASSUME NEW i \in 1..n + 1 PROVE w[i] = v[i]
    OBVIOUS
  <2>1. CASE i = n + 1
    <3>1. i - n = 1 /\ ~(i <= n) /\ lo + i - 1 = lo + n
      BY <2>1
    <3> QED
      BY <1>2, <1>3, <1>4, <3>1
  <2>2. CASE i # n + 1
    <3>1. i \in 1..n /\ i <= n
      BY <2>2
    <3> QED
      BY <1>1, <1>3, <1>4, <3>1
  <2> QED
    BY <2>1, <2>2
<1> HIDE DEF w
<1>6. w = v
  BY <1>3, <1>4, <1>5, SameText
<1> QED
  BY <1>6 DEF t, u, v, w

\* Chunks lo to hi one after the other.
LEMMA ChunksJoined ==
    ASSUME NEW doc \in Docs, NEW lo \in Nat \ {0}, NEW hi \in Nat, lo <= hi
    PROVE  Concat(doc, lo, hi) = Stretch(doc, lo, hi - lo + 2)
<1> DEFINE Next1(f, s) == IF s = lo THEN Cells(doc, lo)
                          ELSE f[s - 1] \o RemoveOverlap(Cells(doc, s - 1), Cells(doc, s))
           Step(f) == f = [s \in lo..hi |-> Next1(f, s)]
           f == CHOOSE h : Step(h)
           g == [s \in lo..hi |-> Stretch(doc, lo, s - lo + 2)]
           T == {s \in lo..hi : f[s] # g[s]}
<1>1. Concat(doc, lo, hi) = f[hi]
  BY DEF Concat
<1>2. \A s \in lo..hi : g[s] = Stretch(doc, lo, s - lo + 2)
  OBVIOUS
<1>3. DOMAIN g = lo..hi /\ g = [s \in lo..hi |-> g[s]]
  OBVIOUS
<1> HIDE DEF g
<1>4. ASSUME NEW s \in lo..hi PROVE g[s] = Next1(g, s)
  <2>1. CASE s = lo
    <3>1. s - lo + 2 = 2
      BY <2>1
    <3> QED
      BY <1>2, <2>1, <3>1, TwoCells
  <2>2. CASE s # lo
    <3>1. s - 1 \in lo..hi /\ s - 1 \in Nat \ {0} /\ s - 1 + 1 = s /\ s - 1 + 2 = s + 1
      BY <2>2
    <3>2. RemoveOverlap(Cells(doc, s - 1), Cells(doc, s)) = Stretch(doc, s + 1, 1)
      BY <3>1, NeighboursOverlap
    <3> DEFINE n == s - 1 - lo + 2
    <3>3. n \in Nat /\ lo + n = s + 1 /\ n + 1 = s - lo + 2
      BY <3>1
    <3>4. g[s - 1] = Stretch(doc, lo, n)
      BY <1>2, <3>1
    <3> HIDE DEF n
    <3>5. Stretch(doc, lo, n) \o Stretch(doc, lo + n, 1) = Stretch(doc, lo, n + 1)
      BY <3>3, StretchFurther
    <3> QED
      BY <1>2, <2>2, <3>2, <3>3, <3>4, <3>5
  <2> QED
    BY <2>1, <2>2
<1>5. Step(g)
  BY <1>3, <1>4
<1>6. Step(f)
  <2> HIDE DEF Step
  <2> QED
    BY <1>5
<1> HIDE DEF f
<1>7. \A s \in lo..hi : f[s] = Next1(f, s)
  BY <1>6
<1>8. T \in SUBSET Nat /\ \A s : s \in T <=> s \in lo..hi /\ f[s] # g[s]
  OBVIOUS
<1> HIDE DEF T, Step
<1>9. T = {}
  <2> SUFFICES ASSUME T # {} PROVE FALSE
    OBVIOUS
  <2>1. PICK s \in T : \A x \in T : s <= x
    BY <1>8, LeastNat
  <2>2. s \in lo..hi /\ f[s] # g[s]
    BY <1>8
  <2>3. s # lo
    BY <1>4, <1>7, <2>2
  <2>4. s - 1 \in lo..hi /\ ~(s <= s - 1)
    BY <2>2, <2>3
  <2>5. f[s - 1] = g[s - 1]
    BY <1>8, <2>1, <2>4
  <2>6. Next1(f, s) = Next1(g, s)
    BY <2>5
  <2> QED
    BY <1>4, <1>7, <2>2, <2>6
<1>10. hi \in lo..hi
  OBVIOUS
<1> QED
  BY <1>1, <1>2, <1>8, <1>9, <1>10

\* Chunk s of a document is among the n cells from cell lo on, behind x of them.
Inside(doc, lo, n, x, s) ==
    /\ doc \in Docs /\ lo \in Nat \ {0} /\ n \in Nat /\ x \in Nat
    /\ x + 2 <= n /\ s = lo + x

\* The chunk that was hit is found where it is.
LEMMA HitFound ==
    ASSUME NEW doc, NEW lo, NEW n, NEW x, NEW s, Inside(doc, lo, n, x, s)
    PROVE  /\ HitWindow(Stretch(doc, lo, n), Cells(doc, s))[1] = x
           /\ HitWindow(Stretch(doc, lo, n), Cells(doc, s))[2] = x + 2
           /\ \A i \in Nat : StartsAt(Stretch(doc, lo, n), Cells(doc, s), i) <=> i = x
<1> DEFINE full == Stretch(doc, lo, n)
           hit == Cells(doc, s)
           found == {i \in 0..Len(full) : StartsAt(full, hit, i)}
<1>0. /\ doc \in Docs /\ lo \in Nat \ {0} /\ n \in Nat /\ x \in Nat
      /\ x + 2 <= n /\ s = lo + x /\ lo + x \in Nat \ {0}
  BY DEF Inside
<1>1. Len(full) = n /\ full \in Seq(Cell)
  BY <1>0, StretchIsText
<1>2. /\ hit = Stretch(doc, lo + x, 2) /\ Len(hit) = 2 /\ hit \in Seq(Cell)
      /\ hit[1] = <<doc, lo + x>>
  <2> DEFINE q == lo + x
  <2>1. q \in Nat \ {0}
    BY <1>0
  <2> HIDE DEF q
  <2>2. Cells(doc, q) = Stretch(doc, q, 2) /\ Len(Cells(doc, q)) = 2 /\ Cells(doc, q) \in Seq(Cell)
        /\ Cells(doc, q)[1] = <<doc, q>>
    BY <1>0, <2>1, TwoCells
  <2> QED
    BY <1>0, <2>2 DEF q
<1>3. ASSUME NEW i \in Nat, i + 2 <= n
      PROVE  SubSeq(full, i + 1, i + 2) = Stretch(doc, lo + i, 2)
             /\ SubSeq(full, i + 1, i + 2)[1] = <<doc, lo + i>>
  <2>p. \A y, m \in Nat : y + m <= n => SubSeq(full, y + 1, y + m) = Stretch(doc, lo + y, m)
    BY <1>0, PartOfStretch
  <2>1. SubSeq(full, i + 1, i + 2) = Stretch(doc, lo + i, 2)
    <3> HIDE DEF full
    <3> QED
      BY <1>3, <2>p
  <2> DEFINE q == lo + i
  <2>2. q \in Nat \ {0}
    BY <1>0
  <2> HIDE DEF q
  <2>3. Cells(doc, q) = Stretch(doc, q, 2) /\ Cells(doc, q)[1] = <<doc, q>>
    BY <1>0, <2>2, TwoCells
  <2> QED
    BY <2>1, <2>3 DEF q
<1> HIDE DEF full, hit
<1>4. ASSUME NEW i \in Nat PROVE StartsAt(full, hit, i) <=> i = x
  <2>1. StartsAt(full, hit, i) <=> i + 2 <= n /\ SubSeq(full, i + 1, i + 2) = hit
    BY <1>1, <1>2 DEF StartsAt
  <2>2. StartsAt(full, hit, x)
    <3>1. x + 2 <= n /\ SubSeq(full, x + 1, x + 2) = hit
      BY <1>0, <1>2, <1>3
    <3> QED
      BY <1>0, <1>1, <1>2, <3>1 DEF StartsAt
  <2>3. StartsAt(full, hit, i) => i = x
    <3> SUFFICES ASSUME StartsAt(full, hit, i) PROVE i = x
      OBVIOUS
    <3>1. <<doc, lo + i>> = <<doc, lo + x>>
      BY <1>0, <1>2, <1>3, <2>1
    <3>2. lo + i = lo + x
      BY <3>1
    <3> QED
      BY <1>0, <3>2
  <2> QED
    BY <2>2, <2>3
<1>5. found = {x}
  <2>1. x \in 0..Len(full) /\ \A i \in 0..Len(full) : i \in Nat
    BY <1>0, <1>1
  <2> QED
    BY <1>4, <2>1
<1>6. HitWindow(full, hit) = <<x, x + 2>>
  <2>1. found # {} /\ (CHOOSE j \in found : \A k \in found : j <= k) = x
    BY <1>5
  <2> QED
    BY <1>2, <2>1 DEF HitWindow
<1>7. HitWindow(full, hit)[1] = x /\ HitWindow(full, hit)[2] = x + 2
  BY <1>0, <1>6
<1> QED
  BY <1>4, <1>7 DEF full, hit

\* What is cut out around the hit: cells of the text, at most MaxChars, the hit among them.
LEMMA CutAround ==
    ASSUME NEW doc, NEW lo, NEW n, NEW x, NEW s, Inside(doc, lo, n, x, s),
           NEW w, w[1] = x, w[2] = x + 2, NEW text, text = TruncateAround(Stretch(doc, lo, n), w)
    PROVE  \E b, m \in Nat :
              /\ b + m <= n /\ text = Stretch(doc, lo + b, m) /\ m <= MaxChars
              /\ MaxChars >= 2 => b <= x /\ x + 2 <= b + m
<1> DEFINE full == Stretch(doc, lo, n)
           M == MaxChars
           half == (M - 2) \div 2
           start == IF x > half THEN x - half ELSE 0
           end == LeastOf(n, start + M)
           begin == IF end - start < M THEN end - M ELSE start
<1>i. /\ doc \in Docs /\ lo \in Nat \ {0} /\ n \in Nat /\ x \in Nat /\ x + 2 <= n
  BY DEF Inside
<1>0. M \in Nat \ {0} /\ Len(full) = n
  BY <1>i, ContextAssumption, StretchIsText
<1>1. /\ n <= M => text = full
      /\ n > M /\ 2 >= M => text = SubSeq(full, x + 1, x + M)
      /\ ~ (n <= M) /\ ~ (n > M /\ 2 >= M) => text = SubSeq(full, begin + 1, end)
  <2> DEFINE Half(h) == (MaxChars - h) \div 2
             Start(h, y) == IF y > Half(h) THEN y - Half(h) ELSE 0
             End(h, y, l) == LeastOf(l, Start(h, y) + MaxChars)
             Begin(h, y, l) == IF End(h, y, l) - Start(h, y) < MaxChars
                               THEN End(h, y, l) - MaxChars ELSE Start(h, y)
             Text(h, y, l) ==
                 CASE l <= MaxChars -> full
                   [] l > MaxChars /\ h >= MaxChars -> SubSeq(full, y + 1, y + MaxChars)
                   [] OTHER -> SubSeq(full, Begin(h, y, l) + 1, End(h, y, l))
  <2>1. w[1] = x /\ w[2] - w[1] = 2
    BY <1>i
  <2>2. TruncateAround(full, w) = Text(w[2] - w[1], w[1], Len(full))
    BY DEF TruncateAround
  <2> HIDE DEF Text
  <2>3. TruncateAround(full, w) = Text(2, x, n)
    BY <1>i, <1>0, <2>1, <2>2
  <2>4. text = Text(2, x, n)
    BY <1>i, <2>3 DEF full
  <2>5. begin = Begin(2, x, n) /\ end = End(2, x, n)
    OBVIOUS
  <2> HIDE DEF begin, end, Begin, End
  <2>6. text = CASE n <= MaxChars -> full
                 [] n > MaxChars /\ 2 >= MaxChars -> SubSeq(full, x + 1, x + MaxChars)
                 [] OTHER -> SubSeq(full, begin + 1, end)
    BY <1>i, <2>4, <2>5 DEF Text
  <2>7. ~ (n <= MaxChars /\ n > MaxChars)
    BY <1>i, <1>0
  <2> QED
    BY <1>i, <2>6, <2>7
<1> HIDE DEF full, M
<1>2. \A b, m \in Nat : b + m <= n => SubSeq(full, b + 1, b + m) = Stretch(doc, lo + b, m)
  BY <1>i, PartOfStretch DEF full
<1>3. CASE n <= M
  <2>1. text = Stretch(doc, lo + 0, n) /\ 0 \in Nat /\ 0 + n = n
    BY <1>i, <1>1, <1>3 DEF full
  <2> QED
    BY <1>i, <1>0, <1>3, <2>1 DEF M
<1>4. CASE n > M /\ 2 >= M
  <2>1. x + M <= n /\ M \in Nat
    BY <1>i, <1>0, <1>4
  <2>2. text = Stretch(doc, lo + x, M)
    BY <1>i, <1>1, <1>2, <1>4, <2>1
  <2>3. M >= 2 => x <= x /\ x + 2 <= x + M
    BY <1>i, <1>0
  <2>4. M <= M
    BY <1>i, <1>0
  <2> QED
    BY <1>i, <2>1, <2>2, <2>3, <2>4 DEF M
<1>5. CASE n > M /\ M > 2
  <2>1. half \in Nat /\ 2 * half <= M - 2
    BY <1>i, <1>0, <1>5
  <2> HIDE DEF half
  <2>2. start \in Nat /\ start <= x /\ x <= start + half
    BY <1>i, <2>1
  <2> HIDE DEF start
  <2>3. end \in Nat /\ end <= n /\ end <= start + M /\ (end = n \/ end = start + M)
    BY <1>i, <1>0, <2>2 DEF LeastOf
  <2> HIDE DEF end
  <2>4. begin \in Nat /\ begin + M = end /\ begin <= start
    BY <1>i, <1>0, <1>5, <2>2, <2>3
  <2> HIDE DEF begin
  <2>5. x + 2 <= end
    <3>1. CASE end = n
      BY <1>i, <3>1
    <3>2. CASE end = start + M
      BY <1>i, <1>0, <2>1, <2>2, <3>2
    <3> QED
      BY <1>i, <2>3, <3>1, <3>2
  <2>6. text = SubSeq(full, begin + 1, begin + M)
    <3>1. ~ (n <= M) /\ ~ (n > M /\ 2 >= M)
      BY <1>i, <1>0, <1>5
    <3> QED
      BY <1>i, <1>1, <2>4, <3>1 DEF begin, end, start, half
  <2>7. begin + M <= n /\ M \in Nat
    BY <1>i, <1>0, <2>3, <2>4
  <2>8. text = Stretch(doc, lo + begin, M)
    BY <1>i, <1>2, <2>4, <2>6, <2>7
  <2>9. begin <= x /\ x + 2 <= begin + M /\ M <= M
    BY <1>i, <1>0, <2>2, <2>4, <2>5
  <2> QED
    BY <1>i, <2>4, <2>7, <2>8, <2>9 DEF M
<1>6. n <= M \/ (n > M /\ 2 >= M) \/ (n > M /\ M > 2)
  BY <1>i, <1>0
<1> QED
  BY <1>i, <1>3, <1>4, <1>5, <1>6

HasHit(text, doc, s) ==
    /\ text \in Seq(Cell) /\ Len(text) <= MaxChars
    /\ MaxChars >= 2 => \E k \in 0..MaxChars : StartsAt(text, Cells(doc, s), k)

\* The text given for a hit holds it.
LEMMA TextHasHit ==
    ASSUME NEW doc, NEW lo, NEW n, NEW x, NEW s, Inside(doc, lo, n, x, s),
           NEW full, full = Stretch(doc, lo, n)
    PROVE  HasHit(TruncateAround(full, HitWindow(full, Cells(doc, s))), doc, s)
<1> DEFINE text == TruncateAround(full, HitWindow(full, Cells(doc, s)))
<1> DEFINE w == HitWindow(full, Cells(doc, s))
<1>0. w[1] = x /\ w[2] = x + 2
  BY HitFound
<1>1. text = TruncateAround(Stretch(doc, lo, n), w)
  OBVIOUS
<1> HIDE DEF w
<1> HIDE DEF text
<1>2. PICK b \in Nat, m \in Nat :
              /\ b + m <= n /\ text = Stretch(doc, lo + b, m) /\ m <= MaxChars
              /\ MaxChars >= 2 => b <= x /\ x + 2 <= b + m
  BY <1>0, <1>1, CutAround
<1>i. /\ doc \in Docs /\ lo \in Nat \ {0} /\ n \in Nat /\ x \in Nat /\ x + 2 <= n /\ s = lo + x
  BY DEF Inside
<1> DEFINE q == lo + b
           k == x - b
<1>3. q \in Nat \ {0} /\ MaxChars \in Nat
  BY <1>i, ContextAssumption
<1>4. text = Stretch(doc, q, m)
  BY <1>2
<1>5. MaxChars >= 2 => k \in Nat /\ k + 2 <= m /\ q + k = s /\ k \in 0..MaxChars
  BY <1>i, <1>2, <1>3
<1> HIDE DEF q, k
<1>6. text \in Seq(Cell) /\ Len(text) = m
  BY <1>i, <1>3, <1>4, StretchIsText
<1>7. MaxChars >= 2 => StartsAt(text, Cells(doc, s), k)
  <2> SUFFICES ASSUME MaxChars >= 2 PROVE StartsAt(text, Cells(doc, s), k)
    OBVIOUS
  <2>1. k \in Nat /\ k + 2 <= m /\ q + k = s
    BY <1>5
  <2>2. Inside(doc, q, m, k, s)
    BY <1>i, <1>3, <2>1 DEF Inside
  <2>3. StartsAt(Stretch(doc, q, m), Cells(doc, s), k)
    BY <2>1, <2>2, HitFound
  <2> QED
    BY <1>4, <2>3
<1>8. HasHit(text, doc, s)
  BY <1>2, <1>5, <1>6, <1>7 DEF HasHit
<1> QED
  BY <1>8 DEF text

-----------------------------------------------------------------------------
(* The results of a search in their context. *)

IsPlace(p) ==
    p.doc \in Docs /\ p.seq \in Nat \ {0} /\ p.seq <= Len(context.drafts[p.doc])

ResultOk(r) ==
    /\ r.hit.doc \in Docs /\ r.hit.seq \in Nat \ {0} /\ r.known \in BOOLEAN
    /\ r.parent # {} => r.known
    /\ r.text \in Seq(Cell)

\* What a number finds is a chunk of its document.
KeptOk ==
    \A d \in DOMAIN context.kept :
        context.kept[d] \in Nat \ {0} /\ context.kept[d] <= Len(context.drafts[d])

\* The drafts of a document are chunks.
LEMMA DraftsAre ==
    ASSUME context.drafts \in [Docs -> Drafts], NEW doc \in Docs
    PROVE  context.drafts[doc] \in Seq(ChunkType)
BY ContextAssumption DEF ChunkType

\* The chunks from lo to hi, around the hit.
LEMMA SpanHasHit ==
    ASSUME NEW doc \in Docs, NEW lo \in Nat \ {0}, NEW hi \in Nat, NEW s \in Nat,
           lo <= s, s <= hi
    PROVE  HasHit(TruncateAround(Concat(doc, lo, hi), HitWindow(Concat(doc, lo, hi), Cells(doc, s))),
                  doc, s)
<1> DEFINE n == hi - lo + 2
           x == s - lo
<1>1. n \in Nat /\ x \in Nat /\ x + 2 <= n /\ s = lo + x /\ lo <= hi
  OBVIOUS
<1>2. Concat(doc, lo, hi) = Stretch(doc, lo, n)
  BY <1>1, ChunksJoined
<1> HIDE DEF n, x
<1>3. Inside(doc, lo, n, x, s)
  BY <1>1 DEF Inside
<1> QED
  BY <1>2, <1>3, TextHasHit

\* The chunk alone.
LEMMA OwnHasHit ==
    ASSUME NEW doc \in Docs, NEW s \in Nat \ {0}
    PROVE  HasHit(TruncateAround(Cells(doc, s), HitWindow(Cells(doc, s), Cells(doc, s))), doc, s)
<1>1. Inside(doc, s, 2, 0, s)
  BY DEF Inside
<1>2. Cells(doc, s) = Stretch(doc, s, 2)
  BY TwoCells
<1> QED
  BY <1>1, <1>2, TextHasHit

\* A block of a document that holds a chunk.
LEMMA BlockHolds ==
    ASSUME context.drafts \in [Docs -> Drafts], NEW doc \in Docs, NEW s \in Nat,
           NEW b \in BlockOf(doc, s)
    PROVE  /\ b[1] \in Nat \ {0} /\ b[2] \in Nat /\ b[1] <= s /\ s <= b[2]
           /\ b[2] <= Len(context.drafts[doc])
<1> DEFINE chunks == context.drafts[doc]
           blocks == Blocks(chunks)
<1>1. chunks \in Seq(ChunkType)
  BY DraftsAre
<1>2. b \in ToSet(blocks) /\ b[1] <= s /\ s <= b[2]
  BY DEF BlockOf
<1> HIDE DEF chunks
<1>3. blocks \in Seq(BlockType) /\ Chain(blocks, Len(chunks) + 1) /\ Len(chunks) \in Nat
  BY <1>1, BlocksOfChunks
<1> HIDE DEF blocks
<1>4. DOMAIN blocks = 1..Len(blocks) /\ \A k \in 1..Len(blocks) : blocks[k] \in BlockType
  BY <1>3
<1>5. PICK k \in 1..Len(blocks) : b = blocks[k]
  BY <1>2, <1>4 DEF ToSet
<1>6. b \in BlockType /\ b[2] < Len(chunks) + 1
  BY <1>3, <1>4, <1>5 DEF Chain
<1>7. b[1] \in Nat \ {0} /\ b[2] \in Nat
  BY <1>6 DEF BlockType
<1>8. b[2] <= Len(chunks)
  BY <1>3, <1>6, <1>7
<1> QED
  BY <1>2, <1>7, <1>8 DEF chunks

\* What a hit becomes.
LEMMA ExpandedOk ==
    ASSUME context.drafts \in [Docs -> Drafts], KeptOk, NEW hit, IsPlace(hit)
    PROVE  /\ Expanded(hit).hit = hit /\ ResultOk(Expanded(hit))
           /\ HasHit(Expanded(hit).text, hit.doc, Found(hit))
<1> DEFINE doc == hit.doc
           s == Found(hit)
           last == Len(context.drafts[doc])
           span == IF BlockOf(doc, s) = {} THEN <<s, s>>
                   ELSE CHOOSE b \in BlockOf(doc, s) : TRUE
           w == Around(doc)
           lo == IF span[1] > w THEN span[1] - w ELSE 1
           hi == LeastOf(last, span[2] + w)
           full == Concat(doc, lo, hi)
           own == Cells(doc, s)
           whole == TruncateAround(full, HitWindow(full, own))
           alone == TruncateAround(own, HitWindow(own, own))
<1>0. w \in Nat
  BY ContextAssumption DEF Around
<1>1. doc \in Docs /\ s \in Nat \ {0} /\ s <= last
  BY DEF IsPlace, KeptOk, Found
<1>2. last \in Nat
  BY <1>1, DraftsAre
<1>3. /\ span[1] \in Nat \ {0} /\ span[2] \in Nat /\ span[1] <= s /\ s <= span[2]
      /\ span[2] <= last
  <2>1. CASE BlockOf(doc, s) = {}
    <3>1. span[1] = s /\ span[2] = s
      BY <2>1
    <3> HIDE DEF span, last, s
    <3> QED
      BY <1>1, <3>1
  <2>2. CASE BlockOf(doc, s) # {}
    <3>1. span \in BlockOf(doc, s)
      BY <2>2
    <3> HIDE DEF span
    <3>2. s \in Nat
      BY <1>1
    <3> HIDE DEF s, doc
    <3> QED
      BY <1>1, <3>1, <3>2, BlockHolds DEF last
  <2> QED
    BY <2>1, <2>2
<1>4. Expanded(hit) = IF doc \in context.replaced
         THEN [hit |-> hit, parent |-> {}, known |-> FALSE, text |-> alone]
         ELSE [hit |-> hit, parent |-> BlockOf(doc, s), known |-> TRUE, text |-> whole]
  BY DEF Expanded
<1> HIDE DEF span, last, doc, s, w
<1>5. lo \in Nat \ {0} /\ hi \in Nat /\ lo <= s /\ s <= hi
  BY <1>0, <1>1, <1>2, <1>3 DEF LeastOf
<1> HIDE DEF lo, hi
<1>6. HasHit(whole, doc, s)
  <2>1. s \in Nat
    BY <1>1
  <2> QED
    BY <1>1, <1>5, <2>1, SpanHasHit
<1>7. HasHit(alone, doc, s)
  BY <1>1, OwnHasHit
<1> HIDE DEF whole, alone
<1> DEFINE r == Expanded(hit)
<1>8. r.hit = hit /\ r.known \in BOOLEAN /\ (r.parent # {} => r.known) /\ r.text \in {whole, alone}
  BY <1>4
<1> HIDE DEF r
<1>9. HasHit(r.text, doc, s)
  BY <1>6, <1>7, <1>8
<1>10. ResultOk(r)
  BY <1>8, <1>9 DEF ResultOk, HasHit, IsPlace
<1> QED
  BY <1>8, <1>9, <1>10 DEF r, doc, s

-----------------------------------------------------------------------------
(* The text of a group and the budget. *)

\* What is left of a text without its overlap is a text.
LEMMA WithoutOverlap ==
    ASSUME NEW left \in Seq(Cell), NEW right \in Seq(Cell)
    PROVE  RemoveOverlap(left, right) \in Seq(Cell)
<1> DEFINE most == LeastOf(LeastOf(Len(left), Len(right)), 3 * Overlap)
           shared == {n \in 0..most : EndsWith(left, SubSeq(right, 1, n))}
           n == CHOOSE m \in shared : \A k \in shared : k <= m
           T == {most - k : k \in shared}
<1>1. most \in Nat /\ most <= Len(right) /\ Len(left) \in Nat /\ Len(right) \in Nat
  <2>1. Len(left) \in Nat /\ Len(right) \in Nat /\ 3 * Overlap \in Nat
    BY ContextAssumption
  <2> DEFINE a == Len(left)
             b == Len(right)
             c == 3 * Overlap
  <2> HIDE DEF a, b, c
  <2>2. LeastOf(LeastOf(a, b), c) \in Nat /\ LeastOf(LeastOf(a, b), c) <= b
    BY <2>1 DEF LeastOf, a, b, c
  <2> QED
    BY <2>1, <2>2 DEF a, b, c
<1> HIDE DEF most
<1>2. 0 \in shared
  <2>1. SubSeq(right, 1, 0) = <<>> /\ SubSeq(left, Len(left) - 0 + 1, Len(left)) = <<>>
    BY <1>1
  <2>2. EndsWith(left, SubSeq(right, 1, 0))
    BY <1>1, <2>1 DEF EndsWith
  <2> QED
    BY <1>1, <2>2
<1>3. \A k \in shared : k \in Nat /\ k <= most
  BY <1>1
<1> HIDE DEF shared
<1>4. \E m \in shared : \A k \in shared : k <= m
  <2>1. T \in SUBSET Nat /\ T # {}
    BY <1>1, <1>2, <1>3
  <2>2. PICK d \in T : \A e \in T : d <= e
    BY <2>1, LeastNat
  <2>3. PICK m \in shared : d = most - m
    OBVIOUS
  <2>4. ASSUME NEW k \in shared PROVE k <= m
    <3>1. most - k \in T
      OBVIOUS
    <3>2. most - m <= most - k
      BY <2>2, <2>3, <3>1
    <3> QED
      BY <1>1, <1>3, <3>2
  <2> QED
    BY <2>4
<1>5. n \in shared
  BY <1>4
<1> HIDE DEF n
<1>6. n \in Nat /\ n <= Len(right)
  BY <1>1, <1>3, <1>5
<1>7. RemoveOverlap(left, right) = SubSeq(right, n + 1, Len(right))
  BY DEF RemoveOverlap, n, shared, most
<1>8. SubSeq(right, n + 1, Len(right)) \in Seq(Cell)
  <2> DEFINE a == n + 1
             b == Len(right)
  <2>1. a \in Nat \ {0} /\ b \in Nat /\ a <= b + 1 /\ b <= Len(right)
    BY <1>1, <1>6
  <2> HIDE DEF a, b
  <2>2. SubSeq(right, a, b) \in Seq(Cell)
    BY <2>1, PartOf
  <2> QED
    BY <2>2 DEF a, b
<1> QED
  BY <1>7, <1>8

\* The texts of a group one after the other are a text.
LEMMA GroupTextIs ==
    ASSUME NEW results, \A i \in Ranks(results) : results[i].text \in Seq(Cell),
           NEW group \in Seq(Ranks(results))
    PROVE  GroupText(results, group) \in Seq(Cell)
<1> DEFINE n == Len(group)
           Next1(t, i) == IF t = <<>> THEN results[group[i]].text
                          ELSE t \o RemoveOverlap(t, results[group[i]].text)
           A == Seq(Cell)
           F == [i \in 1..n |-> [t \in A |-> Next1(t, i)]]
           Step(f) == f = [i \in 0..n |-> IF i = 0 THEN <<>> ELSE Next1(f[i - 1], i)]
           h == CHOOSE f : Step(f)
<1>1. n \in Nat /\ \A i \in 1..n : group[i] \in Ranks(results)
  OBVIOUS
<1>2. GroupText(results, group) = h[n]
  BY DEF GroupText
<1>3. ASSUME NEW i \in 1..n, NEW t \in A PROVE Next1(t, i) \in A
  <2> DEFINE u == results[group[i]].text
  <2>1. u \in Seq(Cell)
    BY <1>1
  <2> HIDE DEF u
  <2>2. RemoveOverlap(t, u) \in Seq(Cell)
    BY <2>1, WithoutOverlap
  <2>3. t \o RemoveOverlap(t, u) \in Seq(Cell)
    BY <2>2
  <2> QED
    BY <2>1, <2>3 DEF u
<1>4. <<>> \in A
  OBVIOUS
<1> HIDE DEF A, n, Next1
<1>5. F \in Steps(A, n)
  BY <1>3 DEF Steps
<1>6. PICK f : Follows(f, <<>>, F, A, n)
  <2> HIDE DEF F
  <2> QED
    BY <1>1, <1>4, <1>5, Stepwise
<1>7. f \in [0..n -> A] /\ f[0] = <<>> /\ \A i \in 1..n : f[i] = F[i][f[i - 1]]
  BY <1>6 DEF Follows
<1>8. Step(f)
  <2>1. ASSUME NEW i \in 1..n PROVE f[i] = Next1(f[i - 1], i)
    <3>1. i - 1 \in 0..n
      BY <1>1
    <3>2. f[i - 1] \in A
      BY <1>7, <3>1
    <3> QED
      BY <1>7, <3>2
  <2>2. \A i \in 0..n : i = 0 \/ i \in 1..n
    BY <1>1
  <2>3. f = [i \in 0..n |-> f[i]]
    BY <1>7
  <2>4. \A i \in 0..n : f[i] = IF i = 0 THEN <<>> ELSE Next1(f[i - 1], i)
    BY <1>7, <2>1, <2>2
  <2> HIDE DEF F
  <2> QED
    BY <2>3, <2>4
<1>9. Step(h)
  <2> HIDE DEF Step
  <2> QED
    BY <1>8
<1> HIDE DEF h, F
<1>10. \A i \in 0..n : h[i] = IF i = 0 THEN <<>> ELSE Next1(h[i - 1], i)
  BY <1>9
<1> DEFINE T == {i \in 0..n : h[i] \in A}
<1>11. 0 \in T
  BY <1>1, <1>4, <1>10
<1>12. ASSUME NEW i \in 1..n, i - 1 \in T PROVE i \in T
  <2>1. i \in 0..n /\ i # 0
    BY <1>1
  <2> QED
    BY <1>3, <1>10, <1>12, <2>1
<1> HIDE DEF T
<1>13. n \in T
  <2>1. Inductive(T, n)
    BY <1>11, <1>12 DEF Inductive
  <2> QED
    BY <1>1, <2>1, UpTo
<1> QED
  BY <1>2, <1>13 DEF T, A

\* A text that does not fit is cut to what is left.
LEMMA CutIs ==
    ASSUME NEW text \in Seq(Cell), NEW left \in Nat
    PROVE  /\ Cut(text, left) \in Seq(Cell) /\ Len(Cut(text, left)) \in Nat
           /\ Len(Cut(text, left)) <= left
           /\ Cut(text, left) # text => Len(Cut(text, left)) = left
<1>1. CASE Len(text) > left
  <2>1. 1 \in Nat \ {0} /\ 1 <= left + 1 /\ left <= Len(text) /\ left - 1 + 1 = left
    BY <1>1
  <2>2. SubSeq(text, 1, left) \in Seq(Cell) /\ Len(SubSeq(text, 1, left)) = left - 1 + 1
    BY <2>1, PartOf
  <2> QED
    BY <1>1, <2>1, <2>2 DEF Cut
<1>2. CASE ~ (Len(text) > left)
  <2>1. Len(text) \in Nat /\ Len(text) <= left
    BY <1>2
  <2> QED
    BY <1>2, <2>1 DEF Cut
<1> QED
  BY <1>1, <1>2

Left(total) == IF total >= TotalMax THEN 0 ELSE TotalMax - total

Counts(total, groups, n) ==
    /\ total[0] = 0
    /\ \A i \in 1..n : total[i] = total[i - 1] + Len(Cut(groups[i].text, Left(total[i - 1])))

Within(total, groups, i) ==
    /\ total[i - 1] \in 0..TotalMax /\ total[i - 1] <= total[i]
    /\ Cut(groups[i].text, Left(total[i - 1])) # groups[i].text => total[i] = TotalMax

\* The running total of what is spent stays within the budget, grows, and has reached it as
\* soon as a text is cut.
LEMMA TotalIs ==
    ASSUME NEW n \in Nat, NEW groups, \A i \in 1..n : groups[i].text \in Seq(Cell),
           NEW total, Counts(total, groups, n)
    PROVE  \A i \in 0..n :
              total[i] \in 0..TotalMax /\ (i # 0 => Within(total, groups, i))
<1> DEFINE Cutted(i) == Cut(groups[i].text, Left(total[i - 1]))
           T == {i \in 0..n : total[i] \in 0..TotalMax /\ (i # 0 => Within(total, groups, i))}
<1>0. TotalMax \in Nat
  BY ContextAssumption
<1>1. 0 \in T
  BY <1>0 DEF Counts
<1>2. ASSUME NEW i \in 1..n, i - 1 \in T PROVE i \in T
  <2> DEFINE a == total[i - 1]
             c == Len(Cutted(i))
  <2>1. a \in 0..TotalMax /\ i \in 0..n
    BY <1>2
  <2>2. Left(a) \in Nat /\ a + Left(a) = TotalMax
    <3> HIDE DEF a
    <3> QED
      BY <1>0, <2>1 DEF Left
  <2>3. c \in Nat /\ c <= Left(a) /\ (Cutted(i) # groups[i].text => c = Left(a))
    BY <2>2, CutIs
  <2>4. total[i] = a + c
    BY DEF Counts
  <2> HIDE DEF a, c
  <2>5. total[i] \in 0..TotalMax /\ a <= total[i]
        /\ (Cutted(i) # groups[i].text => total[i] = TotalMax)
    BY <1>0, <2>1, <2>2, <2>3, <2>4
  <2>6. Within(total, groups, i)
    BY <2>1, <2>5 DEF a, Within
  <2> QED
    BY <2>1, <2>5, <2>6
<1> HIDE DEF T
<1>3. ASSUME NEW m \in 0..n PROVE m \in T
  <2>1. m \in Nat /\ \A i \in 1..m : i \in 1..n
    OBVIOUS
  <2>2. Inductive(T, m)
    BY <1>1, <1>2, <2>1 DEF Inductive
  <2> QED
    BY <2>1, <2>2, UpTo
<1> QED
  BY <1>3 DEF T

\* What is spent once stays spent.
LEMMA TotalGrows ==
    ASSUME NEW n \in Nat, NEW groups, \A i \in 1..n : groups[i].text \in Seq(Cell),
           NEW total, Counts(total, groups, n), NEW k \in 0..n, total[k] = TotalMax
    PROVE  total[n] = TotalMax
<1>1. \A i \in 0..n : total[i] \in 0..TotalMax /\ (i # 0 => total[i - 1] <= total[i])
  BY TotalIs DEF Within
<1>2. TotalMax \in Nat
  BY ContextAssumption
<1> DEFINE T == {i \in 0..n - k : total[k + i] = TotalMax}
           m == n - k
<1>3. m \in Nat /\ k + m = n /\ k + 0 = k
  OBVIOUS
<1>4. 0 \in T
  BY <1>3
<1>5. ASSUME NEW i \in 1..m, i - 1 \in T PROVE i \in T
  <2>1. k + i \in 0..n /\ k + i # 0 /\ (k + i) - 1 = k + (i - 1) /\ i \in 0..m
    OBVIOUS
  <2>2. total[k + (i - 1)] = TotalMax
    BY <1>5
  <2>3. total[k + i] \in 0..TotalMax /\ total[k + (i - 1)] <= total[k + i]
    BY <1>1, <2>1
  <2>4. total[k + i] = TotalMax
    BY <1>2, <2>2, <2>3
  <2> QED
    BY <2>1, <2>4
<1> HIDE DEF T, m
<1>6. m \in T
  <2>1. Inductive(T, m)
    BY <1>4, <1>5 DEF Inductive
  <2> QED
    BY <1>3, <2>1, UpTo
<1> QED
  BY <1>3, <1>6 DEF T, m

\* The budget runs through a total, counted from the first group on.
LEMMA BudgetIs ==
    ASSUME NEW n \in Nat, NEW groups, DOMAIN groups = 1..n, Len(groups) = n,
           \A i \in 1..n : groups[i].text \in Seq(Cell)
    PROVE  \E total : /\ Counts(total, groups, n)
                      /\ Budgeted(groups) = [k \in 1..n |->
                            [groups[k] EXCEPT !.text = Cut(@, Left(total[k - 1]))]]
<1> DEFINE Next1(t, i) == t + Len(Cut(groups[i].text, Left(t)))
           F == [i \in 1..n |-> [t \in Nat |-> Next1(t, i)]]
           Step(f) == f = [i \in 0..n |-> IF i = 0 THEN 0 ELSE Next1(f[i - 1], i)]
           h == CHOOSE f : Step(f)
<1>1. Budgeted(groups) = [k \in 1..n |-> [groups[k] EXCEPT !.text = Cut(@, Left(h[k - 1]))]]
  BY DEF Budgeted, Left
<1>2. ASSUME NEW i \in 1..n, NEW t \in Nat PROVE Next1(t, i) \in Nat
  <2>1. Left(t) \in Nat
    BY ContextAssumption DEF Left
  <2> DEFINE l == Left(t)
             u == groups[i].text
  <2>2. u \in Seq(Cell)
    OBVIOUS
  <2> HIDE DEF l, u
  <2>3. Len(Cut(u, l)) \in Nat
    BY <2>1, <2>2, CutIs DEF l
  <2> QED
    BY <2>3 DEF l, u
<1> HIDE DEF Next1
<1>3. F \in Steps(Nat, n)
  BY <1>2 DEF Steps
<1>4. PICK f : Follows(f, 0, F, Nat, n)
  <2>1. 0 \in Nat
    OBVIOUS
  <2> HIDE DEF F
  <2> QED
    BY <1>3, <2>1, Stepwise
<1>5. f \in [0..n -> Nat] /\ f[0] = 0 /\ \A i \in 1..n : f[i] = F[i][f[i - 1]]
  BY <1>4 DEF Follows
<1>6. Step(f)
  <2>1. ASSUME NEW i \in 1..n PROVE f[i] = Next1(f[i - 1], i)
    <3>1. i - 1 \in 0..n
      OBVIOUS
    <3>2. f[i - 1] \in Nat
      BY <1>5, <3>1
    <3> QED
      BY <1>5, <3>2
  <2>2. \A i \in 0..n : i = 0 \/ i \in 1..n
    OBVIOUS
  <2>3. f = [i \in 0..n |-> f[i]]
    BY <1>5
  <2>4. \A i \in 0..n : f[i] = IF i = 0 THEN 0 ELSE Next1(f[i - 1], i)
    BY <1>5, <2>1, <2>2
  <2> HIDE DEF F
  <2> QED
    BY <2>3, <2>4
<1>7. Step(h)
  <2> HIDE DEF Step
  <2> QED
    BY <1>6
<1> HIDE DEF h, F
<1>8. \A i \in 0..n : h[i] = IF i = 0 THEN 0 ELSE Next1(h[i - 1], i)
  BY <1>7
<1>9. Counts(h, groups, n)
  <2>1. 0 \in 0..n /\ \A i \in 1..n : i \in 0..n /\ i # 0
    OBVIOUS
  <2>2. h[0] = 0
    BY <1>8, <2>1
  <2>3. \A i \in 1..n : h[i] = h[i - 1] + Len(Cut(groups[i].text, Left(h[i - 1])))
    BY <1>8, <2>1 DEF Next1
  <2> QED
    BY <2>2, <2>3 DEF Counts
<1> QED
  BY <1>1, <1>9

AddsUp(total, groups, n) ==
    total[0] = 0 /\ \A i \in 1..n : total[i] = total[i - 1] + Len(groups[i].text)

\* What the groups hold together is the last total.
LEMMA SpentIs ==
    ASSUME NEW n \in Nat, NEW groups, Len(groups) = n, NEW total, AddsUp(total, groups, n)
    PROVE  Spent(groups) = total[n]
<1> DEFINE Step(f) == f = [i \in 0..n |-> IF i = 0 THEN 0 ELSE f[i - 1] + Len(groups[i].text)]
           h == CHOOSE f : Step(f)
           g == [i \in 0..n |-> total[i]]
           T == {i \in 0..n : h[i] = total[i]}
<1>1. Spent(groups) = h[n]
  BY DEF Spent
<1>2. Step(g)
  <2>1. ASSUME NEW i \in 0..n, i # 0 PROVE g[i] = g[i - 1] + Len(groups[i].text)
    <3>1. i \in 1..n /\ i - 1 \in 0..n
      BY <2>1
    <3>2. total[i] = total[i - 1] + Len(groups[i].text)
      BY <3>1 DEF AddsUp
    <3> QED
      BY <3>1, <3>2
  <2>2. 0 \in 0..n /\ total[0] = 0
    BY DEF AddsUp
  <2>3. \A i \in 0..n : g[i] = IF i = 0 THEN 0 ELSE g[i - 1] + Len(groups[i].text)
    BY <2>1, <2>2
  <2> QED
    BY <2>3
<1>3. Step(h)
  <2> HIDE DEF Step
  <2> QED
    BY <1>2
<1> HIDE DEF h, g
<1>4. \A i \in 0..n : h[i] = IF i = 0 THEN 0 ELSE h[i - 1] + Len(groups[i].text)
  BY <1>3
<1>5. 0 \in T
  BY <1>4 DEF AddsUp
<1>6. ASSUME NEW i \in 1..n, i - 1 \in T PROVE i \in T
  <2>1. i \in 0..n /\ i # 0
    OBVIOUS
  <2> QED
    BY <1>4, <1>6, <2>1 DEF AddsUp
<1> HIDE DEF T
<1>7. n \in T
  <2>1. Inductive(T, n)
    BY <1>5, <1>6 DEF Inductive
  <2> QED
    BY <2>1, UpTo
<1> QED
  BY <1>1, <1>7 DEF T

TextsOf(M, n) == [1..n -> [members : M, text : Seq(Cell)]]

\* The budget keeps the groups and their members; all texts together stay within it, and it
\* is spent when one of them is cut.
LEMMA BudgetHolds ==
    ASSUME NEW n \in Nat, NEW M, NEW groups \in TextsOf(M, n),
           NEW b, b = Budgeted(groups)
    PROVE  /\ b \in TextsOf(M, n)
           /\ \A k \in 1..n : b[k].members = groups[k].members
           /\ Spent(b) <= TotalMax
           /\ \A k \in 1..n : b[k].text # groups[k].text => Spent(b) = TotalMax
<1> USE DEF TextsOf
<1>0. DOMAIN groups = 1..n /\ Len(groups) = n
  <2> DEFINE G == [members : M, text : Seq(Cell)]
  <2>1. groups \in Values(G, n)
    BY DEF Values
  <2> HIDE DEF G
  <2> QED
    BY <2>1, ValuesAreListed
<1>1. \A i \in 1..n : groups[i].text \in Seq(Cell) /\ groups[i].members \in M
  OBVIOUS
<1>2. PICK total : /\ Counts(total, groups, n)
                   /\ b = [k \in 1..n |-> [groups[k] EXCEPT !.text = Cut(@, Left(total[k - 1]))]]
  BY <1>0, <1>1, BudgetIs
<1>3. TotalMax \in Nat
  BY ContextAssumption
<1>4. \A i \in 0..n : total[i] \in 0..TotalMax /\ (i # 0 => Within(total, groups, i))
  BY <1>1, <1>2, TotalIs
<1>5. ASSUME NEW k \in 1..n
      PROVE  /\ b[k] \in [members : M, text : Seq(Cell)] /\ b[k].members = groups[k].members
             /\ b[k].text = Cut(groups[k].text, Left(total[k - 1]))
  <2> DEFINE l == Left(total[k - 1])
  <2>1. l \in Nat
    <3>1. k \in 0..n /\ k # 0
      OBVIOUS
    <3>2. total[k - 1] \in 0..TotalMax
      BY <1>4, <3>1 DEF Within
    <3> QED
      BY <1>3, <3>2 DEF Left
  <2> HIDE DEF l
  <2>2. Cut(groups[k].text, l) \in Seq(Cell)
    BY <1>1, <2>1, CutIs
  <2>3. b[k] = [groups[k] EXCEPT !.text = Cut(@, l)]
    BY <1>2 DEF l
  <2>4. groups[k] \in [members : M, text : Seq(Cell)]
    OBVIOUS
  <2> QED
    BY <2>2, <2>3, <2>4 DEF l
<1>6. b \in [1..n -> [members : M, text : Seq(Cell)]]
  BY <1>2, <1>5
<1>7. Len(b) = n
  BY <1>6
<1>8. Spent(b) = total[n]
  <2>1. AddsUp(total, b, n)
    BY <1>2, <1>5 DEF Counts, AddsUp
  <2> QED
    BY <1>7, <2>1, SpentIs
<1>9. n \in 0..n
  OBVIOUS
<1>10. Spent(b) <= TotalMax
  BY <1>3, <1>4, <1>8, <1>9
<1>11. ASSUME NEW k \in 1..n, b[k].text # groups[k].text PROVE Spent(b) = TotalMax
  <2>1. k \in 0..n /\ k # 0
    OBVIOUS
  <2>2. total[k] = TotalMax
    BY <1>4, <1>5, <1>11, <2>1 DEF Within
  <2> QED
    BY <1>1, <1>2, <1>8, <2>1, <2>2, TotalGrows
<1> QED
  BY <1>5, <1>6, <1>10, <1>11

-----------------------------------------------------------------------------
(* Windows: results of a document, by their places, in groups. *)

\* From place a to place b no gap is wider than two windows that touch.
Near(x, a, b) == \A c \in a..b - 1 : x[c + 1] <= x[c] + 2 * Adjacent + 1

HoldsAs(s, f, r, n, k) ==
    /\ \A a \in 1..n : f[a] = k => r[a] \in ToSet(s)
    /\ \A z \in ToSet(s) : \E a \in 1..n : f[a] = k /\ z = r[a]

\* A group that gets no new member holds what it held.
LEMMA HoldsAsBefore ==
    ASSUME NEW n \in Nat, NEW m \in Nat, NEW f, NEW h, NEW r, NEW s, NEW k, HoldsAs(s, f, r, m, k),
           \A c \in 1..n : IF c \in 1..m THEN h[c] = f[c] ELSE h[c] # k, m <= n
    PROVE  HoldsAs(s, h, r, n, k)
<1>1. \A c \in 1..m : c \in 1..n /\ h[c] = f[c]
  OBVIOUS
<1>2. \A c \in 1..n : h[c] = k => c \in 1..m /\ f[c] = k
  OBVIOUS
<1> QED
  BY <1>1, <1>2 DEF HoldsAs

\* The first n of the list r are in the groups g, number c in group f[c].
Windows(g, f, r, x, S, n) ==
    /\ g \in Seq(Seq(S) \ {<<>>})
    /\ f \in [1..n -> 1..Len(g)]
    /\ n # 0 => g # <<>> /\ f[n] = Len(g) /\ Last(Last(g)) = r[n]
    /\ \A k \in 1..Len(g) : HoldsAs(g[k], f, r, n, k)
    /\ \A a, b \in 1..n : a < b => (f[a] = f[b] <=> Near(x, a, b))

\* One place more.
LEMMA NearOn ==
    ASSUME NEW x, NEW b \in Nat \ {0}, NEW a \in Nat \ {0}, a < b
    PROVE  Near(x, a, b) <=> (Near(x, a, b - 1) /\ x[b] <= x[b - 1] + 2 * Adjacent + 1)
<1>1. b - 1 \in a..b - 1 /\ (b - 1) + 1 = b
  OBVIOUS
<1>2. \A c \in a..(b - 1) - 1 : c \in a..b - 1
  OBVIOUS
<1>3. \A c \in a..b - 1 : c \in a..(b - 1) - 1 \/ c = b - 1
  OBVIOUS
<1> QED
  BY <1>1, <1>2, <1>3 DEF Near

\* A place is near itself.
LEMMA NearSelf ==
    ASSUME NEW x, NEW a \in Nat
    PROVE  Near(x, a, a)
BY DEF Near

\* A list by its members.
LEMMA ListedUpTo ==
    ASSUME NEW S, NEW n \in Nat \ {0}, NEW h \in Values(S, n)
    PROVE  h \in Seq(S) /\ Len(h) = n /\ h # <<>> /\ Last(h) = h[n]
<1>1. h \in Seq(S) /\ Len(h) = n
  BY ValuesAreListed
<1>2. h # <<>>
  BY <1>1
<1> QED
  BY <1>1, <1>2 DEF Last

\* One result more: it joins the last group when its window touches, and is a group else.
LEMMA OneMore ==
    ASSUME NEW results, NEW S, NEW r \in Seq(S), Distinct(r), NEW n \in 1..Len(r),
           NEW x, \A a \in 1..Len(r) : x[a] = Number(results, r[a]) /\ x[a] \in Nat,
           NEW g, NEW f, Windows(g, f, r, x, S, n - 1)
    PROVE  \E h : Windows(Joined(results, g, r[n]), h, r, x, S, n)
<1> DEFINE m == n - 1
           G == Seq(S) \ {<<>>}
           L == Len(g)
           t == Joined(results, g, r[n])
           h == [c \in 1..n |-> IF c = n THEN Len(t) ELSE f[c]]
           y == r[n]
<1>0. /\ m \in Nat /\ n \in Nat \ {0} /\ n = m + 1 /\ y \in S /\ Adjacent \in Nat
      /\ \A c \in 1..n : c = n \/ c \in 1..m
      /\ \A c \in 1..m : c \in 1..n /\ c # n /\ c < n
      /\ m \in 1..Len(r) \/ m = 0
  BY ContextAssumption
<1>1. /\ g \in Seq(G) /\ L \in Nat /\ f \in [1..m -> 1..L]
      /\ m # 0 => (g # <<>> /\ f[m] = L /\ Last(Last(g)) = r[m])
      /\ \A a, b \in 1..m : a < b => (f[a] = f[b] <=> Near(x, a, b))
  BY DEF Windows
<1>1b. \A k \in 1..L : HoldsAs(g[k], f, r, m, k)
  BY DEF Windows
<1> HIDE DEF m, L, y, t, h
<1>2. \A k \in 1..L : g[k] \in Seq(S) /\ g[k] # <<>>
  BY <1>1 DEF G, L
<1>3. m = 0 <=> g = <<>>
  <2>1. ASSUME m = 0, g # <<>> PROVE FALSE
    <3>1. L \in 1..L
      BY <1>1, <2>1 DEF L
    <3>2. 1 \in DOMAIN g[L]
      BY <1>2, <3>1
    <3>3. g[L][1] \in ToSet(g[L])
      BY <3>2 DEF ToSet
    <3>4. PICK a \in 1..m : g[L][1] = r[a]
      BY SMTT(30), <1>1b, <3>1, <3>3 DEF HoldsAs
    <3> QED
      BY <2>1, <3>4
  <2> QED
    BY <1>1, <2>1
<1>4. m # 0 => (Touches(results, g[L], y) <=> x[n] <= x[m] + 2 * Adjacent + 1)
  <2> SUFFICES ASSUME m # 0
               PROVE  Touches(results, g[L], y) <=> x[n] <= x[m] + 2 * Adjacent + 1
    OBVIOUS
  <2>1. g[L][Len(g[L])] = r[m]
    BY <1>1 DEF Last, L
  <2>2. x[n] = Number(results, y) /\ x[m] = Number(results, r[m]) /\ x[n] \in Nat /\ x[m] \in Nat
    BY <1>0 DEF y
  <2>3. Touches(results, g[L], y) <=> x[n] <= Adjacent + x[m] + Adjacent + 1
    BY <2>1, <2>2 DEF Touches
  <2> QED
    BY <1>0, <2>2, <2>3
<1>5. \A a \in 1..m : Near(x, a, n) <=> (Near(x, a, m) /\ x[n] <= x[m] + 2 * Adjacent + 1)
  BY <1>0, NearOn
<1>6. \A a \in 1..m : f[a] = L <=> Near(x, a, m)
  <2> SUFFICES ASSUME NEW a \in 1..m PROVE f[a] = L <=> Near(x, a, m)
    OBVIOUS
  <2>1. m \in 1..m /\ f[m] = L /\ (a < m \/ a = m)
    BY <1>0, <1>1
  <2>2. CASE a < m
    BY <1>1, <2>1, <2>2
  <2>3. CASE a = m
    <3>1. Near(x, m, m)
      BY <1>0, NearSelf
    <3> QED
      BY <2>1, <2>3, <3>1
  <2> QED
    BY <2>1, <2>2, <2>3
<1>7. \A k \in 1..L : y \notin ToSet(g[k])
  <2> SUFFICES ASSUME NEW k \in 1..L, y \in ToSet(g[k]) PROVE FALSE
    OBVIOUS
  <2>1. PICK a \in 1..m : y = r[a]
    BY <1>1b DEF HoldsAs
  <2>2. a \in DOMAIN r /\ n \in DOMAIN r /\ a # n
    BY <1>0
  <2> QED
    BY <2>1, <2>2 DEF Distinct, y
<1> HIDE DEF G
<1>8. CASE m # 0 /\ x[n] <= x[m] + 2 * Adjacent + 1
  <2> DEFINE u == Append(g[L], y)
  <2>1. L \in 1..L /\ g # <<>> /\ g[L] \in Seq(S)
    BY <1>1, <1>2, <1>3, <1>8 DEF L
  <2>2. t = [g EXCEPT ![L] = u]
    BY <1>4, <1>8, <2>1 DEF Joined, t, L, y
  <2>3. u \in Seq(S) /\ Len(u) = Len(g[L]) + 1 /\ u[Len(g[L]) + 1] = y
    BY <1>0, <2>1, AppendAt
  <2>4. u # <<>> /\ Last(u) = y
    <3>1. Len(u) # 0
      BY <2>1, <2>3
    <3>2. Len(<<>>) = 0
      OBVIOUS
    <3> QED
      BY <2>3, <3>1, <3>2 DEF Last
  <2>5. ToSet(u) = ToSet(g[L]) \cup {y}
    BY <1>0, <2>1, Appended
  <2>6. u \in G
    BY <2>3, <2>4 DEF G
  <2> HIDE DEF u
  <2>7. /\ t \in Seq(G) /\ Len(t) = L /\ t # <<>> /\ Last(t) = u
        /\ \A k \in 1..L - 1 : t[k] = g[k]
    <3>1. L = Len(g) /\ DOMAIN g = 1..L
      BY <1>1 DEF L
    <3>2. t = [k \in 1..L |-> IF k = L THEN u ELSE g[k]]
      BY <2>2, <3>1
    <3>3. L \in Nat \ {0} /\ \A k \in 1..L : g[k] \in G
      BY <1>1, <2>1, <3>1
    <3>4. t \in Values(G, L)
      BY <2>6, <3>2, <3>3 DEF Values
    <3>5. t[L] = u /\ \A k \in 1..L - 1 : t[k] = g[k]
      BY <2>1, <3>2, <3>3
    <3>6. t \in Seq(G) /\ Len(t) = L /\ t # <<>> /\ Last(t) = t[L]
      BY <3>3, <3>4, ListedUpTo
    <3> QED
      BY <3>5, <3>6
  <2>8. h \in [1..n -> 1..Len(t)] /\ h[n] = L /\ \A c \in 1..m : h[c] = f[c]
    BY <1>0, <1>1, <2>1, <2>7 DEF h
  <2>9. ASSUME NEW k \in 1..L
        PROVE  HoldsAs(t[k], h, r, n, k)
    <3>0. HoldsAs(g[k], h, r, m, k)
      <4>1. \A c \in 1..m : IF c \in 1..m THEN h[c] = f[c] ELSE h[c] # k
        BY <2>8
      <4>2. m <= m
        BY <1>0
      <4> QED
        BY <1>0, <1>1b, <4>1, <4>2, HoldsAsBefore
    <3>1. CASE k = L
      <4>1. t[k] = u
        BY <2>7, <3>1 DEF Last
      <4>2. \A z : z \in ToSet(t[k]) <=> z \in ToSet(g[k]) \/ z = r[n]
        BY <2>5, <3>1, <4>1 DEF y
      <4>3. h[n] = k
        BY <2>8, <3>1
      <4>4. ASSUME NEW a \in 1..n, h[a] = k PROVE r[a] \in ToSet(t[k])
        <5>1. CASE a = n
          BY <4>2, <5>1
        <5>2. CASE a # n
          <6>1. a \in 1..m
            BY <1>0, <5>2
          <6> QED
            BY <2>8, <3>0, <4>2, <4>4, <6>1 DEF HoldsAs
        <5> QED
          BY <5>1, <5>2
      <4>5. ASSUME NEW z \in ToSet(t[k]) PROVE \E a \in 1..n : h[a] = k /\ z = r[a]
        <5>1. CASE z = r[n]
          <6>1. n \in 1..n
            BY <1>0
          <6> QED
            BY <4>3, <5>1, <6>1
        <5>2. CASE z # r[n]
          <6>1. PICK a \in 1..m : h[a] = k /\ z = r[a]
            BY <3>0, <4>2, <5>2 DEF HoldsAs
          <6>2. a \in 1..n
            BY <1>0
          <6> QED
            BY <6>1, <6>2
        <5> QED
          BY <5>1, <5>2
      <4> QED
        BY <4>4, <4>5 DEF HoldsAs
    <3>2. CASE k # L
      <4>1. k \in 1..L - 1
        BY <1>1, <3>2
      <4> QED
        BY <1>0, <2>7, <2>8, <3>0, <3>2, <4>1 DEF HoldsAs
    <3> QED
      BY <3>1, <3>2
  <2>10. ASSUME NEW a \in 1..n, NEW b \in 1..n, a < b PROVE h[a] = h[b] <=> Near(x, a, b)
    <3>1. a \in 1..m /\ h[a] = f[a]
      BY <1>0, <2>8, <2>10
    <3>2. CASE b = n
      BY <1>5, <1>6, <1>8, <2>8, <3>1, <3>2
    <3>3. CASE b \in 1..m
      BY <1>1, <2>8, <2>10, <3>1, <3>3
    <3> QED
      BY <1>0, <3>2, <3>3
  <2>11. Windows(t, h, r, x, S, n)
    BY <2>4, <2>7, <2>8, <2>9, <2>10 DEF Windows, G, L, y
  <2> QED
    BY <2>11 DEF t, y
<1>9. CASE ~ (m # 0 /\ x[n] <= x[m] + 2 * Adjacent + 1)
  <2> DEFINE u == <<y>>
  <2>1. t = Append(g, u)
    BY <1>3, <1>4, <1>9 DEF Joined, t, L, y
  <2>2. u \in Seq(S) /\ u # <<>> /\ Last(u) = y /\ ToSet(u) = {y}
    BY <1>0 DEF Last, ToSet
  <2>3. u \in G
    BY <2>2 DEF G
  <2> HIDE DEF u
  <2>4. t \in Seq(G) /\ Len(t) = L + 1 /\ (\A k \in 1..L : t[k] = g[k]) /\ t[L + 1] = u
    BY <1>1, <2>1, <2>3, AppendAt DEF L
  <2>5. t # <<>> /\ Last(t) = u /\ L + 1 \in 1..L + 1 /\ L + 1 \notin 1..L
        /\ \A k \in 1..L : k \in 1..L + 1
    <3>1. Len(t) # 0 /\ Len(<<>>) = 0
      BY <1>1, <2>4
    <3> QED
      BY <1>1, <2>4, <3>1 DEF Last
  <2>6. h \in [1..n -> 1..Len(t)] /\ h[n] = L + 1 /\ \A c \in 1..m : h[c] = f[c] /\ f[c] \in 1..L
    <3>1. \A c \in 1..n : (IF c = n THEN Len(t) ELSE f[c]) \in 1..Len(t)
      BY <1>0, <1>1, <2>4, <2>5
    <3>2. h \in [1..n -> 1..Len(t)]
      BY <3>1 DEF h
    <3>3. n \in 1..n /\ h[n] = L + 1
      BY <1>0, <2>4 DEF h
    <3>4. \A c \in 1..m : h[c] = f[c] /\ f[c] \in 1..L
      BY <1>0, <1>1 DEF h
    <3> QED
      BY <3>2, <3>3, <3>4
  <2>7. ASSUME NEW k \in 1..L + 1
        PROVE  HoldsAs(t[k], h, r, n, k)
    <3>1. CASE k = L + 1
      <4>1. \A a \in 1..n : h[a] = k <=> a = n
        BY <1>0, <2>5, <2>6, <3>1
      <4>2. t[k] = u /\ ToSet(u) = {r[n]} /\ n \in 1..n
        BY <1>0, <2>2, <2>4, <3>1 DEF y
      <4> QED
        BY <4>1, <4>2 DEF HoldsAs
    <3>2. CASE k \in 1..L
      <4>1. \A a \in 1..n : h[a] = k <=> (a \in 1..m /\ f[a] = k)
        BY <1>0, <2>5, <2>6, <3>2
      <4> QED
        <5>1. \A c \in 1..n : IF c \in 1..m THEN h[c] = f[c] ELSE h[c] # k
          BY <1>0, <4>1, <2>6
        <5>2. m <= n /\ n \in Nat
          BY <1>0
        <5>3. HoldsAs(g[k], h, r, n, k)
          BY <1>0, <1>1b, <3>2, <5>1, <5>2, HoldsAsBefore
        <5> QED
          BY <2>4, <3>2, <5>3
    <3> QED
      BY <1>1, <3>1, <3>2
  <2>8. ASSUME NEW a \in 1..n, NEW b \in 1..n, a < b PROVE h[a] = h[b] <=> Near(x, a, b)
    <3>1. a \in 1..m /\ h[a] = f[a] /\ h[a] \in 1..L /\ m # 0
      BY <1>0, <2>6, <2>8
    <3>2. CASE b = n
      <4>1. ~Near(x, a, n)
        BY <1>5, <1>9, <3>1
      <4>2. h[a] # h[n]
        BY <2>5, <2>6, <3>1
      <4> QED
        BY <3>2, <4>1, <4>2
    <3>3. CASE b \in 1..m
      BY <1>1, <2>6, <2>8, <3>1, <3>3
    <3> QED
      BY <1>0, <3>2, <3>3
  <2>9. Windows(t, h, r, x, S, n)
    BY <2>2, <2>4, <2>5, <2>6, <2>7, <2>8 DEF Windows, G, L, y
  <2> QED
    BY <2>9 DEF t, y
<1> QED
  BY <1>8, <1>9

\* A walk over the list r that puts one result after the other into groups.
Walks(results, r, w) ==
    w[0] = <<>> /\ \A i \in 1..Len(r) : w[i] = Joined(results, w[i - 1], r[i])

PlacesOf(results, r, x) ==
    \A a \in 1..Len(r) : x[a] = Number(results, r[a]) /\ x[a] \in Nat

\* None of the list is in no groups.
LEMMA NoWindows ==
    ASSUME NEW r, NEW x, NEW S
    PROVE  \E f : Windows(<<>>, f, r, x, S, 0)
<1> DEFINE f == [c \in 1..0 |-> 0]
           G == Seq(S) \ {<<>>}
<1>1. <<>> \in Seq(G) /\ Len(<<>>) = 0 /\ f \in [1..0 -> 1..0]
  OBVIOUS
<1>2. \A k \in 1..0 : FALSE
  OBVIOUS
<1> HIDE DEF f
<1>3. Windows(<<>>, f, r, x, S, 0)
  BY <1>1, <1>2 DEF Windows
<1> QED
  BY <1>3

\* Where it stands.
LEMMA WalkOn ==
    ASSUME NEW results, NEW S, NEW r \in Seq(S), Distinct(r), NEW x, PlacesOf(results, r, x),
           NEW n \in 0..Len(r), NEW w, w[0] = <<>>,
           \A i \in 1..n : w[i] = Joined(results, w[i - 1], r[i])
    PROVE  \E f : Windows(w[n], f, r, x, S, n)
<1> DEFINE T == {i \in 0..n : \E f : Windows(w[i], f, r, x, S, i)}
<1>1. 0 \in T
  <2>1. 0 \in 0..n
    OBVIOUS
  <2>2. \E f : Windows(<<>>, f, r, x, S, 0)
    BY NoWindows
  <2> QED
    BY <2>1, <2>2
<1>2. ASSUME NEW i \in 1..n, i - 1 \in T PROVE i \in T
  <2>1. i \in 1..Len(r) /\ i \in 0..n
    OBVIOUS
  <2>2. PICK f : Windows(w[i - 1], f, r, x, S, i - 1)
    BY <1>2
  <2>3. \E h : Windows(Joined(results, w[i - 1], r[i]), h, r, x, S, i)
    BY <2>1, <2>2, OneMore DEF PlacesOf
  <2> QED
    BY <2>1, <2>3
<1> HIDE DEF T
<1>3. n \in T
  <2>1. Inductive(T, n) /\ n \in Nat
    BY <1>1, <1>2 DEF Inductive
  <2> QED
    BY <2>1, UpTo
<1> QED
  BY <1>3 DEF T

\* The groups of a document's results by place.
LEMMA WindowGroupsAre ==
    ASSUME NEW results, NEW doc, NEW r, r = ByPlace(results, doc), NEW S, r \in Seq(S), Distinct(r),
           NEW x, PlacesOf(results, r, x)
    PROVE  \E g, f : WindowGroups(results, doc) = ToSet(g) /\ Windows(g, f, r, x, S, Len(r))
<1> DEFINE n == Len(r)
           G == Seq(S) \ {<<>>}
           A == Seq(G)
           Next1(t, i) == Joined(results, t, r[i])
           Step(f) == f = [i \in 0..n |-> IF i = 0 THEN <<>> ELSE Next1(f[i - 1], i)]
           h == CHOOSE f : Step(f)
           F == [i \in 1..n |-> [t \in A |-> IF Next1(t, i) \in A THEN Next1(t, i) ELSE <<>>]]
<1>0. n \in Nat
  OBVIOUS
<1>1. WindowGroups(results, doc) = ToSet(h[n])
  BY DEF WindowGroups
<1>2. <<>> \in A
  OBVIOUS
<1>3. F \in Steps(A, n)
  BY <1>2 DEF Steps
<1>4. \A i \in 1..n, t \in A : F[i][t] = IF Next1(t, i) \in A THEN Next1(t, i) ELSE <<>>
  OBVIOUS
<1> HIDE DEF F, A, n, Next1
<1>5. PICK g : Follows(g, <<>>, F, A, n)
  BY <1>0, <1>2, <1>3, Stepwise
<1>6. g \in [0..n -> A] /\ g[0] = <<>> /\ \A i \in 1..n : g[i] = F[i][g[i - 1]]
  BY <1>5 DEF Follows
<1> DEFINE U == {i \in 0..n : \E f : Windows(g[i], f, r, x, S, i)}
<1>7. 0 \in U
  <2>1. g[0] = <<>> /\ 0 \in 0..n
    BY <1>0, <1>6
  <2>2. \E f : Windows(<<>>, f, r, x, S, 0)
    BY NoWindows
  <2> QED
    BY <2>1, <2>2
<1>8. ASSUME NEW i \in 1..n, i - 1 \in U
      PROVE  g[i] = Next1(g[i - 1], i) /\ i \in U
  <2>1. i \in 1..Len(r) /\ i - 1 \in 0..n /\ i \in 0..n
    BY <1>0 DEF n
  <2>2. PICK f : Windows(g[i - 1], f, r, x, S, i - 1)
    BY <1>8
  <2>3. PICK k : Windows(Joined(results, g[i - 1], r[i]), k, r, x, S, i)
    BY <2>1, <2>2, OneMore DEF PlacesOf
  <2>4. Next1(g[i - 1], i) \in A
    BY <2>3 DEF Windows, Next1, A
  <2>5. g[i] = Next1(g[i - 1], i)
    BY <1>4, <1>6, <2>1, <2>4
  <2> QED
    BY <2>1, <2>3, <2>5 DEF Next1
<1> HIDE DEF U
<1>9. \A i \in 0..n : i \in U
  <2> SUFFICES ASSUME NEW k \in 0..n PROVE k \in U
    OBVIOUS
  <2>1. ASSUME NEW i \in 1..k, i - 1 \in U PROVE i \in U
    <3>1. i \in 1..n
      BY <1>0
    <3> QED
      BY <1>8, <2>1, <3>1
  <2>2. Inductive(U, k) /\ k \in Nat
    BY <1>0, <1>7, <2>1 DEF Inductive
  <2> QED
    BY <2>2, UpTo
<1>10. Step(g)
  <2>1. ASSUME NEW i \in 0..n PROVE g[i] = IF i = 0 THEN <<>> ELSE Next1(g[i - 1], i)
    <3>1. CASE i = 0
      BY <1>6, <3>1
    <3>2. CASE i # 0
      <4>1. i \in 1..n /\ i - 1 \in 0..n
        BY <1>0, <3>2
      <4> QED
        BY <1>8, <1>9, <3>2, <4>1
    <3> QED
      BY <3>1, <3>2
  <2>2. g = [i \in 0..n |-> g[i]]
    BY <1>6
  <2> QED
    BY <2>1, <2>2
<1>11. Step(h)
  <2> HIDE DEF Step
  <2> QED
    BY <1>10
<1> HIDE DEF h
<1>12. \A i \in 0..n : h[i] = IF i = 0 THEN <<>> ELSE Next1(h[i - 1], i)
  BY <1>11
<1>13. h[0] = <<>> /\ \A i \in 1..n : h[i] = Joined(results, h[i - 1], r[i])
  <2>1. 0 \in 0..n /\ \A i \in 1..n : i \in 0..n /\ i # 0
    BY <1>0
  <2> QED
    BY <1>12, <2>1 DEF Next1
<1>14. n \in 0..Len(r)
  BY <1>0 DEF n
<1>15. \E f : Windows(h[n], f, r, x, S, n)
  BY <1>13, <1>14, WalkOn
<1> QED
  BY <1>1, <1>15 DEF n

\* From lo to hi every place is reached by the window of a place of Q that is not before lo.
Gapless(Q, lo, hi) ==
    \A s \in lo..hi - 1 : \E t \in Q : s - 2 * Adjacent <= t /\ t <= s /\ t >= lo

Growing(x, m) ==
    /\ \A a \in 1..m : x[a] \in Nat
    /\ \A a, b \in 1..m : a < b => x[a] <= x[b]

HoldsAll(Q, x, m) == \A t : t \in Q <=> \E a \in 1..m : t = x[a]

Ascending(p, q, m) == p \in 1..m /\ q \in 1..m /\ p < q

\* Places are linked exactly when no gap between them is too wide.
LEMMA GaplessIsNear ==
    ASSUME NEW m \in Nat, NEW x, Growing(x, m), NEW Q, HoldsAll(Q, x, m),
           NEW p, NEW q, Ascending(p, q, m)
    PROVE  Gapless(Q, x[p], x[q]) <=> Near(x, p, q)
<1> USE DEF HoldsAll, Ascending
<1>0. Adjacent \in Nat
  BY ContextAssumption
<1>1. ASSUME Near(x, p, q), NEW s \in x[p]..x[q] - 1
      PROVE  \E t \in Q : s - 2 * Adjacent <= t /\ t <= s /\ t >= x[p]
  <2> DEFINE T == {c \in p..q : x[c] > s}
  <2>1. x[p] \in Nat /\ x[q] \in Nat /\ s \in Nat /\ x[p] <= s /\ s < x[q]
    BY <1>1 DEF Growing
  <2>2. q \in T /\ T \in SUBSET Nat
    BY <2>1
  <2>3. PICK c \in T : \A d \in T : c <= d
    BY <2>2, LeastNat
  <2>4. c \in p..q /\ x[c] > s /\ c # p
    BY <2>1, <2>3
  <2>5. c - 1 \in p..q - 1 /\ c - 1 \in 1..m /\ c - 1 \in p..q /\ ~(c <= c - 1) /\ (c - 1) + 1 = c
    BY <2>4
  <2>6. x[c - 1] \in Nat /\ x[c] \in Nat
    BY <2>4, <2>5 DEF Growing
  <2>7. x[c - 1] <= s
    BY <2>1, <2>3, <2>5, <2>6
  <2>8. x[c] <= x[c - 1] + 2 * Adjacent + 1
    BY <1>1, <2>5 DEF Near
  <2>9. s - 2 * Adjacent <= x[c - 1]
    BY <1>0, <2>1, <2>4, <2>6, <2>8
  <2>10. x[c - 1] >= x[p]
    <3>1. c - 1 = p \/ p < c - 1
      BY <2>4
    <3> QED
      BY <2>1, <2>5, <2>6, <3>1 DEF Growing
  <2> QED
    BY <2>5, <2>7, <2>9, <2>10
<1>2. ASSUME Gapless(Q, x[p], x[q]), NEW c \in p..q - 1
      PROVE  x[c + 1] <= x[c] + 2 * Adjacent + 1
  <2>1. c \in 1..m /\ c + 1 \in 1..m /\ c < c + 1 /\ (c = p \/ p < c) /\ (c + 1 = q \/ c + 1 < q)
    OBVIOUS
  <2>0. x[c] \in Nat /\ x[c + 1] \in Nat /\ x[c] <= x[c + 1]
    BY <2>1 DEF Growing
  <2> SUFFICES ASSUME x[c] # x[c + 1] PROVE x[c + 1] <= x[c] + 2 * Adjacent + 1
    BY <1>0, <2>0
  <2>2. x[c] \in Nat /\ x[c + 1] \in Nat /\ x[c] < x[c + 1] /\ x[p] \in Nat /\ x[q] \in Nat
    BY <2>0, <2>1 DEF Growing
  <2>3. x[p] <= x[c] /\ x[c + 1] <= x[q]
    BY <2>1, <2>2 DEF Growing
  <2> DEFINE s == x[c + 1] - 1
  <2>4. s \in x[p]..x[q] - 1 /\ s < x[c + 1]
    BY <2>2, <2>3
  <2>5. PICK t \in Q : s - 2 * Adjacent <= t /\ t <= s /\ t >= x[p]
    BY <1>2, <2>4 DEF Gapless
  <2>6. PICK l \in 1..m : t = x[l]
    BY <2>5
  <2>7. x[l] \in Nat /\ x[l] < x[c + 1]
    BY <2>2, <2>5, <2>6 DEF Growing
  <2>8. ~ (c + 1 < l) /\ l # c + 1
    BY <2>1, <2>2, <2>7 DEF Growing
  <2>9. l = c \/ l < c
    BY <2>8
  <2>10. x[l] <= x[c]
    BY <2>1, <2>2, <2>7, <2>9 DEF Growing
  <2> QED
    BY <1>0, <2>2, <2>5, <2>6, <2>7, <2>10
<1> QED
  BY <1>1, <1>2 DEF Gapless, Near

-----------------------------------------------------------------------------
(* Results in groups. *)

\* The results of a search.
ResultsOk(results, n) ==
    n \in Nat /\ DOMAIN results = 1..n /\ \A i \in 1..n : ResultOk(results[i])

Single(results, n, doc) ==
    {j \in 1..n : results[j].hit.doc = doc /\ results[j].parent = {} /\ results[j].known}

PlaceAt(results, r) == [a \in 1..Len(r) |-> Number(results, r[a])]

\* The results of a document that have no parent, by place.
LEMMA ByPlaceIs ==
    ASSUME NEW results, NEW n, ResultsOk(results, n), NEW doc, NEW r, r = ByPlace(results, doc),
           NEW x, x = PlaceAt(results, r)
    PROVE  /\ r \in Seq(1..n) /\ Distinct(r) /\ ToSet(r) = Single(results, n, doc)
           /\ PlacesOf(results, r, x) /\ Growing(x, Len(r))
<1> DEFINE S == Single(results, n, doc)
           R == {p \in S \X S :
                   \/ Number(results, p[1]) < Number(results, p[2])
                   \/ Number(results, p[1]) = Number(results, p[2]) /\ p[1] < p[2]}
<1>1. n \in Nat /\ DOMAIN results = 1..n /\ S \in SUBSET (1..n)
  BY DEF ResultsOk, Single
<1>2. r = InOrder(S, R)
  BY <1>1 DEF ByPlace, Ranks, Single
<1>3. IsFiniteSet(S)
  <2>1. IsFiniteSet(1..n)
    BY <1>1, FS_Interval
  <2> QED
    BY <1>1, <2>1, FS_Subset
<1>4. \A i \in S : Number(results, i) \in Nat /\ i \in Nat
  BY <1>1 DEF ResultsOk, ResultOk, Single, Number, NumberOf
<1> HIDE DEF S
<1>5. Strict(S, R)
  <2>1. \A i \in S : <<i, i>> \notin R
    BY <1>4
  <2>2. \A i, j \in S : i # j => <<i, j>> \in R \/ <<j, i>> \in R
    BY <1>4
  <2>3. \A i, j, k \in S : <<i, j>> \in R /\ <<j, k>> \in R => <<i, k>> \in R
    BY <1>4
  <2> HIDE DEF R
  <2> QED
    BY <2>1, <2>2, <2>3 DEF Strict
<1>7. /\ r \in Seq(S) /\ Distinct(r) /\ ToSet(r) = S
      /\ \A a, b \in 1..Len(r) : a < b <=> <<r[a], r[b]>> \in R
  <2> HIDE DEF R
  <2> QED
    BY <1>2, <1>3, <1>5, Ordered
<1>8. \A a \in 1..Len(r) : r[a] \in S /\ x[a] = Number(results, r[a]) /\ x[a] \in Nat
  BY <1>4, <1>7 DEF PlaceAt
<1>9. ASSUME NEW a \in 1..Len(r), NEW b \in 1..Len(r), a < b PROVE x[a] <= x[b]
  <2>1. <<r[a], r[b]>> \in R
    <3> HIDE DEF R
    <3> QED
      BY <1>7, <1>9
  <2> QED
    BY <1>8, <2>1
<1>10. r \in Seq(1..n)
  <2>1. Len(r) \in Nat /\ r \in Values(1..n, Len(r))
    <3>1. Len(r) \in Nat /\ r \in [1..Len(r) -> S]
      BY <1>7
    <3> QED
      BY <1>1, <1>8, <3>1 DEF Values
  <2> QED
    BY <2>1, ValuesAreListed
<1> QED
  BY <1>7, <1>8, <1>9, <1>10 DEF S, PlacesOf, Growing

\* Two results of a list by place are linked exactly when they are near.
LEMMA LinkedIsNear ==
    ASSUME NEW results, NEW n, ResultsOk(results, n), NEW doc, NEW r, r = ByPlace(results, doc),
           NEW x, x = PlaceAt(results, r),
           NEW p \in 1..Len(r), NEW q \in 1..Len(r), p < q
    PROVE  /\ Linked(results, r[p], r[q]) <=> Near(x, p, q)
           /\ Linked(results, r[q], r[p]) <=> Near(x, p, q)
<1> DEFINE i == r[p]
           j == r[q]
           Q == {Number(results, k) : k \in ToSet(r)}
<1>1. /\ r \in Seq(1..n) /\ Distinct(r) /\ ToSet(r) = Single(results, n, doc)
      /\ PlacesOf(results, r, x) /\ Growing(x, Len(r))
  BY ByPlaceIs
<1>2. Len(r) \in Nat /\ DOMAIN r = 1..Len(r)
  BY <1>1
<1>3. i \in ToSet(r) /\ j \in ToSet(r)
  BY <1>2 DEF ToSet
<1>4. results[i].hit.doc = doc /\ results[j].hit.doc = doc
  BY <1>1, <1>3 DEF Single
<1>5. Number(results, i) = x[p] /\ Number(results, j) = x[q] /\ x[p] \in Nat /\ x[q] \in Nat /\ x[p] <= x[q]
  BY <1>1 DEF PlacesOf, Growing
<1>6. LeastOf(x[p], x[q]) = x[p] /\ LeastOf(x[q], x[p]) = x[p]
      /\ MostOf(x[p], x[q]) = x[q] /\ MostOf(x[q], x[p]) = x[q]
  BY <1>5 DEF LeastOf, MostOf
<1>7. ASSUME NEW t PROVE t \in Q <=> \E a \in 1..Len(r) : t = x[a]
  <2>1. \A k \in ToSet(r) : \E a \in 1..Len(r) : k = r[a]
    BY <1>2 DEF ToSet
  <2>2. \A a \in 1..Len(r) : r[a] \in ToSet(r)
    BY <1>2 DEF ToSet
  <2>3. \A a \in 1..Len(r) : x[a] = Number(results, r[a])
    BY <1>1 DEF PlacesOf
  <2> QED
    BY <2>1, <2>2, <2>3
<1>8. (Linked(results, i, j) <=> Gapless(Q, x[p], x[q])) /\ (Linked(results, j, i) <=> Gapless(Q, x[p], x[q]))
  BY <1>4, <1>5, <1>6 DEF Linked, Gapless
<1>9. Gapless(Q, x[p], x[q]) <=> Near(x, p, q)
  <2> DEFINE m == Len(r)
  <2>1. m \in Nat /\ Growing(x, m) /\ Ascending(p, q, m)
    BY <1>1, <1>2 DEF Ascending
  <2>2. HoldsAll(Q, x, m)
    BY <1>7 DEF HoldsAll
  <2> HIDE DEF Q, m
  <2> QED
    BY <2>1, <2>2, GaplessIsNear
<1> QED
  BY <1>8, <1>9

\* G divides the results in S: every one is in one group, with those it belongs together with.
Classes(results, n, G, S) ==
    /\ \A g \in G : g \in Seq(1..n) /\ g # <<>> /\ ToSet(g) \in SUBSET S
    /\ \A i \in S : \E g \in G : i \in ToSet(g)
    /\ \A g, h \in G, i \in S : i \in ToSet(g) /\ i \in ToSet(h) => g = h
    /\ \A g \in G, i, j \in S : i # j /\ i \in ToSet(g) => (j \in ToSet(g) <=> Together(results, i, j))

\* Windows divide the results without a parent.
LEMMA WindowClasses ==
    ASSUME NEW results, NEW n, ResultsOk(results, n), NEW doc
    PROVE  Classes(results, n, WindowGroups(results, doc), Single(results, n, doc))
<1> DEFINE r == ByPlace(results, doc)
           x == PlaceAt(results, r)
           S == Single(results, n, doc)
           m == Len(r)
<1>1. /\ r \in Seq(1..n) /\ Distinct(r) /\ ToSet(r) = S
      /\ PlacesOf(results, r, x) /\ Growing(x, m)
  BY ByPlaceIs
<1>2. \A p, q \in 1..m : p < q => /\ Linked(results, r[p], r[q]) <=> Near(x, p, q)
                                  /\ Linked(results, r[q], r[p]) <=> Near(x, p, q)
  BY LinkedIsNear
<1> HIDE DEF r, x
<1>3. PICK g, f : WindowGroups(results, doc) = ToSet(g) /\ Windows(g, f, r, x, 1..n, m)
  BY <1>1, WindowGroupsAre DEF r
<1> DEFINE L == Len(g)
           G == WindowGroups(results, doc)
<1>4. g \in Seq(Seq(1..n) \ {<<>>}) /\ f \in [1..m -> 1..L] /\ m \in Nat /\ L \in Nat
      /\ DOMAIN g = 1..L /\ DOMAIN r = 1..m
  BY <1>1, <1>3 DEF Windows
<1>5. \A k \in 1..L : HoldsAs(g[k], f, r, m, k) /\ g[k] \in Seq(1..n) /\ g[k] # <<>>
  BY <1>3, <1>4 DEF Windows
<1>6. \A a, b \in 1..m : a < b => (f[a] = f[b] <=> Near(x, a, b))
  BY <1>3 DEF Windows
<1>7. \A i : i \in S <=> \E a \in 1..m : i = r[a]
  BY <1>1, <1>4 DEF ToSet
<1>8. \A a, b \in 1..m : r[a] = r[b] => a = b
  BY <1>1, <1>4 DEF Distinct
<1>9. \A h : h \in G <=> \E k \in 1..L : h = g[k]
  BY <1>3, <1>4 DEF ToSet
<1> HIDE DEF m, L, G, S
<1>10. \A k \in 1..L, a \in 1..m : r[a] \in ToSet(g[k]) <=> f[a] = k
  <2> SUFFICES ASSUME NEW k \in 1..L, NEW a \in 1..m PROVE r[a] \in ToSet(g[k]) <=> f[a] = k
    OBVIOUS
  <2>h. HoldsAs(g[k], f, r, m, k)
    BY <1>5
  <2>1. f[a] = k => r[a] \in ToSet(g[k])
    BY <2>h DEF HoldsAs
  <2>2. ASSUME r[a] \in ToSet(g[k]) PROVE f[a] = k
    <3>1. PICK b \in 1..m : f[b] = k /\ r[a] = r[b]
      BY <2>h, <2>2 DEF HoldsAs
    <3> QED
      BY <1>8, <3>1
  <2> QED
    BY <2>1, <2>2
<1>11. \A i, j \in S : i # j => (Together(results, i, j) <=> Linked(results, i, j))
  <2> SUFFICES ASSUME NEW i \in S, NEW j \in S
               PROVE  Together(results, i, j) <=> Linked(results, i, j)
    OBVIOUS
  <2>1. /\ results[i].hit.doc = doc /\ results[i].parent = {} /\ results[i].known
        /\ results[j].hit.doc = doc /\ results[j].parent = {} /\ results[j].known
    BY DEF S, Single
  <2> QED
    BY <2>1 DEF Together
<1>12. ASSUME NEW h \in G PROVE h \in Seq(1..n) /\ h # <<>> /\ ToSet(h) \in SUBSET S
  <2>1. PICK k \in 1..L : h = g[k]
    BY <1>9
  <2>h. HoldsAs(g[k], f, r, m, k)
    BY <1>5
  <2>2. \A z \in ToSet(g[k]) : \E a \in 1..m : z = r[a]
    BY <2>h DEF HoldsAs
  <2> QED
    BY <1>5, <1>7, <2>1, <2>2
<1>13. ASSUME NEW i \in S PROVE \E h \in G : i \in ToSet(h)
  <2>1. PICK a \in 1..m : i = r[a]
    BY <1>7
  <2>2. f[a] \in 1..L
    BY <1>4
  <2> QED
    BY <1>9, <1>10, <2>1, <2>2
<1>14. ASSUME NEW h \in G, NEW k \in G, NEW i \in S, i \in ToSet(h), i \in ToSet(k) PROVE h = k
  <2>1. PICK a \in 1..m : i = r[a]
    BY <1>7
  <2>2. PICK b \in 1..L, c \in 1..L : h = g[b] /\ k = g[c]
    BY <1>9
  <2>3. f[a] = b /\ f[a] = c
    BY <1>10, <1>14, <2>1, <2>2
  <2> QED
    BY <2>2, <2>3
<1>15. ASSUME NEW h \in G, NEW i \in S, NEW j \in S, i # j, i \in ToSet(h)
       PROVE  j \in ToSet(h) <=> Together(results, i, j)
  <2>1. PICK a \in 1..m, b \in 1..m : i = r[a] /\ j = r[b]
    BY <1>7
  <2>2. PICK k \in 1..L : h = g[k]
    BY <1>9
  <2>3. f[a] = k /\ (j \in ToSet(h) <=> f[b] = k)
    BY <1>10, <1>15, <2>1, <2>2
  <2>4. f[a] = f[b] <=> Linked(results, i, j)
    <3>1. a < b \/ b < a
      BY <1>4, <1>15, <2>1
    <3>2. CASE a < b
      BY <1>2, <1>6, <2>1, <3>2 DEF m
    <3>3. CASE b < a
      BY <1>2, <1>6, <2>1, <3>3 DEF m
    <3> QED
      BY <3>1, <3>2, <3>3
  <2> QED
    BY <1>11, <1>15, <2>3, <2>4
<1>16. Classes(results, n, G, S)
  BY <1>12, <1>13, <1>14, <1>15 DEF Classes
<1> QED
  BY <1>16 DEF G, S

Parented(results, n) == {j \in 1..n : results[j].parent # {}}

Lone(results, n) == {j \in 1..n : ~results[j].known}

Placed(results, n) == {j \in 1..n : results[j].parent = {} /\ results[j].known}

\* The results of one parent.
LEMMA SamePlaceIs ==
    ASSUME NEW results, NEW n, ResultsOk(results, n), NEW i \in 1..n
    PROVE  /\ SamePlace(results, i) \in Seq(1..n)
           /\ \A j : j \in ToSet(SamePlace(results, i)) <=>
                        /\ j \in 1..n /\ results[j].hit.doc = results[i].hit.doc
                        /\ results[j].parent = results[i].parent
<1> DEFINE S == {j \in 1..n : /\ results[j].hit.doc = results[i].hit.doc
                              /\ results[j].parent = results[i].parent}
           R == {p \in S \X S : p[1] < p[2]}
           s == SamePlace(results, i)
<1>1. n \in Nat /\ DOMAIN results = 1..n
  BY DEF ResultsOk
<1>2. s = InOrder(S, R)
  BY <1>1 DEF SamePlace, Ranks
<1>3. S \in SUBSET (1..n) /\ IsFiniteSet(S)
  <2>1. IsFiniteSet(1..n)
    BY <1>1, FS_Interval
  <2>2. S \in SUBSET (1..n)
    OBVIOUS
  <2> HIDE DEF S
  <2> QED
    BY <2>1, <2>2, FS_Subset
<1>4. \A j : j \in S <=> /\ j \in 1..n /\ results[j].hit.doc = results[i].hit.doc
                         /\ results[j].parent = results[i].parent
  OBVIOUS
<1> HIDE DEF S
<1>5. Strict(S, R)
  <2>0. \A a \in S : a \in Nat
    BY <1>1, <1>3
  <2>1. \A a \in S : <<a, a>> \notin R
    BY <2>0
  <2>2. \A a, b \in S : a # b => <<a, b>> \in R \/ <<b, a>> \in R
    BY <2>0
  <2>3. \A a, b, c \in S : <<a, b>> \in R /\ <<b, c>> \in R => <<a, c>> \in R
    BY <2>0
  <2> HIDE DEF R
  <2> QED
    BY <2>1, <2>2, <2>3 DEF Strict
<1> HIDE DEF R, s
<1>6. s \in Seq(S) /\ ToSet(s) = S
  BY <1>2, <1>3, <1>5, Ordered
<1>7. s \in Seq(1..n)
  <2>1. Len(s) \in Nat /\ s \in [1..Len(s) -> S]
    BY <1>6
  <2>2. s \in Values(1..n, Len(s))
    BY <1>3, <2>1 DEF Values
  <2> QED
    BY <2>1, <2>2, ValuesAreListed
<1> QED
  BY <1>4, <1>6, <1>7 DEF s

\* Parents divide the results that have one.
LEMMA ParentClasses ==
    ASSUME NEW results, NEW n, ResultsOk(results, n)
    PROVE  Classes(results, n, ParentGroups(results), Parented(results, n))
<1> DEFINE G == ParentGroups(results)
           S == Parented(results, n)
<1>1. DOMAIN results = 1..n
  BY DEF ResultsOk
<1>2. \A g : g \in G <=> \E i \in S : g = SamePlace(results, i)
  BY <1>1 DEF ParentGroups, Parented, Ranks
<1>3. \A i \in S : i \in 1..n /\ results[i].parent # {} /\ results[i].known
  BY DEF Parented, ResultsOk, ResultOk
<1>4. \A i \in S :
         /\ SamePlace(results, i) \in Seq(1..n)
         /\ \A j : j \in ToSet(SamePlace(results, i)) <=>
                        /\ j \in 1..n /\ results[j].hit.doc = results[i].hit.doc
                        /\ results[j].parent = results[i].parent
  BY <1>3, SamePlaceIs
<1>5. \A j \in 1..n : j \in S <=> results[j].parent # {}
  BY DEF Parented
<1> HIDE DEF G, S
<1>6. ASSUME NEW g \in G PROVE g \in Seq(1..n) /\ g # <<>> /\ ToSet(g) \in SUBSET S
  <2>1. PICK i \in S : g = SamePlace(results, i)
    BY <1>2
  <2>2. i \in ToSet(g)
    BY <1>3, <1>4, <2>1
  <2>3. g # <<>>
    BY <2>2 DEF ToSet
  <2>4. \A j \in ToSet(g) : j \in S
    BY <1>3, <1>4, <1>5, <2>1
  <2> QED
    BY <1>4, <2>1, <2>3, <2>4
<1>7. ASSUME NEW i \in S PROVE \E g \in G : i \in ToSet(g)
  BY <1>2, <1>3, <1>4
<1>8. ASSUME NEW g \in G, NEW h \in G, NEW i \in S, i \in ToSet(g), i \in ToSet(h) PROVE g = h
  <2>1. PICK a \in S, b \in S : g = SamePlace(results, a) /\ h = SamePlace(results, b)
    BY <1>2
  <2>2. /\ results[a].hit.doc = results[b].hit.doc
        /\ results[a].parent = results[b].parent
    BY <1>4, <1>8, <2>1
  <2>3. SamePlace(results, a) = SamePlace(results, b)
    BY <2>2 DEF SamePlace
  <2> QED
    BY <2>1, <2>3
<1>9. ASSUME NEW g \in G, NEW i \in S, NEW j \in S, i # j, i \in ToSet(g)
      PROVE  j \in ToSet(g) <=> Together(results, i, j)
  <2>1. PICK a \in S : g = SamePlace(results, a)
    BY <1>2
  <2>2. results[i].hit.doc = results[a].hit.doc /\ results[i].parent = results[a].parent
    BY <1>4, <1>9, <2>1
  <2>3. Together(results, i, j) <=> /\ results[i].hit.doc = results[j].hit.doc
                                    /\ results[i].parent = results[j].parent
    BY <1>3 DEF Together
  <2> QED
    BY <1>3, <1>4, <2>1, <2>2, <2>3
<1> QED
  BY <1>6, <1>7, <1>8, <1>9 DEF Classes, G, S

\* A result whose place is not known is alone.
LEMMA LoneClasses ==
    ASSUME NEW results, NEW n, ResultsOk(results, n)
    PROVE  Classes(results, n, LoneGroups(results), Lone(results, n))
<1> DEFINE G == LoneGroups(results)
           S == Lone(results, n)
<1>1. DOMAIN results = 1..n
  BY DEF ResultsOk
<1>2. \A g : g \in G <=> \E i \in S : g = <<i>>
  BY <1>1 DEF LoneGroups, Lone, Ranks
<1>3. \A i \in S : i \in 1..n /\ ~results[i].known
  BY DEF Lone
<1>4. \A i \in 1..n : <<i>> \in Seq(1..n) /\ <<i>> # <<>> /\ ToSet(<<i>>) = {i}
  BY DEF ToSet
<1> HIDE DEF G, S
<1>5. ASSUME NEW g \in G PROVE g \in Seq(1..n) /\ g # <<>> /\ ToSet(g) \in SUBSET S
  <2>1. PICK i \in S : g = <<i>>
    BY <1>2
  <2>2. i \in 1..n
    BY <1>3
  <2>3. <<i>> \in Seq(1..n) /\ <<i>> # <<>> /\ ToSet(<<i>>) = {i}
    BY <1>4, <2>2
  <2> QED
    BY <2>1, <2>3
<1>6. ASSUME NEW i \in S PROVE \E g \in G : i \in ToSet(g)
  BY <1>2, <1>3, <1>4
<1>7. ASSUME NEW g \in G, NEW h \in G, NEW i \in S, i \in ToSet(g), i \in ToSet(h) PROVE g = h
  BY <1>2, <1>3, <1>4, <1>7
<1>8. ASSUME NEW g \in G, NEW i \in S, NEW j \in S, i # j, i \in ToSet(g)
      PROVE  j \in ToSet(g) <=> Together(results, i, j)
  <2>1. ~Together(results, i, j)
    BY <1>3 DEF Together
  <2>2. j \notin ToSet(g)
    BY <1>2, <1>3, <1>4, <1>8
  <2> QED
    BY <2>1, <2>2
<1> QED
  BY <1>5, <1>6, <1>7, <1>8 DEF Classes, G, S

\* Windows of all documents.
LEMMA PlacedClasses ==
    ASSUME NEW results, NEW n, ResultsOk(results, n)
    PROVE  Classes(results, n, UNION {WindowGroups(results, d) : d \in Docs}, Placed(results, n))
<1> DEFINE G == UNION {WindowGroups(results, d) : d \in Docs}
           S == Placed(results, n)
<1>1. \A g : g \in G <=> \E d \in Docs : g \in WindowGroups(results, d)
  OBVIOUS
<1>2. \A d \in Docs : Classes(results, n, WindowGroups(results, d), Single(results, n, d))
  BY WindowClasses
<1>3. \A d, i : i \in Single(results, n, d) <=> i \in S /\ results[i].hit.doc = d
  BY DEF Single, Placed
<1>4. \A i \in S : results[i].hit.doc \in Docs
  BY DEF Placed, ResultsOk, ResultOk
<1> HIDE DEF G, S
<1>5. ASSUME NEW g \in G PROVE g \in Seq(1..n) /\ g # <<>> /\ ToSet(g) \in SUBSET S
  <2>1. PICK d \in Docs : g \in WindowGroups(results, d)
    BY <1>1
  <2>2. Classes(results, n, WindowGroups(results, d), Single(results, n, d))
    BY <1>2
  <2>3. g \in Seq(1..n) /\ g # <<>> /\ ToSet(g) \in SUBSET Single(results, n, d)
    BY <2>1, <2>2 DEF Classes
  <2> QED
    BY <1>3, <2>3
<1>6. ASSUME NEW i \in S PROVE \E g \in G : i \in ToSet(g)
  <2> DEFINE d == results[i].hit.doc
  <2>1. d \in Docs /\ i \in Single(results, n, d)
    BY <1>3, <1>4
  <2> HIDE DEF d
  <2>2. Classes(results, n, WindowGroups(results, d), Single(results, n, d))
    BY <1>2, <2>1
  <2>3. \E g \in WindowGroups(results, d) : i \in ToSet(g)
    BY <2>1, <2>2 DEF Classes
  <2> QED
    BY <1>1, <2>1, <2>3
<1>7. ASSUME NEW g \in G, NEW i \in S, i \in ToSet(g)
      PROVE  g \in WindowGroups(results, results[i].hit.doc) /\ i \in Single(results, n, results[i].hit.doc)
  <2>1. PICK d \in Docs : g \in WindowGroups(results, d)
    BY <1>1
  <2>2. Classes(results, n, WindowGroups(results, d), Single(results, n, d))
    BY <1>2
  <2>3. i \in Single(results, n, d)
    BY <1>7, <2>1, <2>2 DEF Classes
  <2> QED
    BY <1>3, <2>1, <2>3
<1>8. ASSUME NEW g \in G, NEW h \in G, NEW i \in S, i \in ToSet(g), i \in ToSet(h) PROVE g = h
  <2> DEFINE d == results[i].hit.doc
  <2>1. d \in Docs /\ g \in WindowGroups(results, d) /\ h \in WindowGroups(results, d)
        /\ i \in Single(results, n, d)
    BY <1>4, <1>7, <1>8
  <2> HIDE DEF d
  <2>2. Classes(results, n, WindowGroups(results, d), Single(results, n, d))
    BY <1>2, <2>1
  <2> QED
    BY <1>8, <2>1, <2>2 DEF Classes
<1>9. ASSUME NEW g \in G, NEW i \in S, NEW j \in S, i # j, i \in ToSet(g)
      PROVE  j \in ToSet(g) <=> Together(results, i, j)
  <2> DEFINE d == results[i].hit.doc
  <2>1. d \in Docs /\ g \in WindowGroups(results, d) /\ i \in Single(results, n, d)
    BY <1>4, <1>7, <1>9
  <2>2. j \in Single(results, n, d) <=> results[j].hit.doc = d
    BY <1>3
  <2>3. Together(results, i, j) => results[j].hit.doc = d
    BY DEF Together
  <2> HIDE DEF d
  <2>4. Classes(results, n, WindowGroups(results, d), Single(results, n, d))
    BY <1>2, <2>1
  <2>5. j \in ToSet(g) => j \in Single(results, n, d)
    BY <2>1, <2>4 DEF Classes
  <2>6. j \in Single(results, n, d) => (j \in ToSet(g) <=> Together(results, i, j))
    BY <1>9, <2>1, <2>4 DEF Classes
  <2> QED
    BY <2>2, <2>3, <2>5, <2>6
<1> QED
  BY <1>5, <1>6, <1>8, <1>9 DEF Classes, G, S

Unrelated(results, S, T) ==
    \A i \in S, j \in T : i # j /\ ~Together(results, i, j) /\ ~Together(results, j, i)

\* Two divisions of results that have nothing to do with each other.
LEMMA ClassesTogether ==
    ASSUME NEW results, NEW n, NEW G, NEW S, NEW H, NEW T, Classes(results, n, G, S),
           Classes(results, n, H, T), Unrelated(results, S, T)
    PROVE  Classes(results, n, G \cup H, S \cup T)
<1>1. \A g \in G \cup H : g \in Seq(1..n) /\ g # <<>> /\ ToSet(g) \in SUBSET (S \cup T)
  BY DEF Classes
<1>2. \A i \in S \cup T : \E g \in G \cup H : i \in ToSet(g)
  BY DEF Classes
<1>3. \A g \in G : ToSet(g) \in SUBSET S
  BY DEF Classes
<1>4. \A g \in H : ToSet(g) \in SUBSET T
  BY DEF Classes
<1>5. \A i \in S : i \notin T
  BY DEF Unrelated
<1>6. \A g \in G \cup H, i \in S \cup T : i \in ToSet(g) => (g \in G /\ i \in S) \/ (g \in H /\ i \in T)
  BY <1>3, <1>4
<1>7. ASSUME NEW g \in G \cup H, NEW h \in G \cup H, NEW i \in S \cup T, i \in ToSet(g), i \in ToSet(h)
      PROVE  g = h
  <2>1. (g \in G /\ h \in G /\ i \in S) \/ (g \in H /\ h \in H /\ i \in T)
    BY <1>5, <1>6, <1>7
  <2> QED
    BY <1>7, <2>1 DEF Classes
<1>8. ASSUME NEW g \in G \cup H, NEW i \in S \cup T, NEW j \in S \cup T, i # j, i \in ToSet(g)
      PROVE  j \in ToSet(g) <=> Together(results, i, j)
  <2>1. CASE g \in G /\ i \in S
    <3>1. CASE j \in S
      BY <1>8, <2>1, <3>1 DEF Classes
    <3>2. CASE j \notin S
      BY <1>3, <2>1, <3>2 DEF Unrelated
    <3> QED
      BY <3>1, <3>2
  <2>2. CASE g \in H /\ i \in T
    <3>1. CASE j \in T
      BY <1>8, <2>2, <3>1 DEF Classes
    <3>2. CASE j \notin T
      BY <1>4, <2>2, <3>2 DEF Unrelated
    <3> QED
      BY <3>1, <3>2
  <2> QED
    BY <1>6, <1>8, <2>1, <2>2
<1> QED
  BY <1>1, <1>2, <1>7, <1>8 DEF Classes

AllGroups(results) ==
    ParentGroups(results) \cup LoneGroups(results)
    \cup UNION {WindowGroups(results, d) : d \in Docs}

\* All groups divide all results.
LEMMA AllClasses ==
    ASSUME NEW results, NEW n, ResultsOk(results, n)
    PROVE  Classes(results, n, AllGroups(results), 1..n)
<1> DEFINE P == Parented(results, n)
           L == Lone(results, n)
           W == Placed(results, n)
           windows == UNION {WindowGroups(results, d) : d \in Docs}
<1>1. \A i \in 1..n : (results[i].parent # {} => results[i].known) /\ results[i].known \in BOOLEAN
  BY DEF ResultsOk, ResultOk
<1>2. Unrelated(results, P, L)
  BY <1>1 DEF Unrelated, Together, Parented, Lone
<1>3. Unrelated(results, P \cup L, W)
  BY <1>1 DEF Unrelated, Together, Parented, Lone, Placed
<1>4. (P \cup L) \cup W = 1..n
  BY <1>1 DEF Parented, Lone, Placed
<1> HIDE DEF P, L, W, windows
<1>5. Classes(results, n, ParentGroups(results) \cup LoneGroups(results), P \cup L)
  BY <1>2, ParentClasses, LoneClasses, ClassesTogether DEF P, L
<1>6. Classes(results, n, (ParentGroups(results) \cup LoneGroups(results)) \cup windows, (P \cup L) \cup W)
  BY <1>3, <1>5, PlacedClasses, ClassesTogether DEF W, windows
<1> QED
  BY <1>4, <1>6 DEF AllGroups, windows

\* The best rank of a group is one of its members.
LEMMA BestRankIs ==
    ASSUME NEW n \in Nat, NEW g \in Seq(1..n), g # <<>>
    PROVE  BestRank(g) \in ToSet(g) /\ BestRank(g) \in 1..n
<1>1. DOMAIN g = 1..Len(g) /\ \A i \in 1..Len(g) : g[i] \in 1..n
  OBVIOUS
<1>2. ToSet(g) \in SUBSET (1..n)
  BY <1>1 DEF ToSet
<1>3. g[1] \in ToSet(g)
  BY <1>1 DEF ToSet
<1>4. PICK d \in ToSet(g) : \A e \in ToSet(g) : d <= e
  <2>1. ToSet(g) \in SUBSET Nat
    BY <1>2
  <2> QED
    BY <1>3, <2>1, LeastNat
<1>5. BestRank(g) \in ToSet(g)
  BY <1>4 DEF BestRank
<1> QED
  BY <1>2, <1>5

\* Every result is in one list; two share one exactly when they belong together; the lists
\* come in the order of their best ranks.
GroupsOk(lists, results, n) ==
    /\ lists \in Seq(Seq(1..n))
    /\ \A i \in 1..n : \E k \in 1..Len(lists) :
          /\ i \in ToSet(lists[k])
          /\ \A l \in 1..Len(lists) : i \in ToSet(lists[l]) => l = k
    /\ \A i, j \in 1..n :
          i # j => ((\E k \in 1..Len(lists) : i \in ToSet(lists[k]) /\ j \in ToSet(lists[k]))
                    <=> Together(results, i, j))
    /\ \A k \in 1..Len(lists) - 1 : BestRank(lists[k]) < BestRank(lists[k + 1])

\* assemble_context_groups makes such lists.
LEMMA GroupListsAre ==
    ASSUME NEW results, NEW n, ResultsOk(results, n)
    PROVE  GroupsOk(GroupLists(results), results, n)
<1> DEFINE U == AllGroups(results)
           R == {p \in U \X U : BestRank(p[1]) < BestRank(p[2])}
           lists == GroupLists(results)
           m == Len(lists)
           f == [i \in 1..n |-> CHOOSE g \in U : i \in ToSet(g)]
<1>0. n \in Nat
  BY DEF ResultsOk
<1>1. Classes(results, n, U, 1..n)
  BY AllClasses
<1>2. lists = InOrder(U, R)
  BY DEF GroupLists, AllGroups
<1> HIDE DEF U
<1>3. /\ \A g \in U : g \in Seq(1..n) /\ g # <<>>
      /\ \A i \in 1..n : \E g \in U : i \in ToSet(g)
      /\ \A g, h \in U, i \in 1..n : i \in ToSet(g) /\ i \in ToSet(h) => g = h
  BY <1>1 DEF Classes
<1>4. \A g \in U, i, j \in 1..n : i # j /\ i \in ToSet(g) => (j \in ToSet(g) <=> Together(results, i, j))
  BY <1>1 DEF Classes
<1>5. \A g \in U : BestRank(g) \in ToSet(g) /\ BestRank(g) \in 1..n
  BY <1>0, <1>3, BestRankIs
<1>6. IsFiniteSet(U)
  <2>1. \A i \in 1..n : f[i] \in U /\ i \in ToSet(f[i])
    BY <1>3
  <2>2. f \in [1..n -> U]
    BY <2>1
  <2>3. \A g \in U : \E i \in 1..n : f[i] = g
    BY <1>3, <1>5, <2>1
  <2> HIDE DEF f
  <2>4. f \in Surjection(1..n, U)
    BY <2>2, <2>3 DEF Surjection
  <2>5. IsFiniteSet(1..n)
    BY <1>0, FS_Interval
  <2> QED
    BY <2>4, <2>5, FS_Surjection
<1>7. Strict(U, R)
  <2>0. \A g \in U : BestRank(g) \in Nat
    BY <1>0, <1>5
  <2>1. \A g \in U : <<g, g>> \notin R
    BY <2>0
  <2>2. \A g, h \in U : BestRank(g) = BestRank(h) => g = h
    BY <1>3, <1>5
  <2>3. \A g, h \in U : g # h => <<g, h>> \in R \/ <<h, g>> \in R
    BY <2>0, <2>2
  <2>4. \A g, h, k \in U : <<g, h>> \in R /\ <<h, k>> \in R => <<g, k>> \in R
    BY <2>0
  <2> HIDE DEF R
  <2> QED
    BY <2>1, <2>3, <2>4 DEF Strict
<1>8. /\ lists \in Seq(U) /\ Distinct(lists) /\ ToSet(lists) = U
      /\ \A i, j \in 1..Len(lists) : i < j <=> <<lists[i], lists[j]>> \in R
  <2> HIDE DEF R, lists
  <2> QED
    BY <1>2, <1>6, <1>7, Ordered
<1> HIDE DEF lists
<1>9. m \in Nat /\ DOMAIN lists = 1..m /\ \A k \in 1..m : lists[k] \in U
  BY <1>8
<1>10. \A g \in U : \E k \in 1..m : g = lists[k]
  BY <1>8, <1>9 DEF ToSet
<1>11. \A k, l \in 1..m : lists[k] = lists[l] => k = l
  BY <1>8, <1>9 DEF Distinct
<1>12. \A k \in 1..m : lists[k] \in Seq(1..n)
  BY <1>3, <1>9
<1>13. lists \in Seq(Seq(1..n))
  <2>1. lists \in [1..m -> U]
    BY <1>8, <1>9
  <2>2. lists \in Values(Seq(1..n), m)
    BY <1>12, <2>1 DEF Values
  <2> QED
    BY <1>9, <2>2, ValuesAreListed
<1>14. ASSUME NEW i \in 1..n
       PROVE  \E k \in 1..m : /\ i \in ToSet(lists[k])
                              /\ \A l \in 1..m : i \in ToSet(lists[l]) => l = k
  <2>1. PICK g \in U : i \in ToSet(g)
    BY <1>3
  <2>2. PICK k \in 1..m : g = lists[k]
    BY <1>10
  <2>3. \A l \in 1..m : i \in ToSet(lists[l]) => lists[l] = lists[k]
    BY <1>3, <1>9, <2>1, <2>2
  <2> QED
    BY <1>11, <2>1, <2>2, <2>3
<1>15. ASSUME NEW i \in 1..n, NEW j \in 1..n, i # j
       PROVE  (\E k \in 1..m : i \in ToSet(lists[k]) /\ j \in ToSet(lists[k]))
                 <=> Together(results, i, j)
  <2>1. PICK k \in 1..m : i \in ToSet(lists[k])
    BY <1>14
  <2>2. ASSUME Together(results, i, j) PROVE j \in ToSet(lists[k])
    BY <1>4, <1>9, <1>15, <2>1, <2>2
  <2>3. ASSUME NEW l \in 1..m, i \in ToSet(lists[l]), j \in ToSet(lists[l])
        PROVE  Together(results, i, j)
    BY <1>4, <1>9, <1>15, <2>3
  <2> QED
    BY <2>1, <2>2, <2>3
<1>16. ASSUME NEW k \in 1..m - 1 PROVE BestRank(lists[k]) < BestRank(lists[k + 1])
  <2>1. k \in 1..m /\ k + 1 \in 1..m /\ k < k + 1
    BY <1>9
  <2>2. <<lists[k], lists[k + 1]>> \in R
    <3> HIDE DEF R
    <3> QED
      BY <1>8, <2>1
  <2> QED
    BY <2>2
<1> QED
  BY <1>13, <1>14, <1>15, <1>16 DEF GroupsOk, lists

\* The groups given to the model.
LEMMA AssembledIs ==
    ASSUME NEW results, NEW n, ResultsOk(results, n), NEW lists, lists = GroupLists(results),
           NEW b, b = AssembleGroups(results), NEW m, m = Len(lists)
    PROVE  /\ m \in Nat /\ DOMAIN b = 1..m /\ Len(b) = m
           /\ \A k \in 1..m : b[k].members = lists[k]
           /\ Spent(b) <= TotalMax
           /\ \A k \in 1..m : b[k].text # GroupText(results, b[k].members) => Spent(b) = TotalMax
<1> DEFINE M == Seq(1..n)
           T == [members : M, text : Seq(Cell)]
           groups == [k \in DOMAIN lists |->
                         [members |-> lists[k], text |-> GroupText(results, lists[k])]]
<1>1. lists \in Seq(M)
  BY GroupListsAre DEF GroupsOk
<1>2. m \in Nat /\ DOMAIN lists = 1..m /\ \A k \in 1..m : lists[k] \in M
  BY <1>1
<1>3. Ranks(results) = 1..n /\ \A i \in Ranks(results) : results[i].text \in Seq(Cell)
  BY DEF Ranks, ResultsOk, ResultOk
<1>4. \A k \in 1..m : GroupText(results, lists[k]) \in Seq(Cell)
  BY <1>2, <1>3, GroupTextIs
<1>5. groups \in TextsOf(M, m)
  BY <1>2, <1>4 DEF TextsOf
<1>6. \A k \in 1..m : groups[k].members = lists[k] /\ groups[k].text = GroupText(results, lists[k])
  BY <1>2
<1>7. b = Budgeted(groups)
  BY DEF AssembleGroups
<1> HIDE DEF groups, M
<1>8. /\ b \in TextsOf(M, m)
      /\ \A k \in 1..m : b[k].members = groups[k].members
      /\ Spent(b) <= TotalMax
      /\ \A k \in 1..m : b[k].text # groups[k].text => Spent(b) = TotalMax
  BY <1>2, <1>5, <1>7, BudgetHolds
<1>9. DOMAIN b = 1..m /\ Len(b) = m
  <2>1. b \in Values(T, m)
    BY <1>8 DEF Values, TextsOf
  <2> HIDE DEF T
  <2>2. Len(b) = m
    BY <1>2, <2>1, ValuesAreListed
  <2> QED
    BY <1>8, <2>2 DEF TextsOf
<1> QED
  BY <1>2, <1>6, <1>8, <1>9

-----------------------------------------------------------------------------
(* The invariant of a search's context. *)

HitOk(p, drafts) ==
    p.doc \in Docs /\ p.seq \in Nat \ {0} /\ p.seq <= Len(drafts[p.doc])

HitsOk(hits, drafts) ==
    \E n \in Nat : /\ hits = [i \in 1..n |-> hits[i]]
                   /\ \A i \in 1..n : HitOk(hits[i], drafts)

\* The fields of the search.
ContextOk ==
    /\ context = [pc |-> context.pc, drafts |-> context.drafts, hits |-> context.hits,
                  replaced |-> context.replaced, kept |-> context.kept,
                  regrouped |-> context.regrouped, results |-> context.results,
                  groups |-> context.groups]
    /\ context.pc \in {"search", "hits", "chunks", "expanded", "done"}
    /\ context.drafts \in [Docs -> Drafts]
    /\ KeptOk

\* Every text holds the chunk that its hit's number finds.
TextsHold ==
    \A i \in DOMAIN context.results :
        HasHit(context.results[i].text, context.results[i].hit.doc, Found(context.results[i].hit))

SearchedOk ==
    /\ context.pc # "search" => HitsOk(context.hits, context.drafts)
    /\ context.pc \in {"search", "hits", "chunks"} => context.results = <<>>
    /\ context.pc \in {"expanded", "done"} =>
          TextsHold /\ \E n \in Nat : ResultsOk(context.results, n)
    /\ context.pc = "done" => context.groups = AssembleGroups(context.results)

ContextIInv == ContextOk /\ SearchedOk

\* Before a search there is nothing to show.
LEMMA ContextStart == ContextInit => ContextIInv
BY DEF ContextInit, ContextIInv, ContextOk, SearchedOk, KeptOk

\* The final results of a search are different places,
LEMMA HitStep == ContextIInv /\ Hit => ContextIInv'
<1> SUFFICES ASSUME ContextIInv, Hit PROVE ContextIInv'
  OBVIOUS
<1>1. context.pc = "search" /\ context.results = <<>>
  BY DEF Hit, ContextIInv, SearchedOk
<1>2. PICK hits \in HitLists(context.drafts) : context' = [context EXCEPT !.pc = "hits", !.hits = hits]
  BY DEF Hit
<1>3. /\ context'.pc = "hits" /\ context'.drafts = context.drafts /\ context'.hits = hits
      /\ context'.results = <<>> /\ ContextOk'
  BY <1>1, <1>2 DEF ContextIInv, ContextOk, KeptOk
<1> DEFINE places == {p \in Places(context.drafts) : p.seq <= Len(context.drafts[p.doc])}
<1>4. PICK n \in 1..MaxHits : hits \in [1..n -> places]
  BY <1>2 DEF HitLists
<1>6. ASSUME NEW p \in places PROVE HitOk(p, context.drafts)
  <2>1. PICK d \in Docs, s \in 1..MaxChildren * 2 : p = [doc |-> d, seq |-> s]
    BY DEF Places
  <2>2. s \in Nat \ {0}
    BY ContextAssumption
  <2> QED
    BY <2>1, <2>2 DEF HitOk
<1> HIDE DEF places
<1>7. n \in Nat /\ hits = [i \in 1..n |-> hits[i]] /\ \A i \in 1..n : HitOk(hits[i], context.drafts)
  BY <1>4, <1>6, ContextAssumption
<1>8. HitsOk(hits, context.drafts)
  BY <1>7 DEF HitsOk
<1> QED
  BY <1>3, <1>8 DEF ContextIInv, SearchedOk

\* stay so when a document is indexed again,
LEMMA ReplaceStep == ContextIInv /\ Replace => ContextIInv'
<1> SUFFICES ASSUME ContextIInv, Replace PROVE ContextIInv'
  OBVIOUS
<1>1. PICK d \in HitDocs \ context.replaced : context' = [context EXCEPT !.replaced = @ \cup {d}]
  BY DEF Replace
<1>2. context.pc = "hits" /\ HitsOk(context.hits, context.drafts) /\ context.results = <<>>
  BY DEF Replace, ContextIInv, SearchedOk
<1>3. /\ context'.pc = "hits" /\ context'.drafts = context.drafts /\ context'.hits = context.hits
      /\ context'.results = <<>> /\ ContextOk'
  BY <1>1, <1>2 DEF ContextIInv, ContextOk, KeptOk
<1> QED
  BY <1>2, <1>3 DEF ContextIInv, SearchedOk

\* find chunks of their documents,
LEMMA ReadChunksStep == ContextIInv /\ ReadChunks => ContextIInv'
<1> SUFFICES ASSUME ContextIInv, ReadChunks PROVE ContextIInv'
  OBVIOUS
<1>1. PICK kept \in [OldHits -> 1..MaxChildren * 2] :
         /\ \A d \in OldHits : kept[d] <= Len(context.drafts[d])
         /\ context' = [context EXCEPT !.pc = "chunks", !.kept = kept]
  BY DEF ReadChunks
<1>2. context.pc = "hits" /\ HitsOk(context.hits, context.drafts) /\ context.results = <<>>
  BY DEF ReadChunks, ContextIInv, SearchedOk
<1>3. /\ context'.pc = "chunks" /\ context'.drafts = context.drafts /\ context'.hits = context.hits
      /\ context'.results = <<>> /\ context'.kept = kept
  BY <1>1, <1>2 DEF ContextIInv, ContextOk
<1>4. KeptOk'
  BY <1>1, <1>3, ContextAssumption DEF KeptOk
<1>5. ContextOk'
  BY <1>1, <1>4 DEF ContextIInv, ContextOk
<1> QED
  BY <1>2, <1>3, <1>5 DEF ContextIInv, SearchedOk

\* also when blocks are gone,
LEMMA RegroupStep == ContextIInv /\ Regroup => ContextIInv'
<1> SUFFICES ASSUME ContextIInv, Regroup PROVE ContextIInv'
  OBVIOUS
<1>1. PICK d : context' = [context EXCEPT !.regrouped = @ \cup {d}]
  BY DEF Regroup
<1>2. context.pc = "chunks" /\ HitsOk(context.hits, context.drafts) /\ context.results = <<>>
  BY DEF Regroup, ContextIInv, SearchedOk
<1>3. /\ context'.pc = "chunks" /\ context'.drafts = context.drafts /\ context'.hits = context.hits
      /\ context'.results = <<>> /\ ContextOk'
  BY <1>1, <1>2 DEF ContextIInv, ContextOk, KeptOk
<1> QED
  BY <1>2, <1>3 DEF ContextIInv, SearchedOk

\* become texts that hold what was found,
LEMMA ReadBlocksStep == ContextIInv /\ ReadBlocks => ContextIInv'
<1> SUFFICES ASSUME ContextIInv, ReadBlocks PROVE ContextIInv'
  OBVIOUS
<1> DEFINE hits == context.hits
           results == [i \in DOMAIN hits |-> Expanded(hits[i])]
<1>1. context' = [context EXCEPT !.pc = "expanded", !.results = results]
  BY DEF ReadBlocks
<1>2. /\ context.pc = "chunks" /\ HitsOk(hits, context.drafts) /\ KeptOk
      /\ context.drafts \in [Docs -> Drafts]
  BY DEF ReadBlocks, ContextIInv, ContextOk, SearchedOk
<1>3. PICK n \in Nat : /\ hits = [i \in 1..n |-> hits[i]]
                       /\ \A i \in 1..n : HitOk(hits[i], context.drafts)
  BY <1>2 DEF HitsOk
<1>4. DOMAIN hits = 1..n
  BY <1>3
<1>5. \A i \in 1..n : /\ results[i].hit = hits[i] /\ ResultOk(results[i])
                       /\ HasHit(results[i].text, hits[i].doc, Found(hits[i]))
  <2> SUFFICES ASSUME NEW i \in 1..n
               PROVE  /\ results[i].hit = hits[i] /\ ResultOk(results[i])
                      /\ HasHit(results[i].text, hits[i].doc, Found(hits[i]))
    OBVIOUS
  <2> DEFINE p == hits[i]
  <2>1. results[i] = Expanded(p)
    BY <1>4
  <2>2. IsPlace(p)
    BY <1>3 DEF HitOk, IsPlace
  <2> HIDE DEF p, results
  <2>3. /\ Expanded(p).hit = p /\ ResultOk(Expanded(p))
        /\ HasHit(Expanded(p).text, p.doc, Found(p))
    BY <1>2, <2>2, ExpandedOk
  <2> QED
    BY <2>1, <2>3 DEF p
<1>6. DOMAIN results = 1..n
  BY <1>4
<1> HIDE DEF results, hits
<1>7. ResultsOk(results, n)
  BY <1>3, <1>5, <1>6 DEF ResultsOk
<1>8. /\ context'.pc = "expanded" /\ context'.drafts = context.drafts /\ context'.hits = hits
      /\ context'.results = results /\ context'.kept = context.kept /\ ContextOk'
  BY <1>1 DEF ContextIInv, ContextOk, KeptOk, hits
<1>9. TextsHold'
  BY <1>5, <1>6, <1>8 DEF TextsHold, Found
<1> QED
  BY <1>2, <1>7, <1>8, <1>9 DEF ContextIInv, SearchedOk

\* and are put into groups.
LEMMA AssembleContextStep == ContextIInv /\ AssembleContext => ContextIInv'
<1> SUFFICES ASSUME ContextIInv, AssembleContext PROVE ContextIInv'
  OBVIOUS
<1> DEFINE groups == AssembleGroups(context.results)
<1>1. context' = [context EXCEPT !.pc = "done", !.groups = groups]
  BY DEF AssembleContext
<1>2. /\ context.pc = "expanded" /\ HitsOk(context.hits, context.drafts)
      /\ TextsHold /\ \E n \in Nat : ResultsOk(context.results, n)
  BY DEF AssembleContext, ContextIInv, SearchedOk
<1> HIDE DEF groups
<1>3. /\ context'.pc = "done" /\ context'.drafts = context.drafts /\ context'.hits = context.hits
      /\ context'.results = context.results /\ context'.kept = context.kept
      /\ context'.groups = groups /\ ContextOk'
  BY <1>1 DEF ContextIInv, ContextOk, KeptOk
<1>4. context'.groups = AssembleGroups(context'.results)
  BY <1>3 DEF groups
<1>5. TextsHold'
  BY <1>2, <1>3 DEF TextsHold, Found
<1> QED
  BY <1>2, <1>3, <1>4, <1>5 DEF ContextIInv, SearchedOk

\* The blocks of every document partition its chunks.
LEMMA PartitionOk == ContextIInv => BlocksPartition
<1> SUFFICES ASSUME ContextIInv, NEW d \in Docs
             PROVE  LET blocks == Blocks(context.drafts[d])
                        size(k) == blocks[k][2] - blocks[k][1] + 1
                    IN /\ context.drafts[d] # <<>> =>
                             blocks[1][1] = 1 /\ blocks[Len(blocks)][2] = Len(context.drafts[d])
                       /\ \A k \in DOMAIN blocks :
                             /\ size(k) \in 1..MaxChildren
                             /\ k < Len(blocks) =>
                                   /\ blocks[k + 1][1] = blocks[k][2] + 1
                                   /\ size(k) >= LeastOf(MinChildren, MaxChildren)
  BY DEF BlocksPartition
<1> DEFINE chunks == context.drafts[d]
           blocks == Blocks(chunks)
           m == Len(blocks)
<1>1. chunks \in Seq(ChunkType)
  BY DraftsAre DEF ContextIInv, ContextOk
<1> HIDE DEF chunks
<1>2. blocks \in Seq(BlockType) /\ Chain(blocks, Len(chunks) + 1) /\ Filled(blocks, m - 1)
      /\ Len(chunks) \in Nat
  BY <1>1, BlocksOfChunks
<1> HIDE DEF blocks
<1>3. m \in Nat /\ DOMAIN blocks = 1..m /\ \A k \in 1..m : blocks[k] \in BlockType
  BY <1>2
<1>4. chunks # <<>> => blocks[1][1] = 1 /\ blocks[m][2] = Len(chunks)
  <2> SUFFICES ASSUME chunks # <<>> PROVE blocks[1][1] = 1 /\ blocks[m][2] = Len(chunks)
    OBVIOUS
  <2>1. Len(chunks) # 0
    BY <1>1
  <2>2. blocks # <<>>
    BY <1>2, <2>1 DEF Chain
  <2> QED
    BY <1>2, <2>2 DEF Chain
<1>5. ASSUME NEW k \in 1..m
      PROVE  /\ Width(blocks[k]) \in 1..MaxChildren
             /\ k < m => /\ blocks[k + 1][1] = blocks[k][2] + 1
                         /\ Width(blocks[k]) >= LeastOf(MinChildren, MaxChildren)
  <2>1. blocks[k][1] \in Nat /\ blocks[k][2] \in Nat
    BY <1>3 DEF BlockType
  <2>2. /\ blocks[k][1] <= blocks[k][2] /\ Width(blocks[k]) <= MaxChildren
        /\ k < m => blocks[k + 1][1] = blocks[k][2] + 1
    BY <1>2 DEF Chain
  <2>3. k < m => Width(blocks[k]) >= LeastOf(MinChildren, MaxChildren)
    BY <1>2, <1>3 DEF Filled
  <2>4. Width(blocks[k]) \in 1..MaxChildren
    BY <2>1, <2>2, ContextAssumption DEF Width
  <2> QED
    BY <2>2, <2>3, <2>4
<1> QED
  BY <1>3, <1>4, <1>5 DEF Width, chunks, blocks

\* Every text holds what was found for its hit.
LEMMA HitsKept == ContextIInv => HitInContext
<1>1. ContextIInv => TextsHold
  BY DEF ContextIInv, ContextOk, SearchedOk, TextsHold
<1>2. TextsHold => HitInContext
  BY DEF TextsHold, HitInContext, HasHit, HoldsChunk
<1> QED
  BY <1>1, <1>2

\* The groups are the right ones, within the budget.
LEMMA GroupsMatch == ContextIInv => GroupsMatchPlaces /\ BudgetKept
<1> SUFFICES ASSUME ContextIInv, context.pc = "done" PROVE GroupsMatchPlaces /\ BudgetKept
  BY DEF GroupsMatchPlaces, BudgetKept
<1> DEFINE results == context.results
           groups == context.groups
           lists == GroupLists(results)
           m == Len(lists)
<1>1. PICK n \in Nat : ResultsOk(results, n)
  BY DEF ContextIInv, SearchedOk
<1>2. groups = AssembleGroups(results)
  BY DEF ContextIInv, SearchedOk
<1> HIDE DEF results, groups
<1>3. /\ m \in Nat /\ DOMAIN groups = 1..m /\ Len(groups) = m
      /\ \A k \in 1..m : groups[k].members = lists[k]
      /\ Spent(groups) <= TotalMax
      /\ \A k \in 1..m : groups[k].text # GroupText(results, groups[k].members)
                            => Spent(groups) = TotalMax
  BY <1>1, <1>2, AssembledIs
<1>4. GroupsOk(lists, results, n)
  BY <1>1, GroupListsAre
<1>5. Ranks(results) = 1..n
  BY <1>1 DEF ResultsOk, Ranks
<1> HIDE DEF lists, m
<1>6. /\ \A i \in 1..n : \E k \in 1..m :
          /\ i \in ToSet(lists[k])
          /\ \A l \in 1..m : i \in ToSet(lists[l]) => l = k
      /\ \A i, j \in 1..n :
          i # j => ((\E k \in 1..m : i \in ToSet(lists[k]) /\ j \in ToSet(lists[k]))
                    <=> Together(results, i, j))
      /\ \A k \in 1..m - 1 : BestRank(lists[k]) < BestRank(lists[k + 1])
  BY <1>4 DEF GroupsOk, m
<1>7. ASSUME NEW i \in 1..n
      PROVE  Cardinality({k \in DOMAIN groups : i \in ToSet(groups[k].members)}) = 1
  <2>1. PICK k \in 1..m : i \in ToSet(lists[k]) /\ \A l \in 1..m : i \in ToSet(lists[l]) => l = k
    BY <1>6
  <2>2. {l \in DOMAIN groups : i \in ToSet(groups[l].members)} = {k}
    BY <1>3, <2>1
  <2> QED
    BY <2>2, FS_Singleton
<1>8. ASSUME NEW i \in 1..n, NEW j \in 1..n, i # j
      PROVE  (\E k \in DOMAIN groups : {i, j} \subseteq ToSet(groups[k].members))
                <=> Together(results, i, j)
  BY <1>3, <1>6, <1>8
<1>9. ASSUME NEW k \in 1..Len(groups) - 1
      PROVE  BestRank(groups[k].members) < BestRank(groups[k + 1].members)
  <2>1. k \in 1..m - 1 /\ k \in 1..m /\ k + 1 \in 1..m
    BY <1>3
  <2> QED
    BY <1>3, <1>6, <2>1
<1>10. GroupsMatchPlaces
  BY <1>5, <1>7, <1>8, <1>9 DEF GroupsMatchPlaces, results, groups
<1>11. BudgetKept
  BY <1>3 DEF BudgetKept, results, groups
<1> QED
  BY <1>10, <1>11

\* The invariant of ContextInv: blocks partition every document, every text holds its hit,
\* groups are those whose places belong together, in the order of their best results, and
\* the total budget is kept and used.
THEOREM ContextKeeps == ContextSpec => []ContextInv
<1>1. ContextIInv /\ [ContextNext]_contextVars => ContextIInv'
  <2>1. ContextIInv /\ UNCHANGED contextVars => ContextIInv'
    BY DEF contextVars, ContextIInv, ContextOk, SearchedOk, KeptOk, TextsHold, Found
  <2> QED
    BY <2>1, HitStep, ReplaceStep, ReadChunksStep, RegroupStep, ReadBlocksStep,
       AssembleContextStep DEF ContextNext
<1>2. ContextIInv => ContextInv
  BY PartitionOk, HitsKept, GroupsMatch DEF ContextInv
<1> QED
  BY <1>1, <1>2, ContextStart, PTL DEF ContextSpec
=============================================================================
