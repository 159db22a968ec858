------------------------- MODULE StreamLayerProofs -------------------------
(* The columns of one BugStreamingLayer, for every configuration and every  *)
(* stream: which token each holds, where it is rotated to, and that their   *)
(* numbers are those TierLengths computes.                                  *)
EXTENDS StreamLayer, IndexOrderProofs, FiniteSetTheorems, FunctionTheorems,
        SequenceTheorems, TLAPS

-----------------------------------------------------------------------------
(* Sequences without duplicates and the entries they hold.                 *)

(* Concatenation unites the entries, and repeats nothing that neither part *)
(* repeats nor both hold.                                                  *)
LEMMA ConcatEntries ==
  ASSUME NEW S, NEW s \in Seq(S), NEW t \in Seq(S)
  PROVE  /\ Entries(s \o t) = Entries(s) \cup Entries(t)
         /\ Disjoint(s \o t) <=> /\ Disjoint(s) /\ Disjoint(t)
                                 /\ Entries(s) \cap Entries(t) = {}
<1> DEFINE m == Len(s)
           n == Len(t)
           w == s \o t
<1>1. /\ m \in Nat /\ n \in Nat /\ DOMAIN s = 1 .. m /\ DOMAIN t = 1 .. n
  BY LenProperties
<1>2. DOMAIN w = 1 .. m + n
  OBVIOUS
<1>3. \A i \in 1 .. m : w[i] = s[i]
  OBVIOUS
<1>4. \A i \in 1 .. n : w[m + i] = t[i]
  OBVIOUS
<1> HIDE DEF m, n, w
<1>5. \A i \in 1 .. m + n : i \in 1 .. m \/ \E j \in 1 .. n : i = m + j
  <2> SUFFICES ASSUME NEW i \in 1 .. m + n, i \notin 1 .. m
               PROVE  \E j \in 1 .. n : i = m + j
    OBVIOUS
  <2>1. i - m \in 1 .. n /\ i = m + (i - m)
    BY <1>1
  <2> QED BY <2>1
<1>6. \A i \in 1 .. m : i \in 1 .. m + n
  BY <1>1
<1>7. \A i \in 1 .. n : m + i \in 1 .. m + n /\ m + i \notin 1 .. m
  BY <1>1
<1>8. Entries(w) = Entries(s) \cup Entries(t)
  <2>1. ASSUME NEW i \in 1 .. m + n PROVE w[i] \in Entries(s) \cup Entries(t)
    <3>1. CASE i \in 1 .. m
      BY <1>1, <1>3, <3>1, Zenon DEF Entries
    <3>2. CASE i \notin 1 .. m
      <4>1. PICK j \in 1 .. n : i = m + j
        BY <1>5, <3>2
      <4> QED BY <1>1, <1>4, <4>1, Zenon DEF Entries
    <3> QED BY <3>1, <3>2
  <2>2. ASSUME NEW i \in 1 .. m PROVE s[i] \in Entries(w)
    BY <1>2, <1>3, <1>6, Zenon DEF Entries
  <2>3. ASSUME NEW i \in 1 .. n PROVE t[i] \in Entries(w)
    BY <1>2, <1>4, <1>7, Zenon DEF Entries
  <2>4. Entries(w) \subseteq Entries(s) \cup Entries(t)
    BY <1>2, <2>1, Zenon DEF Entries
  <2>5. Entries(s) \subseteq Entries(w) /\ Entries(t) \subseteq Entries(w)
    BY <1>1, <2>2, <2>3, Zenon DEF Entries
  <2> QED BY <2>4, <2>5, Zenon
<1>9. ASSUME Disjoint(w)
      PROVE  Disjoint(s) /\ Disjoint(t) /\ Entries(s) \cap Entries(t) = {}
  <2>1. \A i, j \in 1 .. m + n : w[i] = w[j] => i = j
    BY <1>2, <1>9, Zenon DEF Disjoint
  <2>2. Disjoint(s)
    BY <1>1, <1>3, <1>6, <2>1, Zenon DEF Disjoint
  <2>3. \A i, j \in 1 .. n : t[i] = t[j] => m + i = m + j
    BY <1>4, <1>7, <2>1, Zenon
  <2>4. \A i, j \in 1 .. n : m + i = m + j => i = j
    BY <1>1
  <2>5. Disjoint(t)
    BY <1>1, <2>3, <2>4, Zenon DEF Disjoint
  <2>6. ASSUME NEW i \in 1 .. m, NEW j \in 1 .. n, s[i] = t[j] PROVE FALSE
    <3>1. w[i] = w[m + j]
      BY <1>3, <1>4, <2>6, Zenon
    <3>2. i = m + j
      BY <1>6, <1>7, <2>1, <3>1, Zenon
    <3> QED BY <1>7, <3>2, Zenon
  <2> QED BY <1>1, <2>2, <2>5, <2>6, Zenon DEF Entries
<1>10. ASSUME Disjoint(s), Disjoint(t), Entries(s) \cap Entries(t) = {}
       PROVE  Disjoint(w)
  <2>1. /\ \A i, j \in 1 .. m : s[i] = s[j] => i = j
        /\ \A i, j \in 1 .. n : t[i] = t[j] => i = j
    BY <1>1, <1>10, Zenon DEF Disjoint
  <2>2. \A i \in 1 .. m, j \in 1 .. n : s[i] # t[j]
    BY <1>1, <1>10, Zenon DEF Entries
  <2> SUFFICES ASSUME NEW i \in 1 .. m + n, NEW j \in 1 .. m + n, w[i] = w[j] PROVE i = j
    BY <1>2, Zenon DEF Disjoint
  <2>3. CASE i \in 1 .. m /\ j \in 1 .. m
    BY <1>3, <2>1, <2>3, Zenon
  <2>4. CASE i \in 1 .. m /\ j \notin 1 .. m
    <3>1. PICK l \in 1 .. n : j = m + l
      BY <1>5, <2>4
    <3> QED BY <1>3, <1>4, <2>2, <2>4, <3>1, Zenon
  <2>5. CASE i \notin 1 .. m /\ j \in 1 .. m
    <3>1. PICK k \in 1 .. n : i = m + k
      BY <1>5, <2>5
    <3> QED BY <1>3, <1>4, <2>2, <2>5, <3>1, Zenon
  <2>6. CASE i \notin 1 .. m /\ j \notin 1 .. m
    <3>1. PICK k \in 1 .. n : i = m + k
      BY <1>5, <2>6
    <3>2. PICK l \in 1 .. n : j = m + l
      BY <1>5, <2>6
    <3> QED BY <1>4, <2>1, <3>1, <3>2, ZenonT(40)
  <2> QED BY <2>3, <2>4, <2>5, <2>6
<1> QED BY <1>8, <1>9, <1>10 DEF w

(* A gather with an ascending index tensor returns the chosen entries, one *)
(* per index.                                                              *)
LEMMA PickFacts ==
  ASSUME NEW S, NEW s \in Seq(S), NEW I \in SUBSET (1 .. Len(s))
  PROVE  /\ Pick(s, I) \in Seq(S) /\ IsFiniteSet(I)
         /\ Len(Pick(s, I)) = Cardinality(I) /\ Cardinality(I) \in Nat
         /\ Entries(Pick(s, I)) = {s[i] : i \in I}
         /\ Disjoint(s) => Disjoint(Pick(s, I))
<1> DEFINE n == Cardinality(I)
           A == Ascending(I)
           p == Pick(s, I)
<1>1. Len(s) \in Nat /\ s \in [1 .. Len(s) -> S] /\ DOMAIN s = 1 .. Len(s)
  BY LenProperties
<1>2. IsFiniteSet(I) /\ I \in SUBSET Int /\ n \in Nat
  <2>1. IsFiniteSet(1 .. Len(s))
    BY <1>1, FS_Interval
  <2>2. IsFiniteSet(I)
    BY <2>1, FS_Subset
  <2> QED BY <2>2, FS_CardinalityType
<1>3. /\ A \in [1 .. n -> I]
      /\ \A r, q1 \in 1 .. n : r < q1 => A[r] < A[q1]
      /\ \A x \in I : \E r \in 1 .. n : A[r] = x
  BY <1>2, AscendingSorts
<1> HIDE DEF A, n
<1>4. p = [i \in 1 .. n |-> s[A[i]]]
  BY <1>3 DEF Pick, A
<1> HIDE DEF p
<1>5. p \in [1 .. n -> S]
  BY <1>1, <1>3, <1>4
<1>6. p \in Seq(S) /\ Len(p) = n /\ DOMAIN p = 1 .. n
  BY <1>2, <1>5, FunctionIsSeq
<1>7. Entries(p) = {s[i] : i \in I}
  BY <1>3, <1>4, <1>6 DEF Entries
<1>8. ASSUME Disjoint(s) PROVE Disjoint(p)
  <2>1. \A i, j \in 1 .. Len(s) : s[i] = s[j] => i = j
    BY <1>1, <1>8 DEF Disjoint
  <2> SUFFICES ASSUME NEW i \in 1 .. n, NEW j \in 1 .. n, s[A[i]] = s[A[j]] PROVE i = j
    BY <1>4, <1>6 DEF Disjoint
  <2>2. A[i] = A[j]
    BY <1>3, <2>1
  <2>3. A[i] \in Int
    BY <1>2, <1>3
  <2> QED BY <1>2, <1>3, <2>2, <2>3
<1> QED BY <1>2, <1>6, <1>7, <1>8 DEF p, n

(* Choosing some entries and choosing the others splits a sequence.        *)
LEMMA PickSplit ==
  ASSUME NEW S, NEW s \in Seq(S), NEW I \in SUBSET (1 .. Len(s)), Disjoint(s)
  PROVE  LET in == Pick(s, I)  out == Pick(s, (1 .. Len(s)) \ I)
         IN /\ Disjoint(in) /\ Disjoint(out)
            /\ Entries(in) \cap Entries(out) = {}
            /\ Entries(in) \cup Entries(out) = Entries(s)
<1>1. (1 .. Len(s)) \ I \in SUBSET (1 .. Len(s)) /\ DOMAIN s = 1 .. Len(s)
  BY LenProperties
<1>2. /\ Disjoint(Pick(s, I)) /\ Disjoint(Pick(s, (1 .. Len(s)) \ I))
      /\ Entries(Pick(s, I)) = {s[i] : i \in I}
      /\ Entries(Pick(s, (1 .. Len(s)) \ I)) = {s[i] : i \in (1 .. Len(s)) \ I}
  BY <1>1, PickFacts
<1>3. {s[i] : i \in I} \cap {s[i] : i \in (1 .. Len(s)) \ I} = {}
  BY <1>1, Zenon DEF Disjoint
<1>4. {s[i] : i \in I} \cup {s[i] : i \in (1 .. Len(s)) \ I} = Entries(s)
  BY <1>1, Zenon DEF Entries
<1> QED BY <1>2, <1>3, <1>4

(* Slicing a run with consecutive indices gives the run in between.        *)
LEMMA PickRun ==
  ASSUME NEW a \in Int, NEW n \in Nat, NEW x \in 1 .. n + 1, NEW y \in x - 1 .. n
  PROVE  Pick(Arange(a, n), x .. y) = Arange(a + x - 1, y - x + 1)
<1> DEFINE m == y - x + 1
           s == Arange(a, n)
           order == Ascending(x .. y)
           p == Pick(s, x .. y)
           r == Arange(a + x - 1, m)
<1>1. x \in Int /\ m \in Nat /\ x + m - 1 = y /\ a + x - 1 \in Int
  OBVIOUS
<1>2. order = Arange(x, m)
  BY <1>1, AscendingInterval
<1>3. DOMAIN order = 1 .. m /\ \A i \in 1 .. m : order[i] = x + i - 1
  <2> HIDE DEF m, order
  <2>1. DOMAIN Arange(x, m) = 1 .. m /\ \A i \in 1 .. m : Arange(x, m)[i] = x + i - 1
    BY <1>1, ArangeShape
  <2> QED BY <1>2, <2>1
<1>4. \A i \in 1 .. n : s[i] = a + i - 1
  BY ArangeShape
<1>5. /\ r \in Seq(Int) /\ Len(r) = m /\ \A i \in 1 .. m : r[i] = (a + x - 1) + i - 1
  BY <1>1, ArangeShape
<1> HIDE DEF m, s, order, r
<1>6. p = [i \in 1 .. m |-> s[order[i]]]
  BY <1>3 DEF Pick, order
<1>7. \A i \in 1 .. m : p[i] = r[i] /\ p[i] \in Int
  <2> SUFFICES ASSUME NEW i \in 1 .. m PROVE p[i] = r[i] /\ p[i] \in Int
    OBVIOUS
  <2>1. order[i] = x + i - 1 /\ x + i - 1 \in 1 .. n
    BY <1>1, <1>3
  <2>2. s[order[i]] = a + (x + i - 1) - 1
    BY <1>4, <2>1
  <2>3. p[i] = s[order[i]]
    <3> HIDE DEF p
    <3> QED BY <1>6
  <2>4. r[i] = (a + x - 1) + i - 1 /\ i \in Int
    BY <1>5
  <2> HIDE DEF p
  <2> QED BY <2>2, <2>3, <2>4
<1> HIDE DEF p
<1>8. p \in [1 .. m -> Int]
  BY <1>6, <1>7
<1>9. p \in Seq(Int) /\ Len(p) = m
  BY <1>1, <1>8, FunctionIsSeq
<1>10. p = r
  BY <1>5, <1>7, <1>9, SeqEqual
<1> QED BY <1>10 DEF p, r, s, m

-----------------------------------------------------------------------------
(* How many columns an argsort selects.                                    *)

(* What taking the first n of m leaves to take.                            *)
Clamp(n, m) == IF n <= 0 THEN 0 ELSE Lesser(n, m)

(* The names g gives the elements of U.                                    *)
Renamed(g, U) == {g[x] : x \in U}

(* Renaming elements one to one does not change their number.              *)
LEMMA RenamedCount ==
  ASSUME NEW g, NEW U, IsFiniteSet(U), \A x, y \in U : g[x] = g[y] => x = y
  PROVE  IsFiniteSet(Renamed(g, U)) /\ Cardinality(Renamed(g, U)) = Cardinality(U)
<1> DEFINE V == {g[x] : x \in U}
           h == [x \in U |-> g[x]]
<1>1. h \in [U -> V] /\ \A x \in U : h[x] = g[x]
  OBVIOUS
<1>2. \A x, y \in U : h[x] = h[y] => x = y
  OBVIOUS
<1>3. \A z \in V : \E x \in U : h[x] = z
  OBVIOUS
<1> HIDE DEF V, h
<1>4. h \in Bijection(U, V)
  BY <1>1, <1>2, <1>3, Fun_IsBij, Zenon
<1>5. ExistsBijection(U, V)
  BY <1>4 DEF ExistsBijection
<1> QED BY <1>5, FS_Bijection DEF V, Renamed

(* Taking the indices with the n smallest of N distinct keys takes n, or   *)
(* all there are.                                                          *)
LEMMA KeyCut ==
  ASSUME NEW N \in Nat, NEW key \in [1 .. N -> Int], NEW n \in Int,
         \A i, j \in 1 .. N : key[i] = key[j] => i = j
  PROVE  Cardinality({i \in 1 .. N : Cardinality({j \in 1 .. N : key[j] < key[i]}) < n})
           = Clamp(n, N)
<1> DEFINE K == Renamed(key, 1 .. N)
           Under(i) == {j \in 1 .. N : key[j] < key[i]}
           L == {i \in 1 .. N : Cardinality(Under(i)) < n}
           A == Ascending(K)
           c == Clamp(n, N)
<1>1. IsFiniteSet(1 .. N) /\ Cardinality(1 .. N) = N
  BY FS_Interval
<1>2. IsFiniteSet(K) /\ Cardinality(K) = N /\ K \in SUBSET Int
  <2>1. 1 .. N \in SUBSET (1 .. N)
    OBVIOUS
  <2>2. IsFiniteSet(K) /\ Cardinality(K) = Cardinality(1 .. N)
    BY <1>1, <2>1, RenamedCount
  <2>3. K \in SUBSET Int
    BY DEF Renamed
  <2> QED BY <1>1, <2>2, <2>3
<1>3. ASSUME NEW i \in 1 .. N PROVE Cardinality(Under(i)) = Rank(K, key[i])
  <2>1. Under(i) \in SUBSET (1 .. N) /\ IsFiniteSet(Under(i))
    BY <1>1, FS_Subset
  <2>2. Cardinality(Renamed(key, Under(i))) = Cardinality(Under(i))
    <3>1. \A x, y \in Under(i) : key[x] = key[y] => x = y
      BY <2>1
    <3> HIDE DEF Under
    <3> QED BY <2>1, <3>1, RenamedCount
  <2>3. Renamed(key, Under(i)) = {y \in K : y < key[i]}
    BY DEF Renamed
  <2> QED BY <2>2, <2>3 DEF Rank
<1>4. /\ A \in [1 .. N -> K]
      /\ \A r \in 1 .. N : Rank(K, A[r]) = r - 1
      /\ \A r, s \in 1 .. N : r < s => A[r] < A[s]
      /\ \A x \in K : \E r \in 1 .. N : A[r] = x
  BY <1>2, AscendingSorts
<1>5. c \in 0 .. N /\ \A r \in 1 .. N : r - 1 < n <=> r <= c
  BY DEF Clamp, Lesser
<1> HIDE DEF A, c, Under
<1>6. Renamed(key, L) = Renamed(A, 1 .. c)
  <2>1. ASSUME NEW i \in L PROVE \E r \in 1 .. c : A[r] = key[i]
    <3>1. i \in 1 .. N /\ key[i] \in K /\ Rank(K, key[i]) < n
      BY <1>3 DEF Renamed
    <3>2. PICK r \in 1 .. N : A[r] = key[i]
      BY <1>4, <3>1
    <3>3. r - 1 < n
      BY <1>4, <3>1, <3>2
    <3>4. r \in 1 .. c
      BY <1>5, <3>3
    <3> QED BY <3>2, <3>4
  <2>2. ASSUME NEW r \in 1 .. c PROVE \E i \in L : key[i] = A[r]
    <3>1. r \in 1 .. N /\ r - 1 < n
      BY <1>5
    <3>2. A[r] \in K /\ Rank(K, A[r]) < n
      BY <1>4, <3>1
    <3>3. PICK i \in 1 .. N : key[i] = A[r]
      BY <3>2 DEF Renamed
    <3>4. i \in L
      BY <1>3, <3>2, <3>3
    <3> QED BY <3>3, <3>4
  <2> HIDE DEF L
  <2>3. Renamed(key, L) \subseteq Renamed(A, 1 .. c)
    BY <2>1 DEF Renamed
  <2>4. Renamed(A, 1 .. c) \subseteq Renamed(key, L)
    BY <2>2 DEF Renamed
  <2> QED BY <2>3, <2>4, Zenon
<1>7. Cardinality(Renamed(key, L)) = Cardinality(L)
  <2>1. L \in SUBSET (1 .. N) /\ IsFiniteSet(L)
    BY <1>1, FS_Subset
  <2> HIDE DEF L
  <2>2. \A x, y \in L : key[x] = key[y] => x = y
    BY <2>1
  <2> QED BY <2>1, <2>2, RenamedCount
<1>8. Cardinality(Renamed(A, 1 .. c)) = c
  <2>1. 1 .. c \in SUBSET (1 .. N) /\ IsFiniteSet(1 .. c) /\ Cardinality(1 .. c) = c
    <3>1. c \in Int /\ 1 \in Int /\ (1 > c => c = 0) /\ (1 <= c => c - 1 + 1 = c)
      BY <1>5
    <3>2. IsFiniteSet(1 .. c) /\ Cardinality(1 .. c) = IF 1 > c THEN 0 ELSE c - 1 + 1
      BY <3>1, FS_Interval
    <3> QED BY <1>5, <3>1, <3>2
  <2>2. ASSUME NEW r \in 1 .. c, NEW s \in 1 .. c, A[r] = A[s] PROVE r = s
    <3>1. r \in 1 .. N /\ s \in 1 .. N /\ r \in Int /\ s \in Int
      BY <2>1
    <3>0. A[r] \in K /\ A[r] \in Int
      BY <1>2, <1>4, <3>1
    <3>2. ~(r < s) /\ ~(s < r)
      BY <1>4, <2>2, <3>0, <3>1
    <3> QED BY <3>1, <3>2
  <2>3. \A r, s \in 1 .. c : A[r] = A[s] => r = s
    BY <2>2, Zenon
  <2>4. Cardinality(Renamed(A, 1 .. c)) = Cardinality(1 .. c)
    BY <1>4, <2>1, <2>3, RenamedCount
  <2> QED BY <2>1, <2>4
<1> QED BY <1>6, <1>7, <1>8 DEF c, Under

(* A stable argsort: the n indices that come first by level, then by age.  *)
LEMMA ScoreCut ==
  ASSUME NEW N \in Nat, NEW M \in Nat, NEW lev \in [1 .. N -> 0 .. M], NEW n \in Int
  PROVE  Cardinality({i \in 1 .. N :
            Cardinality({j \in 1 .. N :
               lev[j] < lev[i] \/ (lev[j] = lev[i] /\ j < i)}) < n}) = Clamp(n, N)
<1> DEFINE key == [i \in 1 .. N |-> lev[i] * (N + 1) + i]
           Before(j, i) == lev[j] < lev[i] \/ (lev[j] = lev[i] /\ j < i)
<1>1. N + 1 \in Nat \ {0} /\ \A i \in 1 .. N : i \in 0 .. N /\ i \in 0 .. (N + 1) - 1 /\ i \in Int
  OBVIOUS
<1>2. \A i \in 1 .. N : lev[i] \in Nat
  OBVIOUS
<1>3. key \in [1 .. N -> Int]
  <2>1. \A i \in 1 .. N : lev[i] * (N + 1) \in Int
    BY <1>1, <1>2
  <2> QED BY <2>1
<1>4. ASSUME NEW i \in 1 .. N, NEW j \in 1 .. N, Before(j, i) PROVE key[j] < key[i]
  <2>1. lev[j] * (N + 1) + j < lev[i] * (N + 1) + i
    BY <1>1, <1>2, <1>4, MixedRadixOrder
  <2> QED BY <2>1
<1>5. \A i, j \in 1 .. N : key[i] \in Int /\ (i = j \/ Before(j, i) \/ Before(i, j))
  BY <1>2, <1>3
<1>6. \A i, j \in 1 .. N : Before(j, i) => key[j] < key[i]
  BY <1>4, Zenon
<1> HIDE DEF key, Before
<1>7. \A i, j \in 1 .. N : key[i] = key[j] => i = j
  BY <1>5, <1>6
<1>8. \A i, j \in 1 .. N : Before(j, i) <=> key[j] < key[i]
  BY <1>5, <1>6
<1>9. ASSUME NEW i \in 1 .. N
      PROVE  {j \in 1 .. N : Before(j, i)} = {j \in 1 .. N : key[j] < key[i]}
  BY <1>8
<1>10. {i \in 1 .. N : Cardinality({j \in 1 .. N : Before(j, i)}) < n}
         = {i \in 1 .. N : Cardinality({j \in 1 .. N : key[j] < key[i]}) < n}
  BY <1>9
<1>11. Cardinality({i \in 1 .. N : Cardinality({j \in 1 .. N : key[j] < key[i]}) < n})
         = Clamp(n, N)
  BY <1>3, <1>7, KeyCut
<1> QED BY <1>10, <1>11 DEF Before

-----------------------------------------------------------------------------
(* The operators of the layer.                                             *)

(* The constructor's checks on the arguments used below.                   *)
LEMMA ArmFacts ==
  ASSUME arm \in Arms
  PROVE  /\ arm.n_sink \in Nat /\ arm.recent_window \in Nat \ {0}
         /\ arm.absorb_block \in Nat \ {0} /\ arm.prefill_block_size \in Nat \ {0}
         /\ arm.coord_budget \in Nat /\ arm.quant_budget \in Nat
         /\ arm.hh_budget \in Nat /\ arm.hh_neighbor \in Nat
         /\ MaxTokens \in Nat /\ MaxLevel \in Nat \ {0}
<1>1. TL!ValidArm(arm) /\ ValidRetention(arm)
  BY LengthsAssumption, RetentionAssumption
<1> QED
  BY <1>1, LengthsAssumption, MaxLevelAssumption DEF TL!ValidArm, ValidRetention

(* The least surprising n: as many as asked for, or all.                   *)
LEMMA LowestCount ==
  ASSUME NEW N \in Nat, NEW score \in [1 .. N -> 1 .. MaxLevel], NEW n \in Int
  PROVE  /\ LowestFirst(score, n) \in SUBSET (1 .. N)
         /\ Cardinality(LowestFirst(score, n)) = Clamp(n, N)
<1>1. MaxLevel \in Nat /\ score \in [1 .. N -> 0 .. MaxLevel] /\ DOMAIN score = 1 .. N
  BY MaxLevelAssumption
<1>2. LowestFirst(score, n)
        = {i \in 1 .. N : Cardinality({j \in 1 .. N :
             score[j] < score[i] \/ (score[j] = score[i] /\ j < i)}) < n}
  BY <1>1 DEF LowestFirst
<1> QED BY <1>1, <1>2, ScoreCut, ZenonT(40)

(* The most surprising n: as many as asked for, or all.                    *)
LEMMA HighestCount ==
  ASSUME NEW N \in Nat, NEW score \in [1 .. N -> 1 .. MaxLevel], NEW n \in Int
  PROVE  /\ HighestFirst(score, n) \in SUBSET (1 .. N)
         /\ Cardinality(HighestFirst(score, n)) = Clamp(n, N)
<1> DEFINE lev == [i \in 1 .. N |-> MaxLevel - score[i]]
<1>1. MaxLevel \in Nat /\ DOMAIN score = 1 .. N
  BY MaxLevelAssumption
<1>2. lev \in [1 .. N -> 0 .. MaxLevel]
  BY <1>1
<1>3. ASSUME NEW i \in 1 .. N
      PROVE  {j \in 1 .. N : score[j] > score[i] \/ (score[j] = score[i] /\ j < i)}
               = {j \in 1 .. N : lev[j] < lev[i] \/ (lev[j] = lev[i] /\ j < i)}
  <2>1. \A j \in 1 .. N : score[j] \in Int /\ lev[j] = MaxLevel - score[j]
    BY <1>1
  <2> HIDE DEF lev
  <2>2. \A j \in 1 .. N : /\ score[j] > score[i] <=> lev[j] < lev[i]
                          /\ score[j] = score[i] <=> lev[j] = lev[i]
    BY <1>1, <2>1
  <2> QED BY <2>2
<1> HIDE DEF lev
<1>4. HighestFirst(score, n)
        = {i \in 1 .. N : Cardinality({j \in 1 .. N :
             lev[j] < lev[i] \/ (lev[j] = lev[i] /\ j < i)}) < n}
  BY <1>1, <1>3 DEF HighestFirst
<1>5. Cardinality({i \in 1 .. N : Cardinality({j \in 1 .. N :
             lev[j] < lev[i] \/ (lev[j] = lev[i] /\ j < i)}) < n}) = Clamp(n, N)
  BY <1>1, <1>2, ScoreCut
<1> QED BY <1>4, <1>5

(* _split_indices takes as many columns as it is asked to, or all; first   *)
(* in first out takes the first.                                           *)
LEMMA EvictCount ==
  ASSUME NEW t, Typed(t), arm.retention # "fifo" => Len(t.sur) = Len(t.col),
         NEW n \in Int
  PROVE  LET I == EvictIndices(t, n)
             N == Len(t.col)
         IN /\ N \in Nat /\ DOMAIN t.col = 1 .. N
            /\ I \in SUBSET (1 .. N)
            /\ Cardinality(I) = Clamp(n, N) /\ Clamp(n, N) \in 0 .. N
            /\ arm.retention = "fifo" => I = 1 .. Clamp(n, N)
<1> DEFINE I == EvictIndices(t, n)
           N == Len(t.col)
           c == Clamp(n, N)
<1>1. N \in Nat /\ DOMAIN t.col = 1 .. N
  BY LenProperties DEF Typed
<1>2. c \in 0 .. N /\ \A i \in 1 .. N : i <= n <=> i <= c
  BY <1>1 DEF Clamp, Lesser
<1>3. CASE arm.retention = "fifo"
  <2>1. I = {i \in 1 .. N : i <= n}
    BY <1>1, <1>3 DEF EvictIndices
  <2> HIDE DEF I, c
  <2>2. I = 1 .. c
    BY <1>1, <1>2, <2>1
  <2>3. Cardinality(1 .. c) = c
    <3>1. c \in Int /\ 1 \in Int /\ (1 > c => c = 0) /\ (1 <= c => c - 1 + 1 = c)
      BY <1>1, <1>2
    <3>2. Cardinality(1 .. c) = IF 1 > c THEN 0 ELSE c - 1 + 1
      BY <3>1, FS_Interval
    <3> QED BY <3>1, <3>2
  <2>4. 1 .. c \in SUBSET (1 .. N)
    BY <1>1, <1>2
  <2> QED BY <1>1, <1>2, <1>3, <2>2, <2>3, <2>4 DEF I, c
<1>4. CASE arm.retention # "fifo"
  <2>1. t.sur \in [1 .. N -> 1 .. MaxLevel]
    BY <1>4, LenProperties DEF Typed
  <2>2. I = LowestFirst(t.sur, n)
    BY <1>4 DEF EvictIndices
  <2>3. I \in SUBSET (1 .. N) /\ Cardinality(I) = c
    BY <1>1, <2>1, <2>2, LowestCount
  <2> QED BY <1>1, <1>2, <1>4, <2>3
<1> QED BY <1>3, <1>4

(* A neighbourhood's best score is a score.                                *)
LEMMA SpanBoostTyped ==
  ASSUME NEW N \in Nat, NEW score \in [1 .. N -> 1 .. MaxLevel],
         NEW pos \in Seq(Int), Len(pos) = N, NEW w \in Nat
  PROVE  SpanBoost(score, pos, w) \in [1 .. N -> 1 .. MaxLevel]
<1>1. DOMAIN score = 1 .. N /\ MaxLevel \in Nat
  BY MaxLevelAssumption
<1>2. ASSUME NEW i \in 1 .. N
      PROVE  LET near == {j \in 1 .. N : pos[j] - pos[i] \in -w .. w}
             IN (CHOOSE s \in {score[j] : j \in near} : \A j \in near : s >= score[j])
                  \in 1 .. MaxLevel
  <2> DEFINE near == {j \in 1 .. N : pos[j] - pos[i] \in -w .. w}
             lacks == {MaxLevel - score[j] : j \in near}
  <2>1. pos[i] \in Int
    BY ElementOfSeq
  <2>2. pos[i] - pos[i] \in -w .. w
    BY <2>1
  <2>3. near # {} /\ near \subseteq 1 .. N
    BY <2>2
  <2> HIDE DEF near
  <2>4. \A j \in near : score[j] \in 1 .. MaxLevel
    BY <2>3
  <2>5. lacks # {} /\ lacks \in SUBSET Nat
    <3>1. \A j \in near : MaxLevel - score[j] \in Nat
      BY <1>1, <2>4
    <3> QED BY <2>3, <3>1
  <2> HIDE DEF lacks
  <2>6. PICK x \in lacks : \A y \in lacks : x <= y
    BY <2>5, LeastElement
  <2>7. PICK j \in near : x = MaxLevel - score[j]
    BY <2>6 DEF lacks
  <2>8. \A k \in near : score[j] >= score[k]
    <3>1. \A k \in near : MaxLevel - score[j] <= MaxLevel - score[k]
      BY <2>6, <2>7 DEF lacks
    <3> QED BY <1>1, <2>4, <3>1
  <2>9. \E s \in {score[k] : k \in near} : \A k \in near : s >= score[k]
    BY <2>8
  <2>10. (CHOOSE s \in {score[k] : k \in near} : \A k \in near : s >= score[k])
            \in {score[k] : k \in near}
    BY <2>9
  <2>11. {score[k] : k \in near} \subseteq 1 .. MaxLevel
    BY <2>4
  <2> QED BY <2>10, <2>11 DEF near
<1> QED BY <1>1, <1>2 DEF SpanBoost

(* Concatenating two tiers, array by array.                                *)
LEMMA CatFacts ==
  ASSUME NEW t, NEW u, Typed(t), Typed(u), Truthful(t), Truthful(u)
  PROVE  /\ Cat(t, u).col = t.col \o u.col
         /\ Len(Cat(t, u).col) = Len(t.col) + Len(u.col)
         /\ Typed(Cat(t, u)) /\ Truthful(Cat(t, u))
<1> DEFINE w == Cat(t, u)
<1>1. w.col = t.col \o u.col /\ w.pos = t.pos \o u.pos /\ w.sur = t.sur \o u.sur
  BY DEF Cat
<1> HIDE DEF w
<1>2. /\ w.col \in Seq(Int) /\ Len(w.col) = Len(t.col) + Len(u.col)
      /\ w.pos \in Seq(Int) /\ Len(w.pos) = Len(t.pos) + Len(u.pos)
      /\ w.sur \in Seq(1 .. MaxLevel) /\ Len(w.sur) = Len(t.sur) + Len(u.sur)
  BY <1>1, ConcatProperties DEF Typed
<1>3. Truthful(w)
  <2>1. CASE track_positions
    <3>1. w.pos = w.col
      BY <1>1, <2>1 DEF Truthful
    <3>2. Len(w.pos) = Len(w.col) /\ Len(w.sur) = Len(w.col)
      BY <1>2, <2>1 DEF Truthful, Aligned
    <3> QED BY <2>1, <3>1, <3>2 DEF Truthful, Aligned
  <2>2. CASE ~track_positions
    <3>1. t.pos = <<>> /\ t.sur = <<>> /\ u.pos = <<>> /\ u.sur = <<>>
      BY <2>2 DEF Truthful, Aligned
    <3>2. <<>> \o <<>> = <<>>
      OBVIOUS
    <3>3. w.pos = <<>> /\ w.sur = <<>>
      BY <1>1, <3>1, <3>2
    <3> QED BY <2>2, <3>3 DEF Truthful, Aligned
  <2> QED BY <2>1, <2>2
<1> QED BY <1>1, <1>2, <1>3 DEF w, Typed

(* Selecting columns of an array that is there, or of one that is not.     *)
LEMMA PickOrEmpty ==
  ASSUME NEW S, NEW s \in Seq(S), NEW I \in SUBSET (1 .. Len(s))
  PROVE  (IF s = <<>> THEN <<>> ELSE Pick(s, I)) = Pick(s, I)
<1> SUFFICES ASSUME s = <<>> PROVE Pick(s, I) = <<>>
  OBVIOUS
<1>1. Len(s) = 0 /\ 1 .. 0 = {}
  OBVIOUS
<1>2. I = {}
  BY <1>1
<1>3. Pick(s, I) \in Seq(S) /\ Len(Pick(s, I)) = Cardinality(I)
  BY PickFacts
<1>4. Len(Pick(s, I)) = 0
  BY <1>2, <1>3, FS_EmptySet
<1> QED BY <1>3, <1>4, EmptySeq

(* Selecting columns keeps every array of the tier in step.                *)
LEMMA ColumnsFacts ==
  ASSUME NEW t, Typed(t), Truthful(t), NEW I \in SUBSET (1 .. Len(t.col))
  PROVE  /\ Columns(t, I).col = Pick(t.col, I)
         /\ Typed(Columns(t, I)) /\ Truthful(Columns(t, I))
         /\ Len(Columns(t, I).col) = Cardinality(I)
<1> DEFINE w == Columns(t, I)
<1>1. /\ w.col = IF t.col = <<>> THEN <<>> ELSE Pick(t.col, I)
      /\ w.pos = IF t.pos = <<>> THEN <<>> ELSE Pick(t.pos, I)
      /\ w.sur = IF t.sur = <<>> THEN <<>> ELSE Pick(t.sur, I)
  BY DEF Columns
<1> HIDE DEF w
<1>2. w.col = Pick(t.col, I)
  BY <1>1, PickOrEmpty DEF Typed
<1>3. w.col \in Seq(Int) /\ Len(w.col) = Cardinality(I)
  <2>1. t.col \in Seq(Int)
    BY DEF Typed
  <2> QED BY <1>2, <2>1, PickFacts
<1>4. CASE track_positions
  <2>1. /\ t.pos = t.col /\ t.sur \in Seq(1 .. MaxLevel)
        /\ I \in SUBSET (1 .. Len(t.sur))
    BY <1>4 DEF Truthful, Aligned, Typed
  <2>2. w.pos = w.col
    BY <1>1, <2>1
  <2>3. w.sur = Pick(t.sur, I)
    BY <1>1, <2>1, PickOrEmpty
  <2>4. w.sur \in Seq(1 .. MaxLevel) /\ Len(w.sur) = Cardinality(I)
    BY <2>1, <2>3, PickFacts
  <2> QED BY <1>2, <1>3, <1>4, <2>2, <2>4 DEF w, Typed, Truthful, Aligned
<1>5. CASE ~track_positions
  <2>1. t.pos = <<>> /\ t.sur = <<>>
    BY <1>5 DEF Truthful, Aligned
  <2>2. w.pos = <<>> /\ w.sur = <<>>
    BY <1>1, <2>1
  <2>3. w.pos \in Seq(Int) /\ w.sur \in Seq(1 .. MaxLevel)
    BY <2>2
  <2>4. Truthful(w)
    BY <1>5, <2>2 DEF Truthful, Aligned
  <2> QED BY <1>2, <1>3, <2>3, <2>4 DEF w, Typed
<1> QED BY <1>4, <1>5

(* Asked for what exceeds b, an eviction leaves b, or all there are.       *)
LEMMA ClampSpill ==
  ASSUME NEW N \in Nat, NEW b \in Nat
  PROVE  Clamp(N - b, N) = N - Lesser(b, N) /\ Lesser(b, N) \in Nat
BY DEF Clamp, Lesser

(* What a tier over its budget b keeps, and what leaves it.                *)
Leaves(t, b) == EvictIndices(t, Len(t.col) - b)
Kept(t, b) == Columns(t, DOMAIN t.col \ Leaves(t, b))
Spilled(t, b) == Columns(t, Leaves(t, b))

(* Both are tiers, nothing is lost or doubled between them, and with first *)
(* in first out a run splits into an older and a newer one.                *)
SplitsInto(t, b, kept, out) ==
  LET k == kept.col
      s == out.col
  IN /\ Typed(kept) /\ Truthful(kept) /\ Typed(out) /\ Truthful(out)
     /\ Len(k) = Lesser(b, Len(t.col)) /\ Len(s) = Len(t.col) - Len(k)
     /\ Disjoint(t.col) => /\ Disjoint(k) /\ Disjoint(s)
                           /\ Entries(k) \cap Entries(s) = {}
     /\ Disjoint(t.col) => Entries(k) \cup Entries(s) = Entries(t.col)
     /\ \A a \in Int : ~track_positions /\ t.col = Arange(a, Len(t.col)) =>
          s = Arange(a, Len(s)) /\ k = Arange(a + Len(s), Len(k))

(* Enforcing a budget splits a tier in two.                                *)
LEMMA Enforce ==
  ASSUME NEW t, Typed(t), Truthful(t), lowrank_enabled, NEW b \in Nat
  PROVE  SplitsInto(t, b, Kept(t, b), Spilled(t, b))
<1> DEFINE N == Len(t.col)
           n == N - b
           I == Leaves(t, b)
           J == (1 .. N) \ I
           c == Clamp(n, N)
<1>0. arm.retention # "fifo" <=> track_positions
  BY DEF track_positions
<1>1. arm.retention # "fifo" => Len(t.sur) = Len(t.col)
  BY <1>0 DEF Truthful, Aligned
<1>2. N \in Nat /\ DOMAIN t.col = 1 .. N /\ t.col \in Seq(Int)
  BY LenProperties DEF Typed
<1>3. n \in Int
  BY <1>2
<1>4. /\ I \in SUBSET (1 .. N) /\ J \in SUBSET (1 .. N)
      /\ Cardinality(I) = c /\ c \in 0 .. N
      /\ arm.retention = "fifo" => I = 1 .. c
  BY <1>1, <1>3, EvictCount DEF Leaves
<1>5. c = N - Lesser(b, N) /\ Lesser(b, N) \in Nat
  BY <1>2, ClampSpill
<1>6. Cardinality(J) = N - c
  <2>1. IsFiniteSet(1 .. N) /\ Cardinality(1 .. N) = N
    <3>1. 1 \in Int /\ N \in Int /\ (1 > N => N = 0) /\ (1 <= N => N - 1 + 1 = N)
      BY <1>2
    <3>2. IsFiniteSet(1 .. N) /\ Cardinality(1 .. N) = IF 1 > N THEN 0 ELSE N - 1 + 1
      BY <3>1, FS_Interval
    <3> QED BY <3>1, <3>2
  <2>2. IsFiniteSet(I) /\ IsFiniteSet(J)
    BY <1>4, <2>1, FS_Subset
  <2>3. I \cup J = 1 .. N /\ I \cap J = {}
    BY <1>4
  <2>4. Cardinality(J) \in Nat
    BY <2>2, FS_CardinalityType
  <2> HIDE DEF I, J
  <2>5. Cardinality(I \cup J) = Cardinality(I) + Cardinality(J) - Cardinality(I \cap J)
    BY <2>2, FS_Union
  <2>6. N = c + Cardinality(J) - 0
    BY <1>4, <2>1, <2>3, <2>5, FS_EmptySet
  <2> QED BY <1>2, <1>4, <2>4, <2>6
<1>7. Kept(t, b) = Columns(t, J) /\ Spilled(t, b) = Columns(t, I)
  BY <1>2 DEF Kept, Spilled
<1> HIDE DEF I, J, c
<1>8. /\ Typed(Kept(t, b)) /\ Truthful(Kept(t, b))
      /\ Typed(Spilled(t, b)) /\ Truthful(Spilled(t, b))
      /\ Kept(t, b).col = Pick(t.col, J) /\ Spilled(t, b).col = Pick(t.col, I)
      /\ Len(Kept(t, b).col) = N - c /\ Len(Spilled(t, b).col) = c
  BY <1>4, <1>6, <1>7, ColumnsFacts
<1>9. /\ Len(Kept(t, b).col) = Lesser(b, N)
      /\ Len(Spilled(t, b).col) = N - Len(Kept(t, b).col)
  BY <1>2, <1>5, <1>8
<1>10. ASSUME Disjoint(t.col)
       PROVE  /\ Disjoint(Pick(t.col, J)) /\ Disjoint(Pick(t.col, I))
              /\ Entries(Pick(t.col, J)) \cap Entries(Pick(t.col, I)) = {}
              /\ Entries(Pick(t.col, J)) \cup Entries(Pick(t.col, I)) = Entries(t.col)
  <2>1. /\ Disjoint(Pick(t.col, I)) /\ Disjoint(Pick(t.col, J))
        /\ Entries(Pick(t.col, I)) \cap Entries(Pick(t.col, J)) = {}
        /\ Entries(Pick(t.col, I)) \cup Entries(Pick(t.col, J)) = Entries(t.col)
    BY <1>2, <1>4, <1>10, PickSplit DEF J
  <2> QED BY <2>1, Zenon
<1>11. ASSUME NEW a \in Int, ~track_positions, t.col = Arange(a, N)
       PROVE  Pick(t.col, I) = Arange(a, c) /\ Pick(t.col, J) = Arange(a + c, N - c)
  <2>1. I = 1 .. c /\ c \in 0 .. N
    BY <1>0, <1>4, <1>11
  <2>2. J = c + 1 .. N
    BY <1>2, <2>1 DEF J
  <2>3. /\ 1 \in 1 .. N + 1 /\ c \in 1 - 1 .. N
        /\ c + 1 \in 1 .. N + 1 /\ N \in (c + 1) - 1 .. N
    BY <1>2, <2>1
  <2>4. Pick(Arange(a, N), 1 .. c) = Arange(a + 1 - 1, c - 1 + 1)
    BY <1>2, <2>3, PickRun
  <2>5. Pick(Arange(a, N), c + 1 .. N) = Arange(a + (c + 1) - 1, N - (c + 1) + 1)
    BY <1>2, <2>3, PickRun
  <2>6. /\ a + 1 - 1 = a /\ c - 1 + 1 = c
        /\ a + (c + 1) - 1 = a + c /\ N - (c + 1) + 1 = N - c
    BY <1>2, <2>1
  <2> QED BY <1>11, <2>1, <2>2, <2>4, <2>5, <2>6
<1> QED BY <1>8, <1>9, <1>10, <1>11 DEF SplitsInto

(* The halves of a run are runs.                                           *)
LEMMA RunSplit ==
  ASSUME NEW s \in Seq(Int), NEW t \in Seq(Int), NEW a \in Int,
         s \o t = Arange(a, Len(s) + Len(t))
  PROVE  s = Arange(a, Len(s)) /\ t = Arange(a + Len(s), Len(t))
<1> DEFINE m == Len(s)
           n == Len(t)
           u == Arange(a, m)
           v == Arange(a + m, n)
<1>1. m \in Nat /\ n \in Nat /\ a + m \in Int /\ m + n \in Nat
  BY LenProperties
<1>2. \A i \in 1 .. m : (s \o t)[i] = s[i]
  OBVIOUS
<1>3. \A i \in 1 .. n : (s \o t)[m + i] = t[i]
  OBVIOUS
<1>4. /\ u \in Seq(Int) /\ Len(u) = m /\ \A i \in 1 .. m : u[i] = a + i - 1
      /\ v \in Seq(Int) /\ Len(v) = n /\ \A i \in 1 .. n : v[i] = (a + m) + i - 1
  <2> HIDE DEF m, n
  <2> QED BY <1>1, ArangeShape
<1>5. \A i \in 1 .. m + n : (s \o t)[i] = a + i - 1
  <2> HIDE DEF m, n
  <2>1. \A i \in 1 .. m + n : Arange(a, m + n)[i] = a + i - 1
    BY <1>1, ArangeShape
  <2> QED BY <2>1 DEF m, n
<1> DEFINE w == s \o t
<1>6. /\ \A i \in 1 .. m : w[i] = s[i]
      /\ \A i \in 1 .. n : w[m + i] = t[i]
      /\ \A i \in 1 .. m + n : w[i] = a + i - 1
  BY <1>2, <1>3, <1>5
<1> HIDE DEF w, m, n, u, v
<1>7. \A i \in 1 .. m : s[i] = u[i]
  <2> SUFFICES ASSUME NEW i \in 1 .. m PROVE s[i] = u[i]
    OBVIOUS
  <2>1. i \in 1 .. m + n
    BY <1>1
  <2>2. w[i] = a + i - 1 /\ w[i] = s[i] /\ u[i] = a + i - 1
    BY <1>4, <1>6, <2>1
  <2> QED BY <2>2
<1>8. \A i \in 1 .. n : t[i] = v[i]
  <2> SUFFICES ASSUME NEW i \in 1 .. n PROVE t[i] = v[i]
    OBVIOUS
  <2>1. m + i \in 1 .. m + n
    BY <1>1
  <2>2. w[m + i] = a + (m + i) - 1 /\ w[m + i] = t[i] /\ v[i] = (a + m) + i - 1
    BY <1>4, <1>6, <2>1
  <2>3. a + (m + i) - 1 = (a + m) + i - 1
    BY <1>1
  <2> QED BY <2>2, <2>3
<1>9. s = u /\ t = v
  BY <1>4, <1>7, <1>8, SeqEqual DEF m, n
<1> QED BY <1>9 DEF u, v, m, n

(* The history holds one token per column absorbed.                        *)
LEMMA GivenTyped ==
  ASSUME absorbed \in Seq([tok : Int, sur : 1 .. MaxLevel])
  PROVE  Given \in Seq(Int) /\ Len(Given) = Len(absorbed)
<1>1. /\ Len(absorbed) \in Nat /\ DOMAIN absorbed = 1 .. Len(absorbed)
      /\ \A i \in 1 .. Len(absorbed) : absorbed[i] \in [tok : Int, sur : 1 .. MaxLevel]
  BY LenProperties, ElementOfSeq
<1>2. Given \in [1 .. Len(absorbed) -> Int]
  BY <1>1 DEF Given
<1> QED BY <1>1, <1>2, FunctionIsSeq

(* What a block may be: its positions are its tokens, each has a score.    *)
ValidBlock(block) ==
  /\ block.col \in Seq(Int) /\ block.pos = block.col
  /\ block.sur \in Seq(1 .. MaxLevel) /\ Len(block.sur) = Len(block.col)

(* An absorb appends the block to the history.                             *)
LEMMA GivenGrows ==
  ASSUME absorbed \in Seq([tok : Int, sur : 1 .. MaxLevel]),
         NEW block, ValidBlock(block), AbsorbColumns(block)
  PROVE  /\ absorbed' \in Seq([tok : Int, sur : 1 .. MaxLevel])
         /\ Given' = Given \o block.col
<1> DEFINE R == [tok : Int, sur : 1 .. MaxLevel]
           m == Len(block.col)
           n == Len(absorbed)
           new == [i \in DOMAIN block.col |-> [tok |-> block.col[i], sur |-> block.sur[i]]]
<1>1. m \in Nat /\ DOMAIN block.col = 1 .. m /\ n \in Nat /\ DOMAIN absorbed = 1 .. n
  BY LenProperties DEF ValidBlock
<1>2. Given \in Seq(Int) /\ Len(Given) = n /\ \A i \in 1 .. n : Given[i] = absorbed[i].tok
  BY <1>1, GivenTyped DEF Given
<1>3. CASE block.col = <<>>
  <2>1. absorbed' = absorbed
    BY <1>3 DEF AbsorbColumns, tail
  <2>2. Given' = Given
    BY <2>1 DEF Given
  <2> QED BY <1>2, <1>3, <2>1, <2>2, ConcatEmptySeq
<1>4. CASE block.col # <<>>
  <2>1. absorbed' = absorbed \o new
    BY <1>4 DEF AbsorbColumns
  <2>2. \A i \in 1 .. m : block.col[i] \in Int /\ block.sur[i] \in 1 .. MaxLevel
    BY ElementOfSeq DEF ValidBlock
  <2>3. new \in [1 .. m -> R] /\ \A i \in 1 .. m : new[i].tok = block.col[i]
    BY <1>1, <2>2
  <2> HIDE DEF new, R, m, n
  <2>4. new \in Seq(R) /\ Len(new) = m
    BY <1>1, <2>3, FunctionIsSeq
  <2>5. /\ absorbed' \in Seq(R) /\ Len(absorbed') = n + m
        /\ \A i \in 1 .. n + m : absorbed'[i] = IF i <= n THEN absorbed[i] ELSE new[i - n]
    BY <2>1, <2>4, ConcatProperties DEF R, n
  <2>6. DOMAIN absorbed' = 1 .. n + m
    BY <2>5, LenProperties
  <2>7. Given' = [i \in 1 .. n + m |-> absorbed'[i].tok]
    BY <2>6 DEF Given
  <2>8. /\ Given \o block.col \in Seq(Int) /\ Len(Given \o block.col) = n + m
        /\ \A i \in 1 .. n + m :
             (Given \o block.col)[i] = IF i <= n THEN Given[i] ELSE block.col[i - n]
    BY <1>2, ConcatProperties DEF ValidBlock, m
  <2>9. \A i \in 1 .. n + m : absorbed'[i].tok = (Given \o block.col)[i]
    <3> SUFFICES ASSUME NEW i \in 1 .. n + m
                 PROVE  absorbed'[i].tok = (Given \o block.col)[i]
      OBVIOUS
    <3>1. CASE i <= n
      <4>1. i \in 1 .. n
        BY <1>1, <3>1
      <4>2. absorbed'[i] = absorbed[i] /\ (Given \o block.col)[i] = Given[i]
        BY <2>5, <2>8, <3>1
      <4> QED BY <1>2, <4>1, <4>2
    <3>2. CASE ~(i <= n)
      <4>1. i - n \in 1 .. m
        BY <1>1, <3>2
      <4>2. absorbed'[i] = new[i - n] /\ (Given \o block.col)[i] = block.col[i - n]
        BY <2>5, <2>8, <3>2
      <4> QED BY <2>3, <4>1, <4>2
    <3> QED BY <3>1, <3>2
  <2>10. DOMAIN (Given \o block.col) = 1 .. n + m
    BY <2>8, LenProperties
  <2>11. Given \o block.col = [i \in 1 .. n + m |-> (Given \o block.col)[i]]
    BY <2>8, <2>10, LenProperties
  <2>12. Given' = Given \o block.col
    BY <2>7, <2>9, <2>11
  <2> QED BY <2>5, <2>12 DEF R
<1> QED BY <1>3, <1>4

(* What of a block the tail stores: no positions where none are tracked.   *)
Stored(block) == IF track_positions THEN block ELSE [EmptyTier EXCEPT !.col = block.col]

(* The stored block is a tier like the others.                             *)
LEMMA StoredFacts ==
  ASSUME NEW block, ValidBlock(block)
  PROVE  /\ Stored(block).col = block.col
         /\ Typed(Stored(block)) /\ Truthful(Stored(block))
<1>1. CASE track_positions
  BY <1>1 DEF Stored, ValidBlock, Typed, Truthful, Aligned
<1>2. CASE ~track_positions
  <2>1. /\ Stored(block).col = block.col
        /\ Stored(block).pos = <<>> /\ Stored(block).sur = <<>>
    BY <1>2 DEF Stored, EmptyTier
  <2>2. <<>> \in Seq(Int) /\ <<>> \in Seq(1 .. MaxLevel)
    OBVIOUS
  <2> QED BY <1>2, <2>1, <2>2 DEF ValidBlock, Typed, Truthful, Aligned
<1> QED BY <1>1, <1>2

(* The tail after a block, tier by tier.                                   *)
LEMMA TailAfter ==
  ASSUME NEW block, block.col # <<>>, AbsorbColumns(block)
  PROVE  LET fa == Cat(f, Stored(block))
             qa == Cat(q, Spilled(fa, arm.coord_budget))
         IN f' = Kept(fa, arm.coord_budget) /\ q' = Kept(qa, arm.quant_budget)
BY DEF AbsorbColumns, Stored, Kept, Spilled, Leaves

(* An absorb keeps the tail's bookkeeping: no column twice, none that was  *)
(* not given, positions with their tokens, and a run still ends where the  *)
(* block ends.                                                             *)
LEMMA AbsorbKeepsTail ==
  ASSUME arm \in Arms, arm' = arm, lowrank_enabled, TailInv,
         NEW block, ValidBlock(block), Disjoint(block.col),
         Entries(block.col) \cap Entries(Given) = {}, AbsorbColumns(block),
         NEW b \in Int
  PROVE  /\ TailInv'
         /\ Len(f'.col) = Lesser(arm.coord_budget, Len(f.col) + Len(block.col))
         /\ Len(q'.col) = Lesser(arm.quant_budget,
              Len(q.col) + (Len(f.col) + Len(block.col) - Len(f'.col)))
         /\ ~track_positions /\ block.col = Arange(b, Len(block.col))
              /\ MidColumns = Arange(b - Len(MidColumns), Len(MidColumns)) =>
              MidColumns' = Arange(b + Len(block.col) - Len(MidColumns'), Len(MidColumns'))
<1> DEFINE C == arm.coord_budget
           D == arm.quant_budget
           m == Len(block.col)
           L == Len(f.col)
           Q == Len(q.col)
<1>0. /\ C \in Nat /\ D \in Nat /\ track_positions' = track_positions
      /\ block.col \in Seq(Int)
      /\ f.col \in Seq(Int) /\ q.col \in Seq(Int) /\ m \in Nat /\ L \in Nat /\ Q \in Nat
      /\ L <= C /\ Q <= D
  BY ArmFacts, LenProperties
  DEF TailInv, Typed, ValidBlock, track_positions, lowrank_enabled, TL!lowrank_enabled
<1>1. absorbed' \in Seq([tok : Int, sur : 1 .. MaxLevel]) /\ Given' = Given \o block.col
  BY GivenGrows DEF TailInv
<1>2. Given \in Seq(Int) /\ Entries(Given') = Entries(Given) \cup Entries(block.col)
  <2>1. Given \in Seq(Int)
    BY GivenTyped DEF TailInv
  <2>2. Entries(Given \o block.col) = Entries(Given) \cup Entries(block.col)
    BY <1>0, <2>1, ConcatEntries
  <2> QED BY <1>1, <2>1, <2>2
<1>3. CASE block.col = <<>>
  <2>1. f' = f /\ q' = q /\ absorbed' = absorbed
    BY <1>3 DEF AbsorbColumns, tail
  <2>2. MidColumns' = MidColumns /\ Given' = Given
    BY <2>1 DEF MidColumns, Given
  <2>3. m = 0
    BY <1>3
  <2>4. TailInv'
    BY <2>1, <2>2, <1>0 DEF TailInv, Typed, Truthful, Aligned
  <2>5. L = Lesser(C, L + m) /\ Q = Lesser(D, Q + (L + m - L))
    <3> HIDE DEF m, L, Q, C, D
    <3> QED BY <1>0, <2>3 DEF Lesser
  <2>6. b + m = b
    BY <2>3
  <2> HIDE DEF m, L, Q, C, D
  <2>7. MidColumns = Arange(b - Len(MidColumns), Len(MidColumns))
          => MidColumns' = Arange(b + m - Len(MidColumns'), Len(MidColumns'))
    <3>1. PICK old : old = MidColumns
      OBVIOUS
    <3>2. MidColumns' = old
      BY <2>2, <3>1
    <3>3. old = Arange(b - Len(old), Len(old)) => old = Arange(b + m - Len(old), Len(old))
      <4>1. b + m - Len(old) = b - Len(old)
        BY <2>3, <2>6
      <4> QED BY <4>1
    <3> QED BY <3>1, <3>2, <3>3, Zenon
  <2>8. L = Len(f'.col) /\ Q = Len(q'.col)
    BY <2>1 DEF L, Q
  <2> QED BY <2>4, <2>5, <2>7, <2>8 DEF m, L, Q, C, D
<1>4. CASE block.col # <<>>
  <2> DEFINE fa == Cat(f, Stored(block))
             sp == Spilled(fa, C)
             qa == Cat(q, sp)
  <2>1. f' = Kept(fa, C) /\ q' = Kept(qa, D)
    BY <1>4, TailAfter
  <2>2. fa.col = f.col \o block.col /\ Len(fa.col) = L + m /\ Typed(fa) /\ Truthful(fa)
    <3>1. /\ Stored(block).col = block.col
          /\ Typed(Stored(block)) /\ Truthful(Stored(block))
      BY StoredFacts
    <3>2. Typed(f) /\ Truthful(f)
      BY DEF TailInv
    <3>3. /\ fa.col = f.col \o Stored(block).col
          /\ Len(fa.col) = Len(f.col) + Len(Stored(block).col)
          /\ Typed(fa) /\ Truthful(fa)
      BY <3>1, <3>2, CatFacts
    <3> QED BY <3>1, <3>3
  <2> HIDE DEF fa, C, D
  <2>3. /\ Typed(f') /\ Truthful(f') /\ Typed(sp) /\ Truthful(sp)
        /\ Len(f'.col) = Lesser(C, Len(fa.col)) /\ Len(sp.col) = Len(fa.col) - Len(f'.col)
        /\ Disjoint(fa.col) => /\ Disjoint(f'.col) /\ Disjoint(sp.col)
                               /\ Entries(f'.col) \cap Entries(sp.col) = {}
        /\ Disjoint(fa.col) => Entries(f'.col) \cup Entries(sp.col) = Entries(fa.col)
        /\ \A a \in Int : ~track_positions /\ fa.col = Arange(a, Len(fa.col)) =>
             sp.col = Arange(a, Len(sp.col)) /\ f'.col = Arange(a + Len(sp.col), Len(f'.col))
    <3>1. SplitsInto(fa, C, Kept(fa, C), sp)
      BY <1>0, <2>2, Enforce
    <3>2. SplitsInto(fa, C, f', sp)
      BY <2>1, <3>1
    <3> HIDE DEF sp
    <3> QED BY <3>2 DEF SplitsInto
  <2> HIDE DEF sp
  <2>4. qa.col = q.col \o sp.col /\ Len(qa.col) = Q + Len(sp.col) /\ Typed(qa) /\ Truthful(qa)
    <3>1. Typed(q) /\ Truthful(q)
      BY DEF TailInv
    <3> QED BY <2>3, <3>1, CatFacts
  <2> HIDE DEF qa
  <2> DEFINE dr == Spilled(qa, D)
  <2>5. /\ Typed(q') /\ Truthful(q') /\ Typed(dr)
        /\ Len(q'.col) = Lesser(D, Len(qa.col)) /\ Len(dr.col) = Len(qa.col) - Len(q'.col)
        /\ Disjoint(qa.col) => Disjoint(q'.col)
        /\ Disjoint(qa.col) => Entries(q'.col) \cup Entries(dr.col) = Entries(qa.col)
        /\ \A a \in Int : ~track_positions /\ qa.col = Arange(a, Len(qa.col)) =>
             dr.col = Arange(a, Len(dr.col)) /\ q'.col = Arange(a + Len(dr.col), Len(q'.col))
    <3>1. SplitsInto(qa, D, Kept(qa, D), dr)
      BY <1>0, <2>4, Enforce
    <3>2. SplitsInto(qa, D, q', dr)
      BY <2>1, <3>1
    <3> HIDE DEF dr
    <3> QED BY <3>2 DEF SplitsInto
  <2> HIDE DEF dr, m, L, Q
  <2>6. /\ f'.col \in Seq(Int) /\ q'.col \in Seq(Int) /\ sp.col \in Seq(Int)
        /\ dr.col \in Seq(Int) /\ fa.col \in Seq(Int) /\ qa.col \in Seq(Int)
        /\ Len(f'.col) \in Nat /\ Len(q'.col) \in Nat /\ Len(sp.col) \in Nat
        /\ Len(dr.col) \in Nat
    BY <2>2, <2>3, <2>4, <2>5, LenProperties DEF Typed
  <2>7. /\ Disjoint(f.col) /\ Disjoint(q.col) /\ Entries(q.col) \cap Entries(f.col) = {}
        /\ Entries(q.col) \cup Entries(f.col) \subseteq Entries(Given)
    <3>1. Disjoint(q.col \o f.col) /\ Entries(q.col \o f.col) \subseteq Entries(Given)
      BY DEF TailInv, MidColumns
    <3>2. /\ Entries(q.col \o f.col) = Entries(q.col) \cup Entries(f.col)
          /\ Disjoint(q.col \o f.col) => /\ Disjoint(q.col) /\ Disjoint(f.col)
                                         /\ Entries(q.col) \cap Entries(f.col) = {}
      BY <1>0, ConcatEntries
    <3> QED BY <3>1, <3>2
  <2>8. Entries(fa.col) = Entries(f.col) \cup Entries(block.col) /\ Disjoint(fa.col)
    <3>1. Entries(f.col) \cap Entries(block.col) = {}
      BY <2>7
    <3>2. /\ Entries(f.col \o block.col) = Entries(f.col) \cup Entries(block.col)
          /\ Disjoint(f.col) /\ Disjoint(block.col)
               /\ Entries(f.col) \cap Entries(block.col) = {} => Disjoint(f.col \o block.col)
      BY <1>0, ConcatEntries
    <3> QED BY <2>2, <2>7, <3>1, <3>2
  <2>9. /\ Disjoint(f'.col) /\ Disjoint(sp.col) /\ Entries(f'.col) \cap Entries(sp.col) = {}
        /\ Entries(f'.col) \cup Entries(sp.col) = Entries(f.col) \cup Entries(block.col)
    BY <2>3, <2>8
  <2>10. Entries(qa.col) = Entries(q.col) \cup Entries(sp.col) /\ Disjoint(qa.col)
    <3>1. Entries(q.col) \cap Entries(sp.col) = {}
      BY <2>7, <2>9
    <3>2. /\ Entries(q.col \o sp.col) = Entries(q.col) \cup Entries(sp.col)
          /\ Disjoint(q.col) /\ Disjoint(sp.col)
               /\ Entries(q.col) \cap Entries(sp.col) = {} => Disjoint(q.col \o sp.col)
      BY <1>0, <2>6, ConcatEntries
    <3> QED BY <2>4, <2>7, <2>9, <3>1, <3>2
  <2>11. Disjoint(q'.col) /\ Entries(q'.col) \subseteq Entries(q.col) \cup Entries(sp.col)
    BY <2>5, <2>10
  <2>12. MidColumns' = q'.col \o f'.col
    BY DEF MidColumns
  <2>13. Disjoint(MidColumns') /\ Entries(MidColumns') \subseteq Entries(Given')
    <3>1. Entries(q'.col) \cap Entries(f'.col) = {}
      BY <2>7, <2>9, <2>11
    <3>2. /\ Entries(q'.col \o f'.col) = Entries(q'.col) \cup Entries(f'.col)
          /\ Disjoint(q'.col) /\ Disjoint(f'.col)
               /\ Entries(q'.col) \cap Entries(f'.col) = {} => Disjoint(q'.col \o f'.col)
      BY <2>6, ConcatEntries
    <3>3. Entries(q'.col) \cup Entries(f'.col) \subseteq Entries(Given')
      BY <1>2, <2>7, <2>9, <2>11
    <3> QED BY <2>9, <2>11, <2>12, <3>1, <3>2, <3>3
  <2>14. /\ Len(f'.col) = Lesser(C, L + m) /\ Len(f'.col) <= C
         /\ Len(q'.col) = Lesser(D, Q + (L + m - Len(f'.col))) /\ Len(q'.col) <= D
    <3>0. Len(fa.col) = L + m /\ Len(qa.col) = Q + (L + m - Len(f'.col))
      BY <1>0, <2>2, <2>3, <2>4, <2>6
    <3>1. /\ Len(f'.col) = Lesser(C, L + m)
          /\ Len(q'.col) = Lesser(D, Q + (L + m - Len(f'.col)))
      BY <2>3, <2>5, <3>0
    <3> QED BY <1>0, <2>6, <3>1 DEF Lesser
  <2>15. ASSUME ~track_positions, block.col = Arange(b, m),
                MidColumns = Arange(b - Len(MidColumns), Len(MidColumns))
         PROVE  MidColumns' = Arange(b + m - Len(MidColumns'), Len(MidColumns'))
    <3> DEFINE S == Len(sp.col)
               K == Len(f'.col)
               E == Len(q'.col)
               X == Len(dr.col)
    <3>1. /\ S \in Nat /\ K \in Nat /\ E \in Nat /\ X \in Nat
          /\ S = L + m - K /\ X = Q + S - E
      <4>1. /\ Len(fa.col) = L + m /\ S = Len(fa.col) - K
            /\ Len(qa.col) = Q + S /\ X = Len(qa.col) - E
        BY <2>2, <2>3, <2>4, <2>5
      <4>2. Len(fa.col) \in Int /\ Len(qa.col) \in Int
        BY <2>6, LenProperties
      <4>3. S \in Nat /\ K \in Nat /\ E \in Nat /\ X \in Nat
        BY <2>6
      <4> HIDE DEF S, K, E, X
      <4>4. S = L + m - K
        BY <1>0, <4>1, <4>2, <4>3
      <4>5. X = Q + S - E
        BY <1>0, <4>1, <4>2, <4>3
      <4> QED BY <4>3, <4>4, <4>5
    <3>2. Len(MidColumns) = Q + L /\ Len(MidColumns') = E + K
      <4>1. Len(q.col \o f.col) = Q + L /\ Len(q'.col \o f'.col) = E + K
        BY <1>0, <2>6, ConcatProperties DEF Q, L
      <4> QED BY <2>12, <4>1 DEF MidColumns
    <3> HIDE DEF S, K, E, X
    <3>3. q.col = Arange(b - (Q + L), Q) /\ f.col = Arange(b - (Q + L) + Q, L)
      <4>1. b - (Q + L) \in Int
        BY <1>0
      <4>2. q.col \o f.col = Arange(b - (Q + L), Len(q.col) + Len(f.col))
        BY <2>15, <3>2 DEF MidColumns, Q, L
      <4> QED BY <1>0, <4>1, <4>2, RunSplit DEF Q, L
    <3>4. b - (Q + L) + Q = b - L /\ b - L \in Int /\ (b - L) + L = b
      BY <1>0
    <3>5. fa.col = Arange(b - L, L + m)
      <4>1. Arange(b - L, L) \o Arange((b - L) + L, m) = Arange(b - L, L + m)
        BY <1>0, <3>4, ArangeConcat
      <4> QED BY <2>2, <2>15, <3>3, <3>4, <4>1
    <3>6. sp.col = Arange(b - L, S) /\ f'.col = Arange(b - L + S, K)
      BY <2>2, <2>3, <2>15, <3>4, <3>5 DEF S, K
    <3>7. qa.col = Arange(b - (Q + L), Q + S)
      <4>1. b - (Q + L) \in Int /\ b - (Q + L) + Q = b - L
        BY <1>0
      <4>2. ASSUME NEW a \in Int PROVE Arange(a, Q) \o Arange(a + Q, S) = Arange(a, Q + S)
        BY <1>0, <3>1, ArangeConcat, ZenonT(40)
      <4> QED BY <2>4, <3>3, <3>6, <4>1, <4>2
    <3>8. q'.col = Arange(b - (Q + L) + X, E)
      <4>1. b - (Q + L) \in Int /\ Len(qa.col) = Q + S
        BY <1>0, <2>4 DEF S
      <4> QED BY <2>5, <2>15, <3>7, <4>1 DEF X, E
    <3>9. /\ b - (Q + L) + X \in Int /\ b - (Q + L) + X = b + m - (E + K)
          /\ b - L + S = (b - (Q + L) + X) + E
      BY <1>0, <3>1
    <3>10. Arange(b - (Q + L) + X, E) \o Arange((b - (Q + L) + X) + E, K)
             = Arange(b - (Q + L) + X, E + K)
      BY <3>1, <3>9, ArangeConcat, ZenonT(40)
    <3> QED BY <2>12, <3>2, <3>6, <3>8, <3>9, <3>10
  <2>16. TailInv'
    <3>1. Typed(f)' /\ Typed(q)'
      BY <2>3, <2>5 DEF Typed
    <3>2. Truthful(f)' /\ Truthful(q)'
      BY <1>0, <2>3, <2>5 DEF Truthful, Aligned
    <3>3. (Len(f.col) <= arm.coord_budget /\ Len(q.col) <= arm.quant_budget)'
      BY <2>14 DEF C, D
    <3>4. (Disjoint(MidColumns) /\ Entries(MidColumns) \subseteq Entries(Given))'
      BY <2>13
    <3> QED BY <1>1, <3>1, <3>2, <3>3, <3>4 DEF TailInv
  <2> QED BY <2>14, <2>15, <2>16 DEF m, L, Q, C, D
<1> QED BY <1>3, <1>4

-----------------------------------------------------------------------------
(* What the budgets retain.                                                *)

(* The columns of tier t are those of a history of M columns that h names, *)
(* equal scores in the order of the history.                               *)
Names(t, h, M, tok, score) ==
  /\ h \in Seq(1 .. M) /\ Len(h) = Len(t.col)
  /\ \A i \in 1 .. Len(h) : /\ t.col[i] = tok[h[i]]
                            /\ track_positions => t.sur[i] = score[h[i]]
  /\ \A i, j \in 1 .. Len(h) : i < j /\ score[h[i]] = score[h[j]] => h[i] < h[j]

NamedOnce(h, M) ==
  /\ Len(h) \in Nat /\ DOMAIN h = 1 .. Len(h)
  /\ \A i \in 1 .. Len(h) : h[i] \in 1 .. M
  /\ \A i, j \in 1 .. Len(h) : h[i] = h[j] => i = j

(* No column is named twice.                                               *)
LEMMA NamesOnce ==
  ASSUME NEW t, NEW M \in Nat, NEW tok, NEW score, NEW h, Names(t, h, M, tok, score)
  PROVE  NamedOnce(h, M)
<1>1. h \in Seq(1 .. M)
  BY DEF Names
<1>2. Len(h) \in Nat /\ DOMAIN h = 1 .. Len(h) /\ \A i \in 1 .. Len(h) : h[i] \in 1 .. M
  BY <1>1, LenProperties, ElementOfSeq
<1>3. \A i, j \in 1 .. Len(h) : i < j /\ h[i] = h[j] => h[i] < h[j]
  BY DEF Names
<1>4. ASSUME NEW i \in 1 .. Len(h), NEW j \in 1 .. Len(h), h[i] = h[j] PROVE i = j
  <2>1. h[i] \in Int /\ i \in Int /\ j \in Int
    BY <1>2
  <2>2. ~(i < j) /\ ~(j < i)
    BY <1>3, <1>4, <2>1
  <2> QED BY <2>1, <2>2
<1> QED BY <1>2, <1>4 DEF NamedOnce

(* Selected columns are named by the selected names.                       *)
LEMMA NamesSelected ==
  ASSUME NEW t, Typed(t), Truthful(t), NEW M \in Nat, NEW tok, NEW score, NEW h,
         Names(t, h, M, tok, score), NEW I \in SUBSET (1 .. Len(t.col))
  PROVE  /\ Names(Columns(t, I), Pick(h, I), M, tok, score)
         /\ Entries(Pick(h, I)) = {h[i] : i \in I}
<1> DEFINE w == Columns(t, I)
           n == Cardinality(I)
           A == Ascending(I)
           g == Pick(h, I)
<1>1. h \in Seq(1 .. M) /\ Len(h) = Len(t.col) /\ I \in SUBSET (1 .. Len(h))
  BY DEF Names
<1>2. /\ g \in Seq(1 .. M) /\ Len(g) = n /\ Entries(g) = {h[i] : i \in I}
      /\ IsFiniteSet(I) /\ n \in Nat
  BY <1>1, PickFacts
<1>3. /\ w.col = Pick(t.col, I) /\ Len(w.col) = n
  BY ColumnsFacts
<1>4. track_positions => w.sur = Pick(t.sur, I)
  <2> SUFFICES ASSUME track_positions PROVE w.sur = Pick(t.sur, I)
    OBVIOUS
  <2>1. t.sur \in Seq(1 .. MaxLevel) /\ I \in SUBSET (1 .. Len(t.sur))
    BY DEF Typed, Truthful, Aligned
  <2>2. w.sur = IF t.sur = <<>> THEN <<>> ELSE Pick(t.sur, I)
    BY DEF Columns
  <2> QED BY <2>1, <2>2, PickOrEmpty
<1>5. /\ A \in [1 .. n -> I]
      /\ \A r, s \in 1 .. n : r < s => A[r] < A[s]
  <2>1. I \in SUBSET Int
    OBVIOUS
  <2> QED BY <1>2, <2>1, AscendingSorts
<1>6. \A s : Pick(s, I) = [r \in 1 .. n |-> s[A[r]]]
  <2>1. DOMAIN A = 1 .. n
    BY <1>5
  <2> QED BY <2>1 DEF Pick
<1> HIDE DEF w, n, A, g
<1>7. \A r \in 1 .. n : /\ A[r] \in 1 .. Len(h) /\ g[r] = h[A[r]]
                        /\ w.col[r] = t.col[A[r]]
                        /\ track_positions => w.sur[r] = t.sur[A[r]]
  <2> SUFFICES ASSUME NEW r \in 1 .. n
               PROVE  /\ A[r] \in 1 .. Len(h) /\ g[r] = h[A[r]]
                      /\ w.col[r] = t.col[A[r]]
                      /\ track_positions => w.sur[r] = t.sur[A[r]]
    OBVIOUS
  <2>1. A[r] \in 1 .. Len(h)
    BY <1>1, <1>5
  <2>2. g = [x \in 1 .. n |-> h[A[x]]]
    BY <1>6 DEF g
  <2>3. w.col = [x \in 1 .. n |-> t.col[A[x]]]
    BY <1>3, <1>6
  <2>4. track_positions => w.sur = [x \in 1 .. n |-> t.sur[A[x]]]
    BY <1>4, <1>6
  <2> QED BY <2>1, <2>2, <2>3, <2>4
<1>8. \A r \in 1 .. n : /\ w.col[r] = tok[g[r]]
                        /\ track_positions => w.sur[r] = score[g[r]]
  BY <1>7 DEF Names
<1>9. ASSUME NEW r \in 1 .. n, NEW s \in 1 .. n, r < s, score[g[r]] = score[g[s]]
      PROVE  g[r] < g[s]
  <2>1. A[r] < A[s]
    BY <1>5, <1>9
  <2>2. \A i, j \in 1 .. Len(h) : i < j /\ score[h[i]] = score[h[j]] => h[i] < h[j]
    BY DEF Names
  <2>3. g[r] = h[A[r]] /\ g[s] = h[A[s]] /\ A[r] \in 1 .. Len(h) /\ A[s] \in 1 .. Len(h)
    BY <1>7
  <2> QED BY <1>9, <2>1, <2>2, <2>3
<1> QED BY <1>2, <1>3, <1>8, <1>9 DEF Names, w, g

(* Chained tiers are named by the chained names, if the second tier's ties *)
(* with the first are newer.                                               *)
Newer(g, h, score) ==
  \A x \in Entries(h), y \in Entries(g) : score[x] = score[y] => x < y

LEMMA NamesChained ==
  ASSUME NEW t, NEW u, Typed(t), Typed(u), Truthful(t), Truthful(u),
         NEW M \in Nat, NEW tok, NEW score, NEW h, NEW g,
         Names(t, h, M, tok, score), Names(u, g, M, tok, score), Newer(g, h, score)
  PROVE  /\ Names(Cat(t, u), h \o g, M, tok, score)
         /\ Entries(h \o g) = Entries(h) \cup Entries(g)
<1> DEFINE w == Cat(t, u)
           e == h \o g
           m == Len(h)
           n == Len(g)
<1>1. /\ h \in Seq(1 .. M) /\ g \in Seq(1 .. M) /\ m = Len(t.col) /\ n = Len(u.col)
  BY DEF Names
<1>2. /\ m \in Nat /\ n \in Nat /\ DOMAIN h = 1 .. m /\ DOMAIN g = 1 .. n
      /\ \A i \in 1 .. m : h[i] \in Entries(h)
      /\ \A i \in 1 .. n : g[i] \in Entries(g)
  BY <1>1, LenProperties DEF Entries
<1>3. /\ w.col = t.col \o u.col /\ w.sur = t.sur \o u.sur /\ Len(w.col) = m + n
  BY <1>1, CatFacts DEF Cat
<1>4. t.col \in Seq(Int) /\ u.col \in Seq(Int)
      /\ t.sur \in Seq(1 .. MaxLevel) /\ u.sur \in Seq(1 .. MaxLevel)
      /\ (track_positions => Len(t.sur) = m /\ Len(u.sur) = n)
  BY <1>1 DEF Typed, Truthful, Aligned
<1>5. /\ e \in Seq(1 .. M) /\ Len(e) = m + n
      /\ \A i \in 1 .. m + n : e[i] = IF i <= m THEN h[i] ELSE g[i - m]
  <2>1. PICK S : S = 1 .. M
    OBVIOUS
  <2>2. h \in Seq(S) /\ g \in Seq(S)
    BY <1>1, <2>1
  <2> HIDE DEF m, n
  <2>3. /\ e \in Seq(S) /\ Len(e) = Len(h) + Len(g)
        /\ \A i \in 1 .. Len(h) + Len(g) :
             e[i] = IF i <= Len(h) THEN h[i] ELSE g[i - Len(h)]
    BY <2>2, ConcatProperties
  <2> HIDE DEF e
  <2> QED BY <2>1, <2>3 DEF m, n
<1>6. \A i \in 1 .. m + n : w.col[i] = IF i <= m THEN t.col[i] ELSE u.col[i - m]
  BY <1>1, <1>3, <1>4, ConcatProperties
<1>7. track_positions =>
        \A i \in 1 .. m + n : w.sur[i] = IF i <= m THEN t.sur[i] ELSE u.sur[i - m]
  <2> SUFFICES ASSUME track_positions
               PROVE  \A i \in 1 .. m + n :
                        (t.sur \o u.sur)[i] = IF i <= m THEN t.sur[i] ELSE u.sur[i - m]
    BY <1>3
  <2>1. /\ t.sur \in Seq(1 .. MaxLevel) /\ u.sur \in Seq(1 .. MaxLevel)
        /\ Len(t.sur) = m /\ Len(u.sur) = n
    BY <1>4
  <2> HIDE DEF m, n
  <2>2. \A i \in 1 .. Len(t.sur) + Len(u.sur) :
          (t.sur \o u.sur)[i] = IF i <= Len(t.sur) THEN t.sur[i] ELSE u.sur[i - Len(t.sur)]
    BY <2>1, ConcatProperties, ZenonT(40)
  <2> QED BY <2>1, <2>2
<1>8. Entries(e) = Entries(h) \cup Entries(g)
  BY <1>1, ConcatEntries
<1> HIDE DEF w, e, m, n
<1>9. ASSUME NEW i \in 1 .. m + n
      PROVE  /\ w.col[i] = tok[e[i]]
             /\ track_positions => w.sur[i] = score[e[i]]
  <2>1. CASE i <= m
    <3>1. i \in 1 .. m
      BY <1>2, <2>1
    <3> QED BY <1>5, <1>6, <1>7, <2>1, <3>1 DEF Names, m
  <2>2. CASE ~(i <= m)
    <3>1. i - m \in 1 .. n
      BY <1>2, <2>2
    <3>2. /\ u.col[i - m] = tok[g[i - m]]
          /\ track_positions => u.sur[i - m] = score[g[i - m]]
      BY <3>1 DEF Names, n
    <3> QED BY <1>5, <1>6, <1>7, <2>2, <3>2
  <2> QED BY <2>1, <2>2
<1>10. ASSUME NEW i \in 1 .. m + n, NEW j \in 1 .. m + n, i < j, score[e[i]] = score[e[j]]
       PROVE  e[i] < e[j]
  <2>1. CASE j <= m
    <3>1. i \in 1 .. m /\ j \in 1 .. m /\ i <= m
      BY <1>2, <1>10, <2>1
    <3>2. e[i] = h[i] /\ e[j] = h[j]
      BY <1>5, <2>1, <3>1
    <3> QED BY <1>10, <3>1, <3>2 DEF Names, m
  <2>2. CASE ~(i <= m)
    <3>1. i - m \in 1 .. n /\ j - m \in 1 .. n /\ i - m < j - m /\ ~(j <= m)
      BY <1>2, <1>10, <2>2
    <3>2. e[i] = g[i - m] /\ e[j] = g[j - m]
      BY <1>5, <2>2, <3>1
    <3>3. \A x, y \in 1 .. n : x < y /\ score[g[x]] = score[g[y]] => g[x] < g[y]
      BY DEF Names, n
    <3> QED BY <1>10, <3>1, <3>2, <3>3
  <2>3. CASE i <= m /\ ~(j <= m)
    <3>1. i \in 1 .. m /\ j - m \in 1 .. n
      BY <1>2, <2>3
    <3>2. e[i] = h[i] /\ e[j] = g[j - m]
      BY <1>5, <2>3
    <3> QED BY <1>2, <1>10, <3>1, <3>2 DEF Newer
  <2> QED BY <2>1, <2>2, <2>3
<1> QED BY <1>1, <1>3, <1>5, <1>8, <1>9, <1>10 DEF Names, w, e, m, n

(* A column leaves a tier over its budget b unless fewer than b others     *)
(* outlast it: the argsort and the slice agree on that.                    *)
Ranks(score, M) ==
  Scored(score, M) /\ (~track_positions => \A x \in 1 .. M : score[x] = 0)

LEMMA LeavesUnlessTop ==
  ASSUME NEW t, Typed(t), Truthful(t), lowrank_enabled, NEW b \in Nat,
         NEW M, NEW tok, NEW score, Ranks(score, M), NEW h, Names(t, h, M, tok, score),
         NEW i \in 1 .. Len(h)
  PROVE  i \notin Leaves(t, b) <=> Cardinality(Above(score, Entries(h), h[i])) < b
<1>0. /\ M \in Nat /\ score \in [1 .. M -> Int]
      /\ ~track_positions => \A x \in 1 .. M : score[x] = 0
  BY DEF Ranks, Scored
<1> USE <1>0
<1> DEFINE n == Len(h)
           below == {j \in 1 .. n : Outlasts(score, h[i], h[j])}
           above == {j \in 1 .. n : Outlasts(score, h[j], h[i])}
<1>1. /\ n \in Nat /\ DOMAIN h = 1 .. n /\ n = Len(t.col) /\ DOMAIN t.col = 1 .. n
      /\ \A j \in 1 .. n : h[j] \in 1 .. M
      /\ \A j, k \in 1 .. n : h[j] = h[k] => j = k
  <2>1. n = Len(t.col) /\ DOMAIN t.col = 1 .. Len(t.col)
    BY LenProperties DEF Names, Typed
  <2>2. NamedOnce(h, M)
    BY NamesOnce
  <2> QED BY <2>1, <2>2 DEF NamedOnce
<1>2. \A j \in 1 .. n : h[j] \in Int /\ score[h[j]] \in Int
  BY <1>1
<1>3. \A j, k \in 1 .. n : j < k /\ score[h[j]] = score[h[k]] => h[j] < h[k]
  BY DEF Names
<1>4. IsFiniteSet(1 .. n) /\ Cardinality(1 .. n) = n
  <2>1. 1 \in Int /\ n \in Int /\ (1 > n => n = 0) /\ (1 <= n => n - 1 + 1 = n)
    BY <1>1
  <2>2. IsFiniteSet(1 .. n) /\ Cardinality(1 .. n) = IF 1 > n THEN 0 ELSE n - 1 + 1
    BY <2>1, FS_Interval
  <2> QED BY <2>1, <2>2
<1>5. /\ IsFiniteSet(below) /\ Cardinality(below) \in Nat
      /\ IsFiniteSet(above) /\ Cardinality(above) \in Nat
  BY <1>4, FS_Subset, FS_CardinalityType
<1> HIDE DEF n
<1>6. i \in Leaves(t, b) <=> Cardinality(below) < n - b
  <2>1. CASE arm.retention = "fifo"
    <3>1. \A j \in 1 .. n : score[h[j]] = 0
      BY <1>1, <2>1 DEF track_positions
    <3>2. \A j \in 1 .. n : Outlasts(score, h[i], h[j]) <=> h[i] > h[j]
      BY <1>2, <3>1 DEF Outlasts, n
    <3>3. \A j \in 1 .. n : h[i] > h[j] <=> j < i
      <4> SUFFICES ASSUME NEW j \in 1 .. n PROVE h[i] > h[j] <=> j < i
        OBVIOUS
      <4>1. /\ i \in 1 .. n /\ h[i] \in Int /\ h[j] \in Int
        BY <1>2 DEF n
      <4>2. j < i => h[j] < h[i]
        BY <1>3, <3>1, <4>1
      <4>3. i < j => h[i] < h[j]
        BY <1>3, <3>1, <4>1
      <4> QED BY <4>1, <4>2, <4>3
    <3>4. below = 1 .. i - 1
      BY <1>1, <3>2, <3>3 DEF n
    <3>5. Cardinality(1 .. i - 1) = i - 1
      <4>1. /\ 1 \in Int /\ i - 1 \in Int /\ (1 > i - 1 => i - 1 = 0)
            /\ (1 <= i - 1 => i - 1 - 1 + 1 = i - 1)
        BY <1>1 DEF n
      <4>2. Cardinality(1 .. i - 1) = IF 1 > i - 1 THEN 0 ELSE i - 1 - 1 + 1
        BY <4>1, FS_Interval
      <4> QED BY <4>1, <4>2
    <3>6. i \in Leaves(t, b) <=> i <= n - b
      BY <1>1, <2>1 DEF Leaves, EvictIndices, n
    <3>7. i \in Int /\ n \in Int
      BY <1>1 DEF n
    <3> HIDE DEF below
    <3> QED BY <3>4, <3>5, <3>6, <3>7
  <2>2. CASE arm.retention # "fifo"
    <3>1. track_positions
      BY <2>2 DEF track_positions
    <3>2. /\ t.sur \in Seq(1 .. MaxLevel) /\ DOMAIN t.sur = 1 .. n
          /\ \A j \in 1 .. n : t.sur[j] = score[h[j]]
      <4>1. t.sur \in Seq(1 .. MaxLevel) /\ Len(t.sur) = Len(t.col)
        BY <3>1 DEF Typed, Truthful, Aligned
      <4>2. DOMAIN t.sur = 1 .. Len(t.sur)
        BY <4>1, LenProperties
      <4>3. \A j \in 1 .. n : t.sur[j] = score[h[j]]
        BY <3>1 DEF Names, n
      <4> QED BY <1>1, <4>1, <4>2, <4>3
    <3>3. Leaves(t, b)
            = {k \in 1 .. n : Cardinality({j \in 1 .. n :
                 t.sur[j] < t.sur[k] \/ (t.sur[j] = t.sur[k] /\ j < k)}) < n - b}
      BY <1>1, <2>2, <3>2 DEF Leaves, EvictIndices, LowestFirst
    <3>4. {j \in 1 .. n : t.sur[j] < t.sur[i] \/ (t.sur[j] = t.sur[i] /\ j < i)} = below
      <4> SUFFICES ASSUME NEW j \in 1 .. n
                   PROVE  t.sur[j] < t.sur[i] \/ (t.sur[j] = t.sur[i] /\ j < i)
                            <=> Outlasts(score, h[i], h[j])
        OBVIOUS
      <4>1. /\ i \in 1 .. n /\ h[i] \in Int /\ h[j] \in Int
            /\ score[h[i]] \in Int /\ score[h[j]] \in Int
        BY <1>2 DEF n
      <4>2. t.sur[j] = score[h[j]] /\ t.sur[i] = score[h[i]]
        BY <3>2, <4>1
      <4>3. /\ j < i /\ score[h[j]] = score[h[i]] => h[j] < h[i]
            /\ i < j /\ score[h[i]] = score[h[j]] => h[i] < h[j]
        BY <1>3, <4>1
      <4> QED BY <4>1, <4>2, <4>3 DEF Outlasts
    <3>5. i \in 1 .. n
      BY DEF n
    <3> QED BY <3>3, <3>4, <3>5
  <2> QED BY <2>1, <2>2
<1>7. Cardinality(below) + Cardinality(above) = n - 1
  <2>1. i \in 1 .. n /\ \A j \in 1 .. n : h[j] = h[i] => j = i
    BY <1>1 DEF n
  <2>2. below \cup above = (1 .. n) \ {i} /\ below \cap above = {}
    <3>1. \A j \in 1 .. n : /\ j # i <=> Outlasts(score, h[i], h[j]) \/ Outlasts(score, h[j], h[i])
                            /\ ~(Outlasts(score, h[i], h[j]) /\ Outlasts(score, h[j], h[i]))
      BY <1>2, <2>1 DEF Outlasts
    <3> QED BY <3>1
  <2>3. Cardinality((1 .. n) \ {i}) = n - 1
    BY <1>4, <2>1, FS_RemoveElement
  <2> HIDE DEF below, above
  <2>4. Cardinality(below \cup above)
          = Cardinality(below) + Cardinality(above) - Cardinality(below \cap above)
    BY <1>5, FS_Union
  <2>5. n - 1 = Cardinality(below) + Cardinality(above) - 0
    BY <2>2, <2>3, <2>4, FS_EmptySet
  <2> QED BY <1>1, <1>5, <2>5
<1>8. Cardinality(Above(score, Entries(h), h[i])) = Cardinality(above)
  <2>1. \A j, k \in above : h[j] = h[k] => j = k
    BY <1>1
  <2>2. Renamed(h, above) = Above(score, Entries(h), h[i])
    BY <1>1 DEF Renamed, Above, Entries
  <2> HIDE DEF above
  <2>3. Cardinality(Renamed(h, above)) = Cardinality(above)
    BY <1>5, <2>1, RenamedCount
  <2> QED BY <2>2, <2>3
<1> HIDE DEF below, above
<1> QED BY <1>1, <1>5, <1>6, <1>7, <1>8

(* So what a budget keeps is the top of what the tier held.                *)
KeepsTop(t, b, h, M, tok, score) ==
  \E k, s : /\ Names(Kept(t, b), k, M, tok, score)
            /\ Names(Spilled(t, b), s, M, tok, score)
            /\ Entries(k) = Top(score, Entries(h), b)
            /\ Entries(s) = Entries(h) \ Top(score, Entries(h), b)

LEMMA NamesEnforced ==
  ASSUME NEW t, Typed(t), Truthful(t), lowrank_enabled, NEW b \in Nat,
         NEW M, NEW tok, NEW score, Ranks(score, M), NEW h,
         Names(t, h, M, tok, score)
  PROVE  KeepsTop(t, b, h, M, tok, score)
<1>0. M \in Nat
  BY DEF Ranks, Scored
<1> USE <1>0
<1> DEFINE n == Len(t.col)
           I == Leaves(t, b)
           J == (1 .. n) \ I
<1>1. /\ n = Len(h) /\ DOMAIN t.col = 1 .. n /\ DOMAIN h = 1 .. n /\ n \in Nat
      /\ \A i, j \in 1 .. n : h[i] = h[j] => i = j
  <2>1. n = Len(h) /\ DOMAIN t.col = 1 .. n
    BY LenProperties DEF Names, Typed
  <2>2. NamedOnce(h, M)
    BY NamesOnce
  <2> QED BY <2>1, <2>2 DEF NamedOnce
<1>2. I \in SUBSET (1 .. n)
  <2>1. arm.retention # "fifo" => Len(t.sur) = Len(t.col)
    BY DEF Truthful, Aligned, track_positions
  <2>2. n - b \in Int
    BY <1>1
  <2> QED BY <2>1, <2>2, EvictCount DEF Leaves
<1>3. Kept(t, b) = Columns(t, J) /\ Spilled(t, b) = Columns(t, I)
  BY <1>1 DEF Kept, Spilled
<1>4. \A i \in 1 .. n : i \notin I <=> Cardinality(Above(score, Entries(h), h[i])) < b
  BY <1>1, LeavesUnlessTop
<1> HIDE DEF I
<1>5. /\ Names(Kept(t, b), Pick(h, J), M, tok, score)
      /\ Entries(Pick(h, J)) = {h[i] : i \in J}
  <2>1. J \in SUBSET (1 .. n)
    OBVIOUS
  <2> QED BY <1>3, <2>1, NamesSelected
<1>6. /\ Names(Spilled(t, b), Pick(h, I), M, tok, score)
      /\ Entries(Pick(h, I)) = {h[i] : i \in I}
  BY <1>2, <1>3, NamesSelected
<1>7. \A x : x \in Top(score, Entries(h), b)
               <=> x \in Entries(h) /\ Cardinality(Above(score, Entries(h), x)) < b
  BY DEF Top, Above
<1>8. {h[i] : i \in J} = Top(score, Entries(h), b)
  <2>1. \A i \in 1 .. n : i \in J <=> h[i] \in Top(score, Entries(h), b)
    BY <1>1, <1>4, <1>7 DEF Entries
  <2>2. \A x \in Top(score, Entries(h), b) : \E i \in 1 .. n : x = h[i]
    BY <1>1, <1>7 DEF Entries
  <2> QED BY <2>1, <2>2
<1>9. {h[i] : i \in I} = Entries(h) \ Top(score, Entries(h), b)
  <2>1. \A i \in 1 .. n : i \in I <=> h[i] \notin Top(score, Entries(h), b)
    BY <1>1, <1>4, <1>7 DEF Entries
  <2>2. \A x : x \in Entries(h) <=> \E i \in 1 .. n : x = h[i]
    BY <1>1 DEF Entries
  <2> QED BY <1>2, <2>1, <2>2
<1> QED BY <1>5, <1>6, <1>8, <1>9 DEF KeepsTop

(* An absorb leaves the history's beginning and appends the block.         *)
LEMMA HistoryGrows ==
  ASSUME absorbed \in Seq([tok : Int, sur : 1 .. MaxLevel]),
         NEW block, ValidBlock(block), block.col # <<>>, AbsorbColumns(block)
  PROVE  LET N == Len(absorbed)
             m == Len(block.col)
         IN /\ N \in Nat /\ m \in Nat /\ DOMAIN absorbed = 1 .. N
            /\ DOMAIN absorbed' = 1 .. N + m
            /\ \A i \in 1 .. N : absorbed'[i] = absorbed[i]
            /\ \A i \in 1 .. m : /\ absorbed'[N + i].tok = block.col[i]
                                 /\ absorbed'[N + i].sur = block.sur[i]
            /\ \A i \in 1 .. N + m : absorbed'[i].sur \in Int
<1> DEFINE R == [tok : Int, sur : 1 .. MaxLevel]
           m == Len(block.col)
           N == Len(absorbed)
           new == [i \in DOMAIN block.col |-> [tok |-> block.col[i], sur |-> block.sur[i]]]
<1>1. m \in Nat /\ DOMAIN block.col = 1 .. m /\ N \in Nat /\ DOMAIN absorbed = 1 .. N
  BY LenProperties DEF ValidBlock
<1>2. absorbed' = absorbed \o new
  BY DEF AbsorbColumns
<1>3. \A i \in 1 .. m : block.col[i] \in Int /\ block.sur[i] \in 1 .. MaxLevel
  BY ElementOfSeq DEF ValidBlock
<1>4. /\ new \in [1 .. m -> R]
      /\ \A i \in 1 .. m : new[i].tok = block.col[i] /\ new[i].sur = block.sur[i]
  BY <1>1, <1>3
<1> HIDE DEF new, R, m, N
<1>5. new \in Seq(R) /\ Len(new) = m
  BY <1>1, <1>4, FunctionIsSeq
<1>6. /\ absorbed' \in Seq(R) /\ Len(absorbed') = N + m
      /\ \A i \in 1 .. N + m : absorbed'[i] = IF i <= N THEN absorbed[i] ELSE new[i - N]
  BY <1>2, <1>5, ConcatProperties DEF R, N
<1>7. DOMAIN absorbed' = 1 .. N + m
  BY <1>6, LenProperties
<1>8. \A i \in 1 .. N : absorbed'[i] = absorbed[i]
  BY <1>1, <1>6
<1>9. ASSUME NEW i \in 1 .. m PROVE absorbed'[N + i] = new[i]
  <2>1. N + i \in 1 .. N + m /\ ~(N + i <= N) /\ N + i - N = i
    BY <1>1
  <2>2. absorbed'[N + i] = new[N + i - N]
    BY <1>1, <1>6, <2>1
  <2> QED BY <2>1, <2>2
<1>10. \A i \in 1 .. N + m : absorbed'[i].sur \in Int
  <2>1. \A i \in 1 .. N + m : absorbed'[i] \in R
    BY <1>6, ElementOfSeq
  <2> QED BY <2>1, MaxLevelAssumption DEF R
<1> QED BY <1>1, <1>4, <1>7, <1>8, <1>9, <1>10 DEF m, N

(* The tiers' columns recalled from the history, as names.                 *)
LEMMA RecalledNames ==
  ASSUME NEW t, Typed(t), NEW N \in Nat, NEW M \in Nat, N <= M,
         DOMAIN absorbed = 1 .. N,
         NEW h \in [DOMAIN t.col -> DOMAIN absorbed], Recalls(t, h),
         NEW tok, NEW score,
         \A x \in 1 .. N : tok[x] = absorbed[x].tok /\ score[x] = Score[x],
         track_positions => \A x \in 1 .. N : Score[x] = absorbed[x].sur
  PROVE  Names(t, h, M, tok, score)
<1>1. Len(t.col) \in Nat /\ DOMAIN t.col = 1 .. Len(t.col)
  BY LenProperties DEF Typed
<1>2. h \in [1 .. Len(t.col) -> 1 .. M] /\ \A i \in 1 .. Len(t.col) : h[i] \in 1 .. N
  BY <1>1
<1>3. h \in Seq(1 .. M) /\ Len(h) = Len(t.col) /\ DOMAIN h = 1 .. Len(t.col)
  <2>1. PICK n \in Nat : n = Len(t.col)
    BY <1>1
  <2>2. PICK S : S = 1 .. M
    OBVIOUS
  <2>3. h \in [1 .. n -> S]
    BY <1>2, <2>1, <2>2
  <2>4. h \in Seq(S) /\ Len(h) = n
    BY <2>3, FunctionIsSeq
  <2> QED BY <1>2, <2>1, <2>2, <2>4
<1>4. \A i \in 1 .. Len(h) : /\ t.col[i] = tok[h[i]]
                             /\ track_positions => t.sur[i] = score[h[i]]
  BY <1>2, <1>3 DEF Recalls
<1>5. \A i, j \in 1 .. Len(h) : i < j /\ score[h[i]] = score[h[j]] => h[i] < h[j]
  <2>1. \A i \in 1 .. Len(h) : score[h[i]] = Score[h[i]]
    BY <1>2, <1>3
  <2> QED BY <1>3, <2>1 DEF Recalls
<1> QED BY <1>3, <1>4, <1>5 DEF Names

(* The sets of columns the budgets leave after U follows S.                *)
TopsMerge(score, S, U, c, d) ==
  LET T == Top(score, S, c)
      R == Top(score, S, c + d) \ T
      T1 == Top(score, S \cup U, c)
  IN /\ Top(score, T \cup U, c) = T1
     /\ Top(score, R \cup ((T \cup U) \ T1), d) = Top(score, S \cup U, c + d) \ T1

LEMMA TopsAfter ==
  ASSUME NEW M, NEW score, Scored(score, M), NEW S, Among(S, M), NEW U, Among(U, M),
         S \cap U = {}, NEW c \in Nat, NEW d \in Nat
  PROVE  TopsMerge(score, S, U, c, d)
<1> DEFINE T == Top(score, S, c)
           B == Top(score, S, c + d)
           T1 == Top(score, S \cup U, c)
           X == B \cup U
<1>1. Top(score, T \cup U, c) = T1
  <2>1. c <= c
    OBVIOUS
  <2> QED BY <2>1, TopOfTop
<1>2. c + d \in Nat /\ c <= c + d /\ c + d <= c + d
  OBVIOUS
<1>3. Top(score, X, c) = T1
  BY <1>2, TopOfTop
<1>4. Top(score, X, c + d) = Top(score, S \cup U, c + d)
  BY <1>2, TopOfTop
<1>5. T \subseteq B /\ B \subseteq S /\ T1 \subseteq T \cup U
  <2>1. T \subseteq B
    BY TopOfRest, Zenon
  <2>2. Top(score, T \cup U, c) \subseteq T \cup U
    BY DEF Top
  <2>3. B \subseteq S
    BY DEF Top
  <2> QED BY <1>1, <2>1, <2>2, <2>3
<1>6. Among(X, M)
  BY <1>5 DEF Among
<1> HIDE DEF T, B, T1
<1>7. (B \ T) \cup ((T \cup U) \ T1) = X \ T1
  BY <1>5
<1> HIDE DEF X
<1>8. Top(score, X \ Top(score, X, c), d) = Top(score, X, c + d) \ Top(score, X, c)
  BY <1>6, TopOfRest
<1>9. Top(score, X \ T1, d) = Top(score, S \cup U, c + d) \ T1
  BY <1>3, <1>4, <1>8
<1> QED BY <1>1, <1>7, <1>9 DEF T, B, T1, TopsMerge

(* An absorb keeps the tiers the top of the history.                       *)
LEMMA AbsorbRetains ==
  ASSUME arm \in Arms, arm' = arm, lowrank_enabled, TailInv, RetainInv,
         NEW block, ValidBlock(block), block.col # <<>>, AbsorbColumns(block)
  PROVE  RetainInv'
<1>1. PICK N \in Nat : N = Len(absorbed)
  BY LenProperties DEF TailInv
<1>2. PICK m \in Nat : m = Len(block.col)
  BY LenProperties DEF ValidBlock
<1>3. PICK M \in Nat : M = N + m
  OBVIOUS
<1>4. PICK c \in Nat : c = arm.coord_budget
  BY ArmFacts
<1>5. PICK d \in Nat : d = arm.quant_budget
  BY ArmFacts
<1>6. /\ DOMAIN absorbed = 1 .. N /\ DOMAIN absorbed' = 1 .. M
      /\ \A i \in 1 .. N : absorbed'[i] = absorbed[i]
      /\ \A i \in 1 .. m : /\ absorbed'[N + i].tok = block.col[i]
                           /\ absorbed'[N + i].sur = block.sur[i]
      /\ \A i \in 1 .. M : absorbed'[i].sur \in Int
  BY <1>1, <1>2, <1>3, HistoryGrows DEF TailInv
<1>7. track_positions' = track_positions /\ (track_positions <=> arm.retention # "fifo")
  BY DEF track_positions, lowrank_enabled, TL!lowrank_enabled
<1>8. PICK score : score = Score'
  OBVIOUS
<1>9. PICK tok : tok = [x \in 1 .. M |-> absorbed'[x].tok]
  OBVIOUS
<1>10. /\ score \in [1 .. M -> Int]
       /\ ~track_positions => \A x \in 1 .. M : score[x] = 0
       /\ track_positions => \A x \in 1 .. M : score[x] = absorbed'[x].sur
  <2>1. score = [i \in 1 .. M |-> IF arm.retention = "fifo" THEN 0 ELSE absorbed'[i].sur]
    BY <1>6, <1>8 DEF Score
  <2> QED BY <1>6, <1>7, <2>1
<1>11. \A x \in 1 .. N : /\ x \in 1 .. M /\ score[x] = Score[x]
                         /\ tok[x] = absorbed[x].tok
                         /\ track_positions => Score[x] = absorbed[x].sur
  <2>1. \A x \in 1 .. N : x \in 1 .. M
    BY <1>3
  <2>2. \A x \in 1 .. N : Score[x] = IF arm.retention = "fifo" THEN 0 ELSE absorbed[x].sur
    BY <1>6 DEF Score
  <2>3. \A x \in 1 .. N : score[x] = IF arm.retention = "fifo" THEN 0 ELSE absorbed[x].sur
    BY <1>6, <1>7, <1>10, <2>1
  <2> QED BY <1>6, <1>7, <1>9, <2>1, <2>2, <2>3
<1> DEFINE S == 1 .. N
           U == N + 1 .. M
           T == Top(score, S, c)
           R == Top(score, S, c + d) \ T
           T1 == Top(score, S \cup U, c)
<1>12. /\ S \in SUBSET (1 .. M) /\ U \in SUBSET (1 .. M) /\ S \cap U = {}
       /\ S \cup U = 1 .. M
  BY <1>3
<1>13. /\ Top(score, T \cup U, c) = T1
       /\ Top(score, R \cup ((T \cup U) \ T1), d) = Top(score, 1 .. M, c + d) \ T1
       /\ T1 = Top(score, 1 .. M, c)
  <2> HIDE DEF S, U
  <2>1. /\ Top(score, T \cup U, c) = T1
        /\ Top(score, R \cup ((T \cup U) \ T1), d) = Top(score, S \cup U, c + d) \ T1
    <3>1. Scored(score, M) /\ Among(S, M) /\ Among(U, M)
      BY <1>10, <1>12 DEF Scored, Among
    <3>2. TopsMerge(score, S, U, c, d)
      BY <1>12, <3>1, TopsAfter
    <3> QED BY <3>2 DEF TopsMerge
  <2> QED BY <1>12, <2>1
<1>14. \A k : Top(Score, DOMAIN absorbed, k) = Top(score, S, k)
  <2>1. \A i, j \in S : Outlasts(Score, j, i) <=> Outlasts(score, j, i)
    BY <1>11 DEF Outlasts
  <2> SUFFICES ASSUME NEW k PROVE Top(Score, S, k) = Top(score, S, k)
    BY <1>6
  <2>2. \A i \in S : {j \in S : Outlasts(Score, j, i)} = {j \in S : Outlasts(score, j, i)}
    BY <2>1
  <2> QED BY <2>2 DEF Top
<1>15. PICK hf \in [DOMAIN f.col -> DOMAIN absorbed],
            hq \in [DOMAIN q.col -> DOMAIN absorbed] :
         /\ Recalls(f, hf) /\ Recalls(q, hq)
         /\ Entries(hf) = T /\ Entries(hq) = R
  BY <1>4, <1>5, <1>14, Zenon DEF RetainInv
<1> HIDE DEF T, R, T1, U
<1>16. /\ Typed(f) /\ Truthful(f) /\ Typed(q) /\ Truthful(q)
  BY DEF TailInv
<1>17. Names(f, hf, M, tok, score) /\ Names(q, hq, M, tok, score)
  <2>1. N <= M
    BY <1>3
  <2> QED BY <1>6, <1>11, <1>15, <1>16, <2>1, RecalledNames
<1>18. PICK g : g = Arange(N + 1, m)
  OBVIOUS
<1>19. /\ g \in Seq(1 .. M) /\ Len(g) = m /\ \A i \in 1 .. m : g[i] = N + i
       /\ Entries(g) = U
  <2>1. /\ DOMAIN g = 1 .. m /\ \A i \in 1 .. m : g[i] = N + 1 + i - 1
    BY <1>18, ArangeShape
  <2>2. \A i \in 1 .. m : g[i] = N + i /\ N + i \in 1 .. M
    BY <1>3, <2>1
  <2>3. g \in [1 .. m -> 1 .. M]
    BY <1>18, <2>1, <2>2 DEF Arange
  <2>4. \A x \in N + 1 .. M : x - N \in 1 .. m /\ x = N + (x - N)
    BY <1>3
  <2>5. \A i \in 1 .. m : N + i \in N + 1 .. M
    BY <1>3
  <2>6. Entries(g) = U
    BY <2>1, <2>2, <2>4, <2>5 DEF Entries, U
  <2> QED BY <2>2, <2>3, <2>6, FunctionIsSeq
<1>20. PICK st : st = Stored(block)
  OBVIOUS
<1>21. /\ st.col = block.col /\ Typed(st) /\ Truthful(st)
       /\ track_positions => st.sur = block.sur
  BY <1>20, StoredFacts DEF Stored
<1>22. Names(st, g, M, tok, score)
  <2>1. \A i \in 1 .. m : N + i \in 1 .. M
    BY <1>3
  <2>2. \A i \in 1 .. m : /\ st.col[i] = tok[g[i]]
                          /\ track_positions => st.sur[i] = score[g[i]]
    <3> SUFFICES ASSUME NEW i \in 1 .. m
                 PROVE  /\ st.col[i] = tok[g[i]]
                        /\ track_positions => st.sur[i] = score[g[i]]
      OBVIOUS
    <3>1. g[i] = N + i /\ N + i \in 1 .. M
      BY <1>19, <2>1
    <3>2. absorbed'[N + i].tok = block.col[i] /\ absorbed'[N + i].sur = block.sur[i]
      BY <1>6
    <3>3. tok[N + i] = block.col[i]
      BY <1>9, <3>1, <3>2
    <3>4. track_positions => score[N + i] = block.sur[i]
      BY <1>10, <3>1, <3>2
    <3> QED BY <1>21, <3>1, <3>3, <3>4
  <2>3. \A i, j \in 1 .. m : i < j => g[i] < g[j]
    BY <1>19
  <2> QED BY <1>2, <1>19, <1>21, <2>2, <2>3 DEF Names
<1>23. /\ \A x \in T \cup R, y \in U : x \in 1 .. N /\ x < y
       /\ T \cap R = {}
  BY DEF T, R, U, Top
<1>24. \A x \in R, y \in T : score[x] = score[y] => x < y
  <2> SUFFICES ASSUME NEW x \in R, NEW y \in T, score[x] = score[y] PROVE x < y
    OBVIOUS
  <2>1. x \in S /\ x \notin T /\ y \in S
    BY <1>23 DEF T, R, Top
  <2>2. T \subseteq Above(score, S, x)
    <3>1. Scored(score, M) /\ Among(S, M)
      BY <1>10, <1>12 DEF Scored, Among
    <3> QED BY <2>1, <3>1, TopFills DEF T
  <2>3. Outlasts(score, y, x) /\ score[x] \in Int /\ score[y] \in Int
    BY <1>10, <1>12, <2>1, <2>2 DEF Above
  <2> QED BY <2>1, <2>3 DEF Outlasts
<1> DEFINE fa == Cat(f, st)
           sp == Spilled(fa, c)
           qa == Cat(q, sp)
<1>25. f' = Kept(fa, c) /\ q' = Kept(qa, d)
  BY <1>4, <1>5, <1>20, TailAfter
<1>26. Typed(fa) /\ Truthful(fa)
  BY <1>16, <1>21, CatFacts
<1>27. PICK ha : Names(fa, ha, M, tok, score) /\ Entries(ha) = T \cup U
  <2>1. Newer(g, hf, score)
    BY <1>15, <1>19, <1>23 DEF Newer
  <2>2. /\ Names(Cat(f, st), hf \o g, M, tok, score)
        /\ Entries(hf \o g) = Entries(hf) \cup Entries(g)
    BY <1>16, <1>17, <1>21, <1>22, <2>1, NamesChained
  <2> QED BY <1>15, <1>19, <2>2
<1> HIDE DEF fa
<1>28. PICK kf, sf : /\ Names(Kept(fa, c), kf, M, tok, score) /\ Names(sp, sf, M, tok, score)
                     /\ Entries(kf) = T1 /\ Entries(sf) = (T \cup U) \ T1
  <2>1. KeepsTop(fa, c, ha, M, tok, score)
    <3>1. Ranks(score, M)
      BY <1>10 DEF Ranks, Scored
    <3> QED BY <1>26, <1>27, <3>1, NamesEnforced
  <2>2. \E k, s : /\ Names(Kept(fa, c), k, M, tok, score) /\ Names(sp, s, M, tok, score)
                  /\ Entries(k) = Top(score, Entries(ha), c)
                  /\ Entries(s) = Entries(ha) \ Top(score, Entries(ha), c)
    BY <2>1, Zenon DEF KeepsTop
  <2> QED BY <1>13, <1>27, <2>2
<1>29. Typed(sp) /\ Truthful(sp)
  BY <1>26, Enforce DEF SplitsInto
<1> HIDE DEF sp
<1>30. Typed(qa) /\ Truthful(qa)
  BY <1>16, <1>29, CatFacts
<1>31. PICK hb : Names(qa, hb, M, tok, score) /\ Entries(hb) = R \cup ((T \cup U) \ T1)
  <2>1. Newer(sf, hq, score)
    BY <1>15, <1>23, <1>24, <1>28 DEF Newer
  <2>2. /\ Names(Cat(q, sp), hq \o sf, M, tok, score)
        /\ Entries(hq \o sf) = Entries(hq) \cup Entries(sf)
    <3>1. Names(sp, sf, M, tok, score)
      BY <1>28
    <3> QED BY <1>16, <1>17, <1>29, <2>1, <3>1, NamesChained
  <2> QED BY <1>15, <1>28, <2>2
<1> HIDE DEF qa
<1>32. PICK kq : /\ Names(Kept(qa, d), kq, M, tok, score)
                 /\ Entries(kq) = Top(score, 1 .. M, c + d) \ T1
  <2>1. KeepsTop(qa, d, hb, M, tok, score)
    <3>1. Ranks(score, M)
      BY <1>10 DEF Ranks, Scored
    <3> QED BY <1>30, <1>31, <3>1, NamesEnforced
  <2>2. \E k : /\ Names(Kept(qa, d), k, M, tok, score)
               /\ Entries(k) = Top(score, Entries(hb), d)
    BY <2>1, Zenon DEF KeepsTop
  <2> QED BY <1>13, <1>31, <2>2
<1>33. /\ Names(f', kf, M, tok, score) /\ Names(q', kq, M, tok, score)
       /\ Typed(f') /\ Typed(q')
  <2>1. Typed(Kept(fa, c)) /\ Typed(Kept(qa, d))
    BY <1>26, <1>30, Enforce DEF SplitsInto
  <2> QED BY <1>25, <1>28, <1>32, <2>1
<1>34. /\ kf \in [DOMAIN f'.col -> DOMAIN absorbed'] /\ Recalls(f, kf)'
       /\ kq \in [DOMAIN q'.col -> DOMAIN absorbed'] /\ Recalls(q, kq)'
  <2>1. ASSUME NEW t, NEW k, Typed(t), Names(t, k, M, tok, score)
        PROVE  /\ k \in [DOMAIN t.col -> DOMAIN absorbed'] /\ DOMAIN k = 1 .. Len(k)
               /\ \A i \in 1 .. Len(k) :
                    /\ t.col[i] = absorbed'[k[i]].tok
                    /\ track_positions => t.sur[i] = absorbed'[k[i]].sur
               /\ \A i, j \in 1 .. Len(k) :
                    i < j /\ score[k[i]] = score[k[j]] => k[i] < k[j]
    <3>1. k \in Seq(1 .. M) /\ Len(k) = Len(t.col)
      BY <2>1 DEF Names
    <3>2. /\ DOMAIN k = 1 .. Len(k) /\ k \in [1 .. Len(k) -> 1 .. M]
          /\ DOMAIN t.col = 1 .. Len(t.col)
      BY <2>1, <3>1, LenProperties DEF Typed
    <3>3. \A i \in 1 .. Len(k) : /\ t.col[i] = absorbed'[k[i]].tok
                                 /\ track_positions => t.sur[i] = absorbed'[k[i]].sur
      BY <1>9, <1>10, <2>1, <3>2 DEF Names
    <3> QED BY <1>6, <2>1, <3>1, <3>2, <3>3 DEF Names
  <2>2. /\ kf \in [DOMAIN f'.col -> DOMAIN absorbed'] /\ Recalls(f, kf)'
    <3>1. Typed(f') /\ Names(f', kf, M, tok, score)
      BY <1>33
    <3>2. /\ kf \in [DOMAIN f'.col -> DOMAIN absorbed'] /\ DOMAIN kf = 1 .. Len(kf)
          /\ \A i \in 1 .. Len(kf) :
               /\ f'.col[i] = absorbed'[kf[i]].tok
               /\ track_positions => f'.sur[i] = absorbed'[kf[i]].sur
          /\ \A i, j \in 1 .. Len(kf) :
               i < j /\ score[kf[i]] = score[kf[j]] => kf[i] < kf[j]
      BY <2>1, <3>1
    <3> QED BY <1>7, <1>8, <3>2 DEF Recalls
  <2>3. /\ kq \in [DOMAIN q'.col -> DOMAIN absorbed'] /\ Recalls(q, kq)'
    <3>1. Typed(q') /\ Names(q', kq, M, tok, score)
      BY <1>33
    <3>2. /\ kq \in [DOMAIN q'.col -> DOMAIN absorbed'] /\ DOMAIN kq = 1 .. Len(kq)
          /\ \A i \in 1 .. Len(kq) :
               /\ q'.col[i] = absorbed'[kq[i]].tok
               /\ track_positions => q'.sur[i] = absorbed'[kq[i]].sur
          /\ \A i, j \in 1 .. Len(kq) :
               i < j /\ score[kq[i]] = score[kq[j]] => kq[i] < kq[j]
      BY <2>1, <3>1
    <3> QED BY <1>7, <1>8, <3>2 DEF Recalls
  <2> QED BY <2>2, <2>3
<1>35. /\ Entries(kf) = Top(Score', DOMAIN absorbed', arm.coord_budget')
       /\ Entries(kq) = Top(Score', DOMAIN absorbed', arm.coord_budget' + arm.quant_budget')
                          \ Entries(kf)
  BY <1>4, <1>5, <1>6, <1>8, <1>13, <1>28, <1>32
<1> QED BY <1>34, <1>35, Zenon DEF RetainInv

(* What does not touch the tail keeps it the top of its history.           *)
LEMMA SameRetained ==
  ASSUME RetainInv, UNCHANGED <<arm, f, q, absorbed>>
  PROVE  RetainInv'
<1>1. Score' = Score /\ track_positions' = track_positions
  BY DEF Score, track_positions, lowrank_enabled, TL!lowrank_enabled
<1>2. \A h : /\ Recalls(f, h) => Recalls(f, h)'
             /\ Recalls(q, h) => Recalls(q, h)'
  BY <1>1 DEF Recalls
<1> QED BY <1>1, <1>2 DEF RetainInv

(* An empty block is one that does not touch it.                           *)
LEMMA BlockRetains ==
  ASSUME arm \in Arms, arm' = arm, lowrank_enabled, TailInv, RetainInv,
         NEW block, ValidBlock(block), AbsorbColumns(block)
  PROVE  RetainInv'
<1>1. CASE block.col = <<>>
  <2>1. UNCHANGED <<f, q, absorbed>>
    BY <1>1 DEF AbsorbColumns, tail
  <2> QED BY <2>1, SameRetained
<1>2. CASE block.col # <<>>
  BY <1>2, AbsorbRetains
<1> QED BY <1>1, <1>2

-----------------------------------------------------------------------------
(* The two ways a block is absorbed.                                       *)

(* A run holds each number of an interval once.                            *)
LEMMA RunEntries ==
  ASSUME NEW b \in Int, NEW m \in Nat
  PROVE  /\ Entries(Arange(b, m)) = b .. b + m - 1
         /\ Disjoint(Arange(b, m))
<1> DEFINE s == Arange(b, m)
<1>1. DOMAIN s = 1 .. m /\ \A i \in 1 .. m : s[i] = b + i - 1
  BY ArangeShape
<1> HIDE DEF s
<1>2. Disjoint(s)
  <2> SUFFICES ASSUME NEW i \in 1 .. m, NEW j \in 1 .. m, s[i] = s[j] PROVE i = j
    BY <1>1 DEF Disjoint
  <2>1. b + i - 1 = b + j - 1
    BY <1>1
  <2> QED BY <2>1
<1>3. Entries(s) = {b + i - 1 : i \in 1 .. m}
  BY <1>1 DEF Entries
<1>4. {b + i - 1 : i \in 1 .. m} = b .. b + m - 1
  <2>1. ASSUME NEW x \in b .. b + m - 1 PROVE \E i \in 1 .. m : x = b + i - 1
    <3>1. x - b + 1 \in 1 .. m /\ x = b + (x - b + 1) - 1
      OBVIOUS
    <3> QED BY <3>1
  <2>2. ASSUME NEW i \in 1 .. m PROVE b + i - 1 \in b .. b + m - 1
    OBVIOUS
  <2> QED BY <2>1, <2>2
<1> QED BY <1>2, <1>3, <1>4 DEF s

(* Whatever the residuals are, each column has a score.                    *)
LEMMA SurpriseTyped ==
  ASSUME NEW m \in Nat, NEW score \in Surprise(m), NEW sel \in SelectionScores(score)
  PROVE  score \in [1 .. m -> 1 .. MaxLevel] /\ sel \in [1 .. m -> 1 .. MaxLevel]
<1>1. MaxLevel \in 1 .. MaxLevel
  BY MaxLevelAssumption
<1>2. score \in [1 .. m -> 1 .. MaxLevel]
  BY <1>1 DEF Surprise
<1>3. DOMAIN score = 1 .. m
  BY <1>2
<1> QED BY <1>2, <1>3 DEF SelectionScores

(* What leaves the ring at b is covered, wherever it goes.                 *)
LEMMA CoverStep ==
  ASSUME sink' = sink, lowrank_enabled, lowrank_enabled' = lowrank_enabled,
         sink \in Seq(Int), NEW b \in Int, NEW m \in Nat, Len(sink) <= b, Covered(b),
         Given \in Seq(Int), hh.col \in Seq(Int),
         NEW demoted \in Seq(Int), NEW exact \in Seq(Int),
         Given' = Given \o demoted, hh'.col = exact,
         Disjoint(demoted), Disjoint(exact), Entries(demoted) \cap Entries(exact) = {},
         Entries(demoted) \cup Entries(exact) = Entries(hh.col) \cup (b .. b + m - 1)
  PROVE  Covered(b + m)'
<1> DEFINE G == Entries(Given)
           H == Entries(hh.col)
           N == b .. b + m - 1
           D == Entries(demoted)
           E == Entries(exact)
<1>0. Len(sink) \in Nat
  BY LenProperties
<1>1. G \cup H = Len(sink) .. b - 1 /\ Disjoint(Given) /\ G \cap H = {}
  <2>1. /\ Entries(Given \o hh.col) = G \cup H
        /\ Disjoint(Given \o hh.col) => Disjoint(Given) /\ G \cap H = {}
    BY ConcatEntries
  <2> QED BY <2>1 DEF Covered
<1>2. /\ (Len(sink) .. b - 1) \cap N = {}
      /\ (Len(sink) .. b - 1) \cup N = Len(sink) .. (b + m) - 1
  BY <1>0
<1>3. Disjoint(Given') /\ Entries(Given') = G \cup D /\ Given' \in Seq(Int)
  <2>1. G \cap D = {}
    <3> HIDE DEF G, H, N, D, E
    <3> QED BY <1>1, <1>2 DEF G, H, N, D, E
  <2>2. /\ Entries(Given \o demoted) = G \cup D
        /\ Disjoint(Given) /\ Disjoint(demoted) /\ G \cap D = {} => Disjoint(Given \o demoted)
        /\ Given \o demoted \in Seq(Int)
    BY ConcatEntries, ConcatProperties
  <2> QED BY <1>1, <2>1, <2>2
<1>4. Entries(Given') \cap E = {}
  BY <1>1, <1>2, <1>3
<1>5. Entries(Given') \cup E = Len(sink) .. (b + m) - 1
  <2>1. Entries(Given') \cup E = (G \cup H) \cup N
    BY <1>3
  <2> QED BY <1>1, <1>2, <2>1
<1>6. /\ Entries(Given' \o exact) = Entries(Given') \cup E
      /\ Disjoint(Given') /\ Disjoint(exact) /\ Entries(Given') \cap E = {}
           => Disjoint(Given' \o exact)
  BY <1>3, ConcatEntries, ZenonT(40)
<1>7. /\ Disjoint(Given' \o hh'.col)
      /\ Entries(Given' \o hh'.col) = Len(sink') .. (b + m) - 1
  BY <1>3, <1>4, <1>5, <1>6
<1> QED BY <1>7 DEF Covered

(* What absorbing the m tokens from b on must leave behind.                *)
AbsorbedTo(b, m) ==
  /\ TailInv' /\ ExactInv' /\ Covered(b + m)'
  /\ RunEndsAt(b) => RunEndsAt(b + m)'
  /\ RetainInv => RetainInv'

(* Straight into the tail.                                                 *)
LEMMA DirectKeeps ==
  ASSUME arm \in Arms, arm' = arm, sink' = sink, sink \in Seq(Int), lowrank_enabled,
         TailInv, ExactInv, NEW b \in Int, NEW m \in Nat, Len(sink) <= b, Covered(b),
         AbsorbBlockDirect(Block(Arange(b, m), b))
  PROVE  /\ AbsorbedTo(b, m)
         /\ hh' = hh /\ TL!AbsorbColumns(m)
<1> DEFINE run == Arange(b, m)
<1>1. /\ run \in Seq(Int) /\ Len(run) = m /\ DOMAIN run = 1 .. m
      /\ Entries(run) = b .. b + m - 1 /\ Disjoint(run)
  BY ArangeShape, RunEntries
<1> HIDE DEF run
<1>2. PICK score \in Surprise(m) :
        AbsorbColumns([Block(run, b) EXCEPT !.sur = score]) /\ hh' = hh
  BY <1>1 DEF AbsorbBlockDirect, Block, run
<1>3. score \in [1 .. m -> 1 .. MaxLevel]
  BY MaxLevelAssumption DEF Surprise
<1>4. score \in Seq(1 .. MaxLevel) /\ Len(score) = m
  BY <1>3, FunctionIsSeq
<1>5. PICK block : block = [Block(run, b) EXCEPT !.sur = score]
  OBVIOUS
<1>6. block.col = run /\ block.pos = run /\ block.sur = score /\ AbsorbColumns(block)
  BY <1>1, <1>2, <1>5 DEF Block, run
<1>7. ValidBlock(block)
  BY <1>1, <1>4, <1>6 DEF ValidBlock
<1>8. Given \in Seq(Int) /\ hh.col \in Seq(Int) /\ hh.pos = hh.col
  BY GivenTyped DEF TailInv, ExactInv
<1>9. /\ Given' = Given \o run
      /\ lowrank_enabled' = lowrank_enabled /\ track_positions' = track_positions
      /\ hh_enabled' = hh_enabled
  BY <1>6, <1>7, GivenGrows
  DEF TailInv, lowrank_enabled, TL!lowrank_enabled, track_positions, hh_enabled,
      TL!hh_enabled
<1>10. /\ Entries(Given) \cap (b .. b + m - 1) = {}
       /\ Entries(hh.col) \cap (b .. b + m - 1) = {} /\ Disjoint(hh.col)
  <2>1. /\ Entries(Given \o hh.col) = Entries(Given) \cup Entries(hh.col)
        /\ Disjoint(Given \o hh.col) => Disjoint(hh.col)
    BY <1>8, ConcatEntries
  <2>2. Entries(Given) \cup Entries(hh.col) = Len(sink) .. b - 1 /\ Disjoint(hh.col)
    BY <2>1 DEF Covered
  <2>3. (Len(sink) .. b - 1) \cap (b .. b + m - 1) = {}
    OBVIOUS
  <2> QED BY <2>2, <2>3
<1>11. /\ TailInv'
       /\ Len(f'.col) = Lesser(arm.coord_budget, Len(f.col) + m)
       /\ Len(q'.col) = Lesser(arm.quant_budget, Len(q.col) + (Len(f.col) + m - Len(f'.col)))
       /\ ~track_positions /\ MidColumns = Arange(b - Len(MidColumns), Len(MidColumns)) =>
            MidColumns' = Arange(b + m - Len(MidColumns'), Len(MidColumns'))
  <2>1. block.col = Arange(b, Len(block.col)) /\ Len(block.col) = m
    BY <1>1, <1>6 DEF run
  <2>2. Disjoint(block.col) /\ Entries(block.col) \cap Entries(Given) = {}
    BY <1>1, <1>6, <1>10
  <2>3. /\ TailInv'
        /\ Len(f'.col) = Lesser(arm.coord_budget, Len(f.col) + Len(block.col))
        /\ Len(q'.col) = Lesser(arm.quant_budget,
             Len(q.col) + (Len(f.col) + Len(block.col) - Len(f'.col)))
        /\ ~track_positions /\ block.col = Arange(b, Len(block.col))
             /\ MidColumns = Arange(b - Len(MidColumns), Len(MidColumns)) =>
             MidColumns' = Arange(b + Len(block.col) - Len(MidColumns'), Len(MidColumns'))
    BY <1>6, <1>7, <2>2, AbsorbKeepsTail
  <2>4. /\ Len(f'.col) = Lesser(arm.coord_budget, Len(f.col) + m)
        /\ Len(q'.col) = Lesser(arm.quant_budget, Len(q.col) + (Len(f.col) + m - Len(f'.col)))
    BY <2>1, <2>3
  <2>5. ~track_positions /\ MidColumns = Arange(b - Len(MidColumns), Len(MidColumns)) =>
          MidColumns' = Arange(b + m - Len(MidColumns'), Len(MidColumns'))
    BY <2>1, <2>3, Zenon
  <2> QED BY <2>3, <2>4, <2>5, Zenon
<1>12. ExactInv'
  BY <1>2 DEF ExactInv
<1>13. Covered(b + m)'
  <2>1. hh'.col = hh.col
    BY <1>2
  <2>2. /\ Entries(run) \cap Entries(hh.col) = {}
        /\ Entries(run) \cup Entries(hh.col) = Entries(hh.col) \cup (b .. b + m - 1)
    BY <1>1, <1>10
  <2> QED BY <1>1, <1>8, <1>9, <1>10, <2>1, <2>2, CoverStep
<1>14. RunEndsAt(b) => RunEndsAt(b + m)'
  <2> SUFFICES ASSUME RunEndsAt(b), ~track_positions', FifoOnly'
               PROVE  (MidColumns = Arange((b + m) - Len(MidColumns), Len(MidColumns)))'
    BY DEF RunEndsAt
  <2>1. ~track_positions /\ FifoOnly
    BY <1>9 DEF FifoOnly
  <2>2. MidColumns = Arange(b - Len(MidColumns), Len(MidColumns))
    BY <2>1 DEF RunEndsAt
  <2> QED BY <1>11, <2>1, <2>2
<1>15. TL!AbsorbColumns(m)
  BY <1>11 DEF TL!AbsorbColumns, TL!Lesser, Lesser
<1>16. RetainInv => RetainInv'
  BY <1>6, <1>7, BlockRetains
<1> QED BY <1>2, <1>11, <1>12, <1>13, <1>14, <1>15, <1>16 DEF AbsorbedTo

(* Through the exact tier.                                                 *)
LEMMA SlashKeeps ==
  ASSUME arm \in Arms, arm' = arm, sink' = sink, sink \in Seq(Int), lowrank_enabled,
         hh_enabled, TailInv, ExactInv, NEW b \in Int, NEW m \in Nat, Len(sink) <= b,
         Covered(b), AbsorbBlockSlash(Block(Arange(b, m), b))
  PROVE  AbsorbedTo(b, m) /\ TL!AbsorbBlockSlash(m)
<1> DEFINE run == Arange(b, m)
           pool == hh.col \o run
           n == Len(pool)
<1>0. /\ arm.hh_budget \in Nat /\ arm.hh_neighbor \in Nat /\ MaxLevel \in Nat
      /\ lowrank_enabled' = lowrank_enabled /\ track_positions' = track_positions
      /\ hh_enabled' = hh_enabled
  BY ArmFacts DEF lowrank_enabled, TL!lowrank_enabled, track_positions, hh_enabled,
                  TL!hh_enabled
<1>1. /\ run \in Seq(Int) /\ Len(run) = m
      /\ Entries(run) = b .. b + m - 1 /\ Disjoint(run)
  BY ArangeShape, RunEntries
<1>2. Given \in Seq(Int) /\ hh.col \in Seq(Int) /\ hh.pos = hh.col /\ Len(hh.col) \in Nat
  BY GivenTyped, LenProperties DEF TailInv, ExactInv
<1> HIDE DEF run
<1>3. pool \in Seq(Int) /\ n = Len(hh.col) + m /\ n \in Nat
  <2>1. hh.col \o run \in Seq(Int) /\ Len(hh.col \o run) = Len(hh.col) + Len(run)
    <3> HIDE DEF run
    <3> QED BY <1>1, <1>2, ConcatProperties
  <2>2. pool \in Seq(Int) /\ n = Len(hh.col) + m
    BY <1>1, <2>1
  <2> HIDE DEF pool, n
  <2> QED BY <1>2, <2>2
<1> HIDE DEF pool, n
<1> DEFINE Chosen(sel) ==
             HighestFirst(SpanBoost(sel, pool, arm.hh_neighbor), Lesser(arm.hh_budget, n))
           Effect(score, kept) ==
             /\ hh' = [col |-> Pick(pool, kept), pos |-> Pick(pool, kept)]
             /\ AbsorbColumns([col |-> Pick(pool, (1 .. n) \ kept),
                               pos |-> Pick(pool, (1 .. n) \ kept),
                               sur |-> Pick(score, (1 .. n) \ kept)])
<1>4a. PICK score \in Surprise(n) :
         \E sel \in SelectionScores(score) : Effect(score, Chosen(sel))
  <2>1. PICK block : block = Block(run, b)
    OBVIOUS
  <2>2. block.col = run /\ block.pos = run /\ AbsorbBlockSlash(block)
    BY <1>1, <2>1 DEF Block, run
  <2> DEFINE P == [col |-> hh.col \o block.col, pos |-> hh.pos \o block.pos]
  <2>3. \E score \in Surprise(Len(P.col)) : \E sel \in SelectionScores(score) :
          LET kept == HighestFirst(SpanBoost(sel, P.pos, arm.hh_neighbor),
                                   Lesser(arm.hh_budget, Len(P.col)))
              rest == (1 .. Len(P.col)) \ kept
          IN /\ hh' = [col |-> Pick(P.col, kept), pos |-> Pick(P.pos, kept)]
             /\ AbsorbColumns([col |-> Pick(P.col, rest), pos |-> Pick(P.pos, rest),
                               sur |-> Pick(score, rest)])
    BY <2>2 DEF AbsorbBlockSlash
  <2>4. P.col = pool /\ P.pos = pool /\ Len(P.col) = n
    BY <1>2, <2>2 DEF pool, n
  <2> HIDE DEF P
  <2> QED BY <2>3, <2>4
<1>4b. PICK sel \in SelectionScores(score) : Effect(score, Chosen(sel))
  BY <1>4a
<1>4c. PICK kept : kept = Chosen(sel)
  OBVIOUS
<1>4. /\ kept = HighestFirst(SpanBoost(sel, pool, arm.hh_neighbor), Lesser(arm.hh_budget, n))
      /\ hh' = [col |-> Pick(pool, kept), pos |-> Pick(pool, kept)]
      /\ AbsorbColumns([col |-> Pick(pool, (1 .. n) \ kept),
                        pos |-> Pick(pool, (1 .. n) \ kept),
                        sur |-> Pick(score, (1 .. n) \ kept)])
  BY <1>4b, <1>4c
<1> HIDE DEF Chosen, Effect
<1>5. /\ score \in [1 .. n -> 1 .. MaxLevel] /\ sel \in [1 .. n -> 1 .. MaxLevel]
  BY <1>3, SurpriseTyped
<1>6. SpanBoost(sel, pool, arm.hh_neighbor) \in [1 .. n -> 1 .. MaxLevel]
  BY <1>0, <1>3, <1>5, SpanBoostTyped DEF n
<1>7. kept \in SUBSET (1 .. n) /\ Cardinality(kept) = Lesser(arm.hh_budget, n)
  <2>1. Lesser(arm.hh_budget, n) \in Int
    BY <1>0, <1>3 DEF Lesser
  <2>2. kept \in SUBSET (1 .. n) /\ Cardinality(kept) = Clamp(Lesser(arm.hh_budget, n), n)
    BY <1>3, <1>4, <1>6, <2>1, HighestCount
  <2>3. Clamp(Lesser(arm.hh_budget, n), n) = Lesser(arm.hh_budget, n)
    BY <1>0, <1>3 DEF Clamp, Lesser
  <2> QED BY <2>2, <2>3
<1> DEFINE demote == (1 .. n) \ kept
           down == Pick(pool, demote)
           up == Pick(pool, kept)
<1>8. demote \in SUBSET (1 .. n)
  OBVIOUS
<1>9. /\ up \in Seq(Int) /\ Len(up) = Cardinality(kept)
      /\ down \in Seq(Int) /\ Len(down) = Cardinality(demote) /\ Cardinality(demote) \in Nat
      /\ IsFiniteSet(kept) /\ IsFiniteSet(demote)
  <2> HIDE DEF demote
  <2> QED BY <1>3, <1>7, <1>8, PickFacts DEF n
<1>10. Cardinality(kept) + Cardinality(demote) = n
  <2>1. IsFiniteSet(1 .. n) /\ Cardinality(1 .. n) = n
    <3>1. 1 \in Int /\ n \in Int /\ (1 > n => n = 0) /\ (1 <= n => n - 1 + 1 = n)
      BY <1>3
    <3>2. IsFiniteSet(1 .. n) /\ Cardinality(1 .. n) = IF 1 > n THEN 0 ELSE n - 1 + 1
      BY <3>1, FS_Interval
    <3> QED BY <3>1, <3>2
  <2>2. kept \cup demote = 1 .. n /\ kept \cap demote = {}
    BY <1>7
  <2>3. Cardinality(kept) \in Nat
    BY <1>9, FS_CardinalityType
  <2> HIDE DEF demote
  <2>4. Cardinality(kept \cup demote)
          = Cardinality(kept) + Cardinality(demote) - Cardinality(kept \cap demote)
    BY <1>9, FS_Union
  <2>5. n = Cardinality(kept) + Cardinality(demote) - 0
    BY <2>1, <2>2, <2>4, FS_EmptySet
  <2> QED BY <1>9, <2>3, <2>5
<1>11. score \in Seq(1 .. MaxLevel) /\ Len(score) = n
  BY <1>3, <1>5, FunctionIsSeq
<1>12. /\ Pick(score, demote) \in Seq(1 .. MaxLevel)
       /\ Len(Pick(score, demote)) = Cardinality(demote)
  <2> HIDE DEF demote
  <2> QED BY <1>8, <1>11, PickFacts
<1>13. PICK block : block = [col |-> down, pos |-> down, sur |-> Pick(score, demote)]
  OBVIOUS
<1>14. /\ AbsorbColumns(block) /\ block.col = down /\ block.pos = down
       /\ block.sur = Pick(score, demote)
  BY <1>4, <1>13
<1>15. hh'.col = up /\ hh'.pos = up
  BY <1>4
<1>16. ValidBlock(block)
  <2> HIDE DEF demote, down
  <2> QED BY <1>9, <1>12, <1>14 DEF ValidBlock
<1>17. /\ Entries(Given) \cap (b .. b + m - 1) = {} /\ Entries(Given) \cap Entries(hh.col) = {}
       /\ Entries(hh.col) \cap (b .. b + m - 1) = {} /\ Disjoint(hh.col)
  <2>1. /\ Entries(Given \o hh.col) = Entries(Given) \cup Entries(hh.col)
        /\ Disjoint(Given \o hh.col) => /\ Disjoint(hh.col)
                                        /\ Entries(Given) \cap Entries(hh.col) = {}
    BY <1>2, ConcatEntries
  <2>2. /\ Entries(Given) \cup Entries(hh.col) = Len(sink) .. b - 1 /\ Disjoint(hh.col)
        /\ Entries(Given) \cap Entries(hh.col) = {}
    BY <2>1 DEF Covered
  <2>3. (Len(sink) .. b - 1) \cap (b .. b + m - 1) = {}
    OBVIOUS
  <2> QED BY <2>2, <2>3
<1>18. Disjoint(pool) /\ Entries(pool) = Entries(hh.col) \cup (b .. b + m - 1)
  <2>1. /\ Entries(hh.col \o run) = Entries(hh.col) \cup Entries(run)
        /\ Disjoint(hh.col) /\ Disjoint(run) /\ Entries(hh.col) \cap Entries(run) = {}
             => Disjoint(hh.col \o run)
    BY <1>1, <1>2, ConcatEntries
  <2> QED BY <1>1, <1>17, <2>1 DEF pool
<1>19. /\ Disjoint(up) /\ Disjoint(down) /\ Entries(up) \cap Entries(down) = {}
       /\ Entries(up) \cup Entries(down) = Entries(pool)
  BY <1>3, <1>7, <1>18, PickSplit DEF n
<1> HIDE DEF demote, down, up
<1>20. /\ TailInv'
       /\ Len(f'.col) = Lesser(arm.coord_budget, Len(f.col) + Len(down))
       /\ Len(q'.col) = Lesser(arm.quant_budget,
            Len(q.col) + (Len(f.col) + Len(down) - Len(f'.col)))
  <2>1. Disjoint(block.col) /\ Entries(block.col) \cap Entries(Given) = {}
    BY <1>14, <1>17, <1>18, <1>19
  <2>2. /\ TailInv'
        /\ Len(f'.col) = Lesser(arm.coord_budget, Len(f.col) + Len(block.col))
        /\ Len(q'.col) = Lesser(arm.quant_budget,
             Len(q.col) + (Len(f.col) + Len(block.col) - Len(f'.col)))
    BY <1>14, <1>16, <2>1, AbsorbKeepsTail
  <2> QED BY <1>14, <2>2
<1>21. ExactInv'
  BY <1>9, <1>15 DEF ExactInv
<1>22. Covered(b + m)'
  <2>1. Given' = Given \o down
    BY <1>14, <1>16, GivenGrows DEF TailInv
  <2>2. /\ Entries(down) \cap Entries(up) = {}
        /\ Entries(down) \cup Entries(up) = Entries(hh.col) \cup (b .. b + m - 1)
    BY <1>18, <1>19
  <2> QED BY <1>0, <1>2, <1>9, <1>15, <1>19, <2>1, <2>2, CoverStep
<1>23. RunEndsAt(b + m)'
  <2>1. ~track_positions => ~FifoOnly
    BY DEF track_positions, FifoOnly
  <2>2. ~track_positions' => ~FifoOnly'
    BY <1>0, <2>1 DEF FifoOnly
  <2> QED BY <2>2 DEF RunEndsAt
<1>24. TL!AbsorbBlockSlash(m)
  <2>1. Len(hh'.col) = Lesser(arm.hh_budget, Len(hh.col) + m)
    BY <1>3, <1>7, <1>9, <1>15
  <2>2. Len(down) = Len(hh.col) + m - Len(hh'.col)
    <3>1. Len(up) = Len(hh'.col) /\ Len(up) \in Nat /\ Len(down) \in Nat /\ Len(up) + Len(down) = n
      BY <1>9, <1>10, <1>15, LenProperties
    <3>2. Len(hh'.col) \in Nat /\ Len(hh'.col) + Len(down) = Len(hh.col) + m
      BY <1>3, <3>1
    <3> QED BY <1>2, <3>1, <3>2, SMTT(30)
  <2> QED BY <1>20, <2>1, <2>2
      DEF TL!AbsorbBlockSlash, TL!AbsorbColumns, TL!Lesser, Lesser
<1>25. RetainInv => RetainInv'
  BY <1>14, <1>16, BlockRetains
<1> QED BY <1>20, <1>21, <1>22, <1>23, <1>24, <1>25 DEF AbsorbedTo

-----------------------------------------------------------------------------
(* The invariant.                                                          *)

(* An empty sequence is an empty run.                                      *)
LEMMA EmptyRun ==
  ASSUME NEW a \in Int
  PROVE  Arange(a, 0) = <<>> /\ <<>> \in Seq(Int) /\ Len(<<>>) = 0
<1>1. Arange(a, 0) \in Seq(Int) /\ Len(Arange(a, 0)) = 0
  BY ArangeShape
<1> QED BY <1>1, EmptySeq

(* A layer that holds nothing satisfies everything said of its tiers.      *)
LEMMA NothingHeld ==
  ASSUME NoExact, NoTail, arm \in Arms, NEW b \in Int, Len(sink) = b
  PROVE  TailInv /\ ExactInv /\ Covered(b) /\ RunEndsAt(b)
<1>1. /\ hh.col = <<>> /\ hh.pos = <<>> /\ absorbed = <<>>
      /\ f.col = <<>> /\ f.pos = <<>> /\ f.sur = <<>>
      /\ q.col = <<>> /\ q.pos = <<>> /\ q.sur = <<>>
  BY DEF NoExact, NoTail, EmptyTier
<1>2. <<>> \in Seq(Int) /\ <<>> \in Seq(1 .. MaxLevel) /\ Len(<<>>) = 0 /\ <<>> \o <<>> = <<>>
  OBVIOUS
<1>3. Entries(<<>>) = {} /\ Disjoint(<<>>)
  BY DEF Entries, Disjoint
<1>4. Given = <<>>
  BY <1>1 DEF Given
<1>5. MidColumns = <<>>
  BY <1>1, <1>2 DEF MidColumns
<1>6. 0 <= arm.coord_budget /\ 0 <= arm.quant_budget
  BY ArmFacts
<1>7. TailInv
  <2>1. Typed(f) /\ Typed(q)
    BY <1>1, <1>2 DEF Typed
  <2>2. Truthful(f) /\ Truthful(q)
    BY <1>1 DEF Truthful, Aligned
  <2>3. absorbed \in Seq([tok : Int, sur : 1 .. MaxLevel])
    BY <1>1
  <2>4. Len(f.col) <= arm.coord_budget /\ Len(q.col) <= arm.quant_budget
    BY <1>1, <1>2, <1>6
  <2>5. Disjoint(MidColumns) /\ Entries(MidColumns) \subseteq Entries(Given)
    BY <1>3, <1>4, <1>5
  <2> QED BY <2>1, <2>2, <2>3, <2>4, <2>5 DEF TailInv
<1>8. ExactInv
  BY <1>1, <1>2 DEF ExactInv
<1>9. Covered(b)
  <2>1. Given \o hh.col = <<>>
    BY <1>1, <1>2, <1>4
  <2>2. Len(sink) .. b - 1 = {}
    OBVIOUS
  <2> QED BY <1>3, <2>1, <2>2 DEF Covered
<1>10. RunEndsAt(b)
  <2>1. MidColumns = Arange(b - Len(MidColumns), Len(MidColumns))
    <3>1. b - 0 \in Int
      OBVIOUS
    <3> QED BY <1>2, <1>5, <3>1, EmptyRun
  <2> QED BY <2>1 DEF RunEndsAt
<1> QED BY <1>7, <1>8, <1>9, <1>10

(* The same of the state a step leads to.                                  *)
LEMMA NothingHeldNext ==
  ASSUME NEW CONSTANT b \in Int
  PROVE  (NoExact /\ NoTail /\ arm \in Arms /\ Len(sink) = b)'
           => (TailInv /\ ExactInv /\ Covered(b) /\ RunEndsAt(b))'
<1>1. NoExact /\ NoTail /\ arm \in Arms /\ Len(sink) = b
           => TailInv /\ ExactInv /\ Covered(b) /\ RunEndsAt(b)
  BY NothingHeld
<1> QED BY <1>1, PTL

(* A new layer is empty.                                                   *)
LEMMA InitIInv == Init => IInv
<1> SUFFICES ASSUME Init PROVE IInv
  OBVIOUS
<1>1. /\ arm \in Arms /\ pc = "idle" /\ cumulative_length = 0 /\ left = 0
      /\ query_length = 0 /\ sink = <<>> /\ recent = <<>> /\ mid_cache = <<>>
      /\ NoExact /\ NoTail
  BY DEF Init, TL!Init, NoExact, NoTail
<1>2. PhaseInv
  BY <1>1 DEF PhaseInv
<1>3. EmptyInv
  BY <1>1 DEF EmptyInv
<1>4. Stream = 0 /\ Boundary = 0 /\ Len(sink) = 0 /\ Len(recent) = 0
  <2>1. Len(<<>>) = 0
    BY EmptyRun
  <2>2. Stream = 0 /\ Len(sink) = 0 /\ Len(recent) = 0
    BY <1>1, <2>1 DEF Stream
  <2>3. Boundary = 0 - 0 - 0
    BY <1>1, <2>2 DEF Boundary
  <2> QED BY <2>2, <2>3
<1>5. RingInv
  <2>1. Arange(0, 0) = <<>> /\ <<>> \in Seq(Int) /\ 0 - 0 = 0
    BY EmptyRun
  <2> QED BY <1>1, <1>4, <2>1 DEF RingInv
<1>6. TailInv /\ ExactInv /\ Covered(0) /\ RunEndsAt(0)
  BY <1>1, <1>4, NothingHeld
<1>7. MidCacheFresh
  BY <1>1 DEF MidCacheFresh
<1> QED BY <1>2, <1>3, <1>4, <1>5, <1>6, <1>7 DEF IInv

(* Where the middle is rotated to depends on the tail and on where it ends.*)
LEMMA SameReconstruction ==
  ASSUME arm' = arm, hh' = hh, f' = f, q' = q,
         cumulative_length' - Len(recent') = cumulative_length - Len(recent)
  PROVE  Reconstruction' = Reconstruction
<1>1. MidColumns' = MidColumns
  BY DEF MidColumns
<1>2. TL!MidLen' = TL!MidLen /\ track_positions' = track_positions
  BY DEF TL!MidLen, TL!HhAttendedLen, track_positions, lowrank_enabled, TL!lowrank_enabled
<1>3. MidPositions' = MidPositions
  BY <1>1, <1>2 DEF MidPositions
<1> QED BY <1>1, <1>3 DEF Reconstruction

(* A step that appends n tokens of the stream to the ring, none or more,   *)
(* and at most builds the cached reconstruction, keeps the invariant.      *)
LEMMA RingStepKeeps ==
  ASSUME IInv, pc # "prefill", pc' # "prefill", NEW n \in Nat,
         cumulative_length > 0 \/ n = 0,
         cumulative_length' = cumulative_length + n,
         recent' = recent \o Arange(cumulative_length, n),
         mid_cache' = mid_cache \/ (cumulative_length > 0 /\ EnsureMidCache),
         query_length' \in Nat, pc' \in {"mask", "ready"} => query_length' > 0,
         pc' = "decode" => cumulative_length > 0,
         UNCHANGED <<arm, left, sink, hh, f, q, absorbed>>
  PROVE  IInv'
<1>1. /\ cumulative_length \in Nat /\ recent \in Seq(Int) /\ Len(recent) \in Nat
      /\ recent = Arange(cumulative_length - Len(recent), Len(recent)) /\ left = 0
  BY LenProperties DEF IInv, PhaseInv, RingInv, Stream
<1>2. lowrank_enabled' = lowrank_enabled /\ hh_enabled' = hh_enabled
      /\ track_positions' = track_positions
  BY DEF lowrank_enabled, TL!lowrank_enabled, hh_enabled, TL!hh_enabled, track_positions
<1>3. /\ recent' = Arange(cumulative_length - Len(recent), Len(recent) + n)
      /\ recent' \in Seq(Int) /\ Len(recent') = Len(recent) + n
  <2>1. /\ cumulative_length - Len(recent) \in Int
        /\ (cumulative_length - Len(recent)) + Len(recent) = cumulative_length
    BY <1>1
  <2>2. ASSUME NEW a \in Int
        PROVE  Arange(a, Len(recent)) \o Arange(a + Len(recent), n) = Arange(a, Len(recent) + n)
    BY <1>1, ArangeConcat
  <2>3. recent' = Arange(cumulative_length - Len(recent), Len(recent) + n)
    BY <1>1, <2>1, <2>2
  <2>4. Len(recent) + n \in Nat
    BY <1>1
  <2> QED BY <2>1, <2>3, <2>4, ArangeShape
<1>4. /\ cumulative_length' - Len(recent') = cumulative_length - Len(recent)
      /\ Boundary' = Boundary /\ Stream' = cumulative_length'
      /\ Boundary = cumulative_length - Len(recent)
  <2>1. Stream = cumulative_length /\ Stream' = cumulative_length' /\ left' = 0 /\ left = 0
    BY <1>1 DEF Stream
  <2>2. /\ cumulative_length' - Len(recent') = cumulative_length - Len(recent)
        /\ cumulative_length - Len(recent) \in Int
    <3>1. \A c, r \in Nat : (c + n) - (r + n) = c - r /\ c - r \in Int
      OBVIOUS
    <3>2. cumulative_length' - Len(recent') = (cumulative_length + n) - (Len(recent) + n)
      BY <1>3
    <3> QED BY <1>1, <3>1, <3>2
  <2>3. /\ Boundary = (cumulative_length - Len(recent)) - 0
        /\ Boundary' = (cumulative_length' - Len(recent')) - 0
    BY <2>1 DEF Boundary
  <2> QED BY <2>1, <2>2, <2>3
<1>5. Reconstruction' = Reconstruction
  BY <1>4, SameReconstruction
<1>6. MidCacheFresh'
  <2>1. mid_cache # <<>> => mid_cache = Reconstruction
    BY DEF IInv, MidCacheFresh
  <2>2. mid_cache' # <<>> => mid_cache' = Reconstruction
    BY <2>1 DEF EnsureMidCache
  <2> QED BY <1>5, <2>2 DEF MidCacheFresh
<1>7. PhaseInv'
  <2>1. cumulative_length' \in Nat /\ (cumulative_length' = 0 => cumulative_length = 0)
    BY <1>1
  <2>2. cumulative_length' = 0 => mid_cache' = <<>>
    BY <1>1, <2>1 DEF IInv, PhaseInv
  <2>3. pc' = "decode" => cumulative_length' > 0
    BY <1>1
  <2> QED BY <1>1, <1>2, <2>1, <2>2, <2>3 DEF IInv, PhaseInv
<1>8. EmptyInv'
  <2>1. ASSUME cumulative_length' = 0
        PROVE  (sink = <<>> /\ recent = <<>> /\ NoExact /\ NoTail)'
    <3>1. cumulative_length = 0 /\ n = 0
      BY <1>1, <2>1
    <3>2. recent = <<>> /\ sink = <<>> /\ NoExact /\ NoTail
      BY <3>1 DEF IInv, EmptyInv
    <3>3. recent' = <<>>
      BY <3>1, <3>2, EmptyRun
    <3> QED BY <3>2, <3>3 DEF NoExact, NoTail
  <2>2. (NoExact => NoExact') /\ (NoTail => NoTail')
    BY DEF NoExact, NoTail
  <2> QED BY <1>2, <2>1, <2>2 DEF IInv, EmptyInv
<1>9. RingInv'
  <2>1. sink' \in Seq(Int) /\ sink' = Arange(0, Len(sink')) /\ Len(sink') <= Boundary'
    BY <1>4 DEF IInv, RingInv
  <2>2. recent' = Arange(Stream' - Len(recent'), Len(recent'))
    BY <1>3, <1>4
  <2> QED BY <1>3, <2>1, <2>2 DEF RingInv
<1>10. MidColumns' = MidColumns /\ Given' = Given
  BY DEF MidColumns, Given
<1>11. TailInv' /\ ExactInv'
  BY <1>2, <1>10 DEF IInv, TailInv, ExactInv, Typed, Truthful, Aligned
<1>12. Covered(Boundary)' /\ RunEndsAt(Boundary)'
  BY <1>2, <1>4, <1>10 DEF IInv, Covered, RunEndsAt, FifoOnly
<1> QED BY <1>6, <1>7, <1>8, <1>9, <1>11, <1>12 DEF IInv

(* A step that touches no token keeps the invariant.                       *)
LEMMA QuietStepKeeps ==
  ASSUME IInv, pc # "prefill", pc' # "prefill",
         mid_cache' = mid_cache \/ (cumulative_length > 0 /\ EnsureMidCache),
         query_length' \in Nat, pc' \in {"mask", "ready"} => query_length' > 0,
         pc' = "decode" => cumulative_length > 0,
         UNCHANGED <<arm, left, cumulative_length, sink, recent, hh, f, q, absorbed>>
  PROVE  IInv'
<1>1. cumulative_length \in Nat /\ recent \in Seq(Int)
  BY DEF IInv, PhaseInv, RingInv
<1>2. cumulative_length' = cumulative_length + 0
  BY <1>1
<1>3. recent' = recent \o Arange(cumulative_length, 0)
  BY <1>1, EmptyRun, ConcatEmptySeq
<1> QED BY <1>2, <1>3, RingStepKeeps

(* The mask sizes.                                                         *)
LEMMA MaskStepKeeps ==
  ASSUME IInv, MaskStep
  PROVE  IInv'
<1>1. UNCHANGED <<sink, recent, hh, f, q, absorbed, mid_cache>>
  BY DEF MaskStep, tokens, tail
<1>2. query_length \in Nat /\ (pc \in {"mask", "ready"} => query_length > 0)
  BY DEF IInv, PhaseInv
<1>3. CASE \E n \in 1 .. MaxTokens : TL!GetMaskSizes(n)
  <2>1. PICK n \in 1 .. MaxTokens : TL!GetMaskSizes(n)
    BY <1>3
  <2>2. /\ pc = "idle" /\ pc' \in {"mask", "ready"} /\ query_length' = n
        /\ UNCHANGED <<arm, left, cumulative_length>>
    BY <2>1 DEF TL!GetMaskSizes
  <2>3. n \in Nat /\ n > 0
    BY LengthsAssumption
  <2> QED BY <1>1, <2>2, <2>3, QuietStepKeeps
<1>4. CASE TL!PostUpdateLengths
  <2>1. pc = "mask" /\ pc' = pc /\ UNCHANGED <<arm, left, cumulative_length, query_length>>
    BY <1>4 DEF TL!PostUpdateLengths
  <2> QED BY <1>1, <1>2, <2>1, QuietStepKeeps
<1>5. CASE TL!ReportMaskSizes
  <2>1. pc = "mask" /\ pc' = "ready" /\ UNCHANGED <<arm, left, cumulative_length, query_length>>
    BY <1>5 DEF TL!ReportMaskSizes
  <2> QED BY <1>1, <1>2, <2>1, QuietStepKeeps
<1>6. CASE TL!UpdateRejected
  <2>1. /\ pc = "ready" /\ pc' = "idle" /\ query_length' = 0
        /\ UNCHANGED <<arm, left, cumulative_length>>
    BY <1>6 DEF TL!UpdateRejected, TL!ForwardEnds
  <2> QED BY <1>1, <2>1, QuietStepKeeps
<1> QED BY <1>3, <1>4, <1>5, <1>6 DEF MaskStep

(* consolidate() and the mode switches.                                    *)
LEMMA IdleCallKeeps ==
  ASSUME IInv, IdleCall
  PROVE  IInv'
<1>1. UNCHANGED <<sink, recent, hh, f, q, absorbed, mid_cache>>
  BY DEF IdleCall, tokens, tail
<1>2. query_length \in Nat
  BY DEF IInv, PhaseInv
<1>3. /\ pc \in {"idle", "consolidate"} /\ pc' \in {"idle", "consolidate"}
      /\ UNCHANGED <<arm, left, cumulative_length, query_length>>
  BY DEF IdleCall, TL!Consolidate, TL!ConsolidateReturn, TL!SetMode, TL!report, TL!forward
<1> QED BY <1>1, <1>2, <1>3, QuietStepKeeps

(* Forwards that store nothing: scoring, and the return of a decode step.  *)
LEMMA PeekKeeps ==
  ASSUME IInv, ScoreForward \/ DecodeReturn
  PROVE  IInv'
<1>1. /\ pc \in {"ready", "decode"} /\ pc' = "idle" /\ query_length' = 0
      /\ UNCHANGED <<arm, left, cumulative_length, sink, recent, hh, f, q, absorbed>>
      /\ mid_cache' = mid_cache \/ EnsureMidCache
      /\ pc = "ready" => cumulative_length > 0
  BY DEF ScoreForward, DecodeReturn, ForwardEnds, control, tail
<1>2. pc = "decode" => cumulative_length > 0
  BY DEF IInv, PhaseInv
<1> QED BY <1>1, <1>2, QuietStepKeeps

(* Forwards whose tokens enter the ring: an ingest chunk, a decode step.   *)
LEMMA AppendKeeps ==
  ASSUME IInv, IngestChunk \/ DecodeStep
  PROVE  IInv'
<1>1. /\ query_length \in Nat /\ pc = "ready" /\ cumulative_length > 0
  BY DEF IInv, PhaseInv, IngestChunk, DecodeStep
<1>2. /\ recent' = recent \o Arange(cumulative_length, query_length)
      /\ cumulative_length' = cumulative_length + query_length
      /\ pc' \in {"idle", "decode"} /\ query_length' \in Nat
      /\ mid_cache' = mid_cache \/ EnsureMidCache
      /\ UNCHANGED <<arm, left, sink, hh, f, q, absorbed>>
  BY <1>1 DEF IngestChunk, DecodeStep, Prompt, ForwardEnds, tail, forward
<1> QED BY <1>1, <1>2, RingStepKeeps

(* The first forward cuts the prompt into sinks, middle and ring.          *)
LEMMA PrefillShape ==
  ASSUME IInv, Prefill
  PROVE  LET n == Lesser(arm.n_sink, query_length)
             w == Lesser(arm.recent_window, query_length - n)
         IN /\ n \in 0 .. query_length /\ w \in 0 .. query_length - n
            /\ sink' = Arange(0, n) /\ Len(sink') = n /\ sink' \in Seq(Int)
            /\ recent' = Arange(query_length - w, w) /\ Len(recent') = w
            /\ recent' \in Seq(Int)
            /\ left' = IF lowrank_enabled THEN query_length - n - w ELSE 0
<1> DEFINE t == query_length
           n_sink == Lesser(arm.n_sink, t)
           window == Lesser(arm.recent_window, t - n_sink)
<1>1. /\ arm \in Arms /\ arm.n_sink \in Nat /\ arm.recent_window \in Nat /\ t \in Nat /\ t > 0
      /\ pc = "ready" /\ cumulative_length = 0
  BY ArmFacts DEF IInv, PhaseInv, Prefill
<1>2. n_sink \in 0 .. t /\ window \in 0 .. t - n_sink
  <2>1. \A x, y \in Nat : Lesser(x, y) \in 0 .. y
    BY DEF Lesser
  <2>2. n_sink \in 0 .. t
    BY <1>1, <2>1
  <2>3. t - n_sink \in Nat
    BY <1>1, <2>2
  <2> HIDE DEF n_sink, t
  <2> QED BY <1>1, <2>1, <2>2, <2>3
<1>3. /\ sink' = SubSeq(Arange(0, t), 1, n_sink)
      /\ recent' = SubSeq(Arange(0, t), t - window + 1, t)
      /\ left' = IF lowrank_enabled THEN t - n_sink - window ELSE 0
      /\ pc' = "prefill" /\ UNCHANGED <<arm, cumulative_length, query_length, hh, f, q>>
      /\ absorbed' = absorbed /\ mid_cache' = mid_cache
  BY <1>1 DEF Prefill, Prompt, forward, tail
<1> HIDE DEF n_sink, window, t
<1>4. /\ sink' = Arange(0, n_sink) /\ Len(sink') = n_sink /\ sink' \in Seq(Int)
      /\ recent' = Arange(t - window, window) /\ Len(recent') = window /\ recent' \in Seq(Int)
  <2>1. /\ n_sink \in Nat /\ n_sink \in Int /\ t - window \in Int /\ window \in Nat
        /\ 0 \in Int /\ 1 \in 1 .. t + 1 /\ n_sink \in 1 - 1 .. t
        /\ t - window + 1 \in 1 .. t + 1 /\ t \in (t - window + 1) - 1 .. t
    BY <1>1, <1>2
  <2>2. SubSeq(Arange(0, t), 1, n_sink) = Arange(0 + 1 - 1, n_sink - 1 + 1)
    BY <1>1, <2>1, ArangeSlice
  <2>3. SubSeq(Arange(0, t), t - window + 1, t)
          = Arange(0 + (t - window + 1) - 1, t - (t - window + 1) + 1)
    BY <1>1, <2>1, ArangeSlice
  <2>4. /\ 0 + 1 - 1 = 0 /\ n_sink - 1 + 1 = n_sink
        /\ 0 + (t - window + 1) - 1 = t - window /\ t - (t - window + 1) + 1 = window
    BY <1>1, <2>1
  <2>5. sink' = Arange(0, n_sink) /\ recent' = Arange(t - window, window)
    BY <1>3, <2>2, <2>3, <2>4
  <2>6. Arange(0, n_sink) \in Seq(Int) /\ Len(Arange(0, n_sink)) = n_sink
    BY <2>1, ArangeShape
  <2>7. Arange(t - window, window) \in Seq(Int) /\ Len(Arange(t - window, window)) = window
    BY <2>1, ArangeShape
  <2> QED BY <2>5, <2>6, <2>7
<1> QED BY <1>2, <1>3, <1>4 DEF n_sink, window, t

(* The first forward keeps the invariant.                                  *)
LEMMA PrefillKeeps ==
  ASSUME IInv, Prefill
  PROVE  IInv'
<1>1. PICK n_sink \in Nat : n_sink = Lesser(arm.n_sink, query_length)
  BY PrefillShape
<1>2. PICK window \in Nat : window = Lesser(arm.recent_window, query_length - n_sink)
  BY <1>1, PrefillShape
<1>3. PICK t \in Nat : t = query_length
  BY DEF IInv, PhaseInv
<1>4. /\ arm \in Arms /\ t > 0 /\ pc = "ready" /\ cumulative_length = 0
  BY <1>3 DEF IInv, PhaseInv, Prefill
<1>5. n_sink \in 0 .. t /\ window \in 0 .. t - n_sink
  BY <1>1, <1>2, <1>3, PrefillShape
<1>6. /\ left' = IF lowrank_enabled THEN t - n_sink - window ELSE 0
      /\ pc' = "prefill" /\ UNCHANGED <<arm, cumulative_length, query_length, hh, f, q>>
      /\ absorbed' = absorbed /\ mid_cache' = mid_cache
  <2>1. left' = IF lowrank_enabled THEN t - n_sink - window ELSE 0
    BY <1>1, <1>2, <1>3, PrefillShape
  <2> QED BY <2>1 DEF Prefill, forward, tail
<1>7. /\ sink' = Arange(0, n_sink) /\ Len(sink') = n_sink /\ sink' \in Seq(Int)
      /\ recent' = Arange(t - window, window) /\ Len(recent') = window /\ recent' \in Seq(Int)
  BY <1>1, <1>2, <1>3, PrefillShape
<1>8. /\ NoExact' /\ NoTail' /\ mid_cache' = <<>>
      /\ lowrank_enabled' = lowrank_enabled /\ hh_enabled' = hh_enabled
  BY <1>4, <1>6 DEF IInv, PhaseInv, EmptyInv, NoExact, NoTail,
     lowrank_enabled, TL!lowrank_enabled, hh_enabled, TL!hh_enabled
<1>9. left' \in Nat /\ (left' > 0 => lowrank_enabled) /\ left' <= t - n_sink - window
      /\ (lowrank_enabled => left' = t - n_sink - window)
  BY <1>4, <1>5, <1>6
<1>10. /\ Stream' = t /\ Boundary' = t - window - left' /\ Boundary' \in Int
      /\ n_sink <= Boundary' /\ (lowrank_enabled => Boundary' = n_sink)
  <2>1. Stream' = t
    BY <1>3, <1>6 DEF Stream
  <2>2. Boundary' = t - window - left'
    BY <1>7, <2>1 DEF Boundary
  <2>3. n_sink \in Nat /\ window \in Nat
    BY <1>5
  <2>4. \A d \in Nat : d <= t - n_sink - window =>
          t - window - d \in Int /\ n_sink <= t - window - d
    BY <1>4, <2>3
  <2>5. t - window - (t - n_sink - window) = n_sink
    BY <1>4, <2>3
  <2> QED BY <1>9, <2>1, <2>2, <2>4, <2>5
<1>11. PhaseInv'
  BY <1>3, <1>4, <1>6, <1>8, <1>9 DEF IInv, PhaseInv
<1>12. EmptyInv'
  BY <1>6, <1>8 DEF EmptyInv
<1>13. RingInv'
  BY <1>7, <1>10 DEF RingInv
<1>14. MidCacheFresh'
  BY <1>8 DEF MidCacheFresh
<1>15. TailInv' /\ ExactInv' /\ Covered(n_sink)' /\ RunEndsAt(n_sink)'
  <2>1. arm' \in Arms /\ Len(sink') = n_sink
    BY <1>4, <1>6, <1>7
  <2>2. (NoExact /\ NoTail /\ arm \in Arms /\ Len(sink) = n_sink)'
    BY <1>8, <2>1
  <2> QED BY <2>2, NothingHeldNext
<1>16. (Covered(Boundary) /\ RunEndsAt(Boundary))'
  <2>1. CASE lowrank_enabled
    <3>1. Boundary' = n_sink
      BY <1>10, <2>1
    <3> QED BY <1>15, <3>1
  <2>2. CASE ~lowrank_enabled
    <3>1. Covered(Boundary)'
      BY <1>8, <2>2 DEF Covered
    <3>2. MidColumns' = <<>>
      <4>1. f'.col = <<>> /\ q'.col = <<>> /\ <<>> \o <<>> = <<>>
        BY <1>8 DEF NoTail, EmptyTier
      <4> QED BY <4>1 DEF MidColumns
    <3>3. MidColumns' = Arange(Boundary' - Len(MidColumns'), Len(MidColumns'))
      <4>1. Len(<<>>) = 0 /\ Boundary' - 0 \in Int
        BY <1>10
      <4> QED BY <3>2, <4>1, EmptyRun
    <3> QED BY <3>1, <3>3 DEF RunEndsAt
  <2> QED BY <2>1, <2>2
<1> QED BY <1>11, <1>12, <1>13, <1>14, <1>15, <1>16 DEF IInv

(* A block into the tail, whichever way it takes, where the stream stands. *)
AbsorbsBlock(b, m) ==
  \/ hh_enabled /\ AbsorbBlockSlash(Block(Arange(b, m), b))
  \/ AbsorbBlockDirect(Block(Arange(b, m), b))
AbsorbsCount(m) == TL!AbsorbBlockSlash(m) \/ (TL!AbsorbColumns(m) /\ hh' = hh)

LEMMA BlockKeeps ==
  ASSUME IInv, lowrank_enabled, arm' = arm, sink' = sink,
         NEW b \in Int, NEW m \in Nat, b = Boundary, AbsorbsBlock(b, m)
  PROVE  AbsorbedTo(b, m) /\ AbsorbsCount(m) /\ (~hh_enabled => NoExact')
<1>1. /\ arm \in Arms /\ sink \in Seq(Int) /\ TailInv /\ ExactInv
      /\ Len(sink) <= b /\ Covered(b)
  BY DEF IInv, PhaseInv, RingInv
<1>2. CASE hh_enabled /\ AbsorbBlockSlash(Block(Arange(b, m), b))
  BY <1>1, <1>2, SlashKeeps DEF AbsorbsCount
<1>3. CASE AbsorbBlockDirect(Block(Arange(b, m), b))
  <2>1. AbsorbedTo(b, m) /\ hh' = hh /\ TL!AbsorbColumns(m)
    BY <1>1, <1>3, DirectKeeps
  <2>2. ~hh_enabled => NoExact'
    BY <2>1 DEF IInv, EmptyInv, NoExact
  <2> QED BY <2>1, <2>2 DEF AbsorbsCount
<1> QED BY <1>2, <1>3 DEF AbsorbsBlock

(* One block of the pre-fill is the run of tokens that starts at Boundary. *)
LEMMA PrefillBlockShape ==
  ASSUME IInv, PrefillBlock
  PROVE  LET m == Lesser(arm.prefill_block_size, left)
         IN /\ m \in 1 .. left /\ left' = left - m /\ lowrank_enabled
            /\ Boundary \in Int
            /\ IF arm.seed_hh_warmup /\ hh_enabled /\ mode = "ingest"
                 THEN AbsorbBlockSlash(Block(Arange(Boundary, m), Boundary))
                 ELSE AbsorbBlockDirect(Block(Arange(Boundary, m), Boundary))
<1> DEFINE m == Lesser(arm.prefill_block_size, left)
           b == Boundary
<1>1. /\ pc = "prefill" /\ left \in Nat /\ left > 0 /\ cumulative_length = 0
      /\ query_length \in Nat /\ arm \in Arms /\ lowrank_enabled
      /\ recent \in Seq(Int) /\ sink \in Seq(Int) /\ Len(sink) <= b
  BY DEF IInv, PhaseInv, RingInv, PrefillBlock
<1>2. Len(recent) \in Nat /\ Len(sink) \in Nat
  BY <1>1, LenProperties
<1>3. b = query_length - Len(recent) - left
  BY <1>1 DEF Boundary, Stream
<1>4. m \in 1 .. left
  <2>1. arm.prefill_block_size \in Nat \ {0}
    BY <1>1, ArmFacts
  <2> QED BY <1>1, <2>1 DEF Lesser
<1>5. /\ left' = left - m
      /\ LET block == Block(SubSeq(Prompt, b + 1, b + m), b)
         IN IF arm.seed_hh_warmup /\ hh_enabled /\ mode = "ingest"
              THEN AbsorbBlockSlash(block) ELSE AbsorbBlockDirect(block)
  BY <1>3 DEF PrefillBlock
<1>6. SubSeq(Prompt, b + 1, b + m) = Arange(b, m)
  <2> HIDE DEF b, m
  <2>1. /\ b \in Nat /\ b + m <= query_length /\ 0 \in Int
        /\ b + 1 \in 1 .. query_length + 1 /\ b + m \in (b + 1) - 1 .. query_length
        /\ 0 + (b + 1) - 1 = b /\ (b + m) - (b + 1) + 1 = m
    BY <1>1, <1>2, <1>3, <1>4
  <2>2. SubSeq(Arange(0, query_length), b + 1, b + m)
          = Arange(0 + (b + 1) - 1, (b + m) - (b + 1) + 1)
    BY <1>1, <2>1, ArangeSlice, Zenon
  <2>3. Prompt = Arange(0, query_length)
    BY <1>1 DEF Prompt
  <2> QED BY <2>1, <2>2, <2>3
<1>7. b \in Int
  BY <1>1, <1>2, <1>3
<1> HIDE DEF b, m
<1>8. IF arm.seed_hh_warmup /\ hh_enabled /\ mode = "ingest"
        THEN AbsorbBlockSlash(Block(Arange(b, m), b))
        ELSE AbsorbBlockDirect(Block(Arange(b, m), b))
  BY <1>5, <1>6
<1> QED BY <1>1, <1>4, <1>5, <1>7, <1>8 DEF b, m

LEMMA PrefillBlockKeeps ==
  ASSUME IInv, PrefillBlock
  PROVE  IInv' /\ (RetainInv => RetainInv')
<1>1. PICK m \in Nat : m = Lesser(arm.prefill_block_size, left) /\ m \in 1 .. left
                       /\ left' = left - m
  BY PrefillBlockShape DEF IInv, PhaseInv
<1>2. PICK b \in Int : b = Boundary
  BY PrefillBlockShape
<1>3. AbsorbsBlock(b, m) /\ lowrank_enabled
  BY <1>1, <1>2, PrefillBlockShape DEF AbsorbsBlock
<1>4. /\ pc = "prefill" /\ left \in Nat /\ cumulative_length = 0 /\ mid_cache = <<>>
      /\ query_length \in Nat /\ query_length > 0 /\ arm \in Arms
      /\ recent \in Seq(Int) /\ sink \in Seq(Int)
      /\ UNCHANGED <<arm, pc, cumulative_length, query_length, sink, recent, mid_cache>>
  BY DEF IInv, PhaseInv, RingInv, PrefillBlock, forward
<1>5. AbsorbedTo(b, m) /\ (~hh_enabled => NoExact')
  BY <1>2, <1>3, <1>4, BlockKeeps
<1>6. /\ lowrank_enabled' = lowrank_enabled /\ hh_enabled' = hh_enabled
      /\ Stream' = Stream /\ Stream = query_length
  BY <1>4 DEF lowrank_enabled, TL!lowrank_enabled, hh_enabled, TL!hh_enabled, Stream
<1>7. Boundary' = b + m
  <2>1. Len(recent) \in Nat
    BY <1>4, LenProperties
  <2>2. b = query_length - Len(recent) - left
    BY <1>2, <1>6 DEF Boundary
  <2>3. Boundary' = query_length - Len(recent) - (left - m)
    BY <1>1, <1>4, <1>6 DEF Boundary
  <2> QED BY <1>1, <1>4, <2>1, <2>2, <2>3
<1>8. PhaseInv'
  <2>1. left' \in Nat
    BY <1>1, <1>4
  <2> QED BY <1>3, <1>4, <1>6, <2>1 DEF PhaseInv
<1>9. EmptyInv'
  BY <1>3, <1>4, <1>5, <1>6 DEF EmptyInv
<1>10. RingInv'
  <2>1. Len(sink) \in Nat /\ Len(sink) <= b
    BY <1>2, <1>4, LenProperties DEF IInv, RingInv
  <2>2. Len(sink) <= b + m
    BY <1>1, <2>1
  <2>3. sink = Arange(0, Len(sink)) /\ recent = Arange(Stream - Len(recent), Len(recent))
    BY DEF IInv, RingInv
  <2> QED BY <1>4, <1>6, <1>7, <2>2, <2>3 DEF RingInv
<1>11. MidCacheFresh'
  BY <1>4 DEF MidCacheFresh
<1>12. TailInv' /\ ExactInv' /\ Covered(b + m)' /\ RunEndsAt(b + m)'
  BY <1>2, <1>5 DEF AbsorbedTo, IInv
<1>13. Covered(Boundary)' /\ RunEndsAt(Boundary)'
  BY <1>7, <1>12
<1>14. IInv'
  BY <1>8, <1>9, <1>10, <1>11, <1>12, <1>13 DEF IInv
<1>15. RetainInv => RetainInv'
  BY <1>5 DEF AbsorbedTo
<1> QED BY <1>14, <1>15

(* A graduating block is the run of tokens that starts at Boundary, and the *)
(* ring is what follows it.                                                *)
LEMMA GraduationShape ==
  ASSUME IInv, AbsorbBlockIntoStream
  PROVE  LET m == arm.absorb_block
         IN /\ m \in Nat \ {0} /\ m <= Len(recent) /\ Len(recent) \in Nat
            /\ cumulative_length > 0 /\ Boundary \in Int
            /\ Boundary = cumulative_length - Len(recent)
            /\ recent' \in Seq(Int) /\ Len(recent') = Len(recent) - m
            /\ recent' = Arange(Boundary + m, Len(recent) - m)
            /\ \/ ~lowrank_enabled /\ UNCHANGED <<hh, tail>>
               \/ hh_enabled /\ AbsorbBlockSlash(Block(Arange(Boundary, m), Boundary))
               \/ /\ lowrank_enabled /\ ~hh_enabled
                  /\ AbsorbBlockDirect(Block(Arange(Boundary, m), Boundary))
<1> DEFINE m == arm.absorb_block
           n == Len(recent)
           b == Boundary
<1>1. /\ pc \in {"decode", "consolidate"} /\ left = 0 /\ cumulative_length \in Nat
      /\ arm \in Arms /\ recent \in Seq(Int) /\ n >= arm.recent_window + m
      /\ recent = Arange(cumulative_length - n, n)
  BY DEF IInv, PhaseInv, RingInv, Stream, AbsorbBlockIntoStream, TL!AbsorbAt
<1>2. n \in Nat /\ m \in Nat \ {0} /\ m <= n
  <2>1. n \in Nat /\ m \in Nat \ {0} /\ arm.recent_window \in Nat \ {0}
    BY <1>1, ArmFacts, LenProperties
  <2> HIDE DEF n, m
  <2> QED BY <1>1, <2>1
<1>3. b = cumulative_length - n /\ b \in Int
  <2>1. b = cumulative_length - n - 0
    BY <1>1 DEF Boundary, Stream
  <2> HIDE DEF b, n
  <2> QED BY <1>1, <1>2, <2>1
<1>4. cumulative_length > 0
  <2>1. cumulative_length = 0 => recent = <<>>
    BY <1>1 DEF IInv, EmptyInv
  <2>2. recent = <<>> => n = 0
    BY EmptyRun
  <2> HIDE DEF n, m
  <2> QED BY <1>1, <1>2, <2>1, <2>2
<1> HIDE DEF m, n, b
<1>5. recent = Arange(b, n)
  BY <1>1, <1>3
<1>6. /\ recent' = SubSeq(recent, m + 1, n)
      /\ LET grad == Block(SubSeq(recent, 1, m), cumulative_length - Len(recent') - m)
         IN \/ ~lowrank_enabled /\ UNCHANGED <<hh, tail>>
            \/ hh_enabled /\ AbsorbBlockSlash(grad)
            \/ lowrank_enabled /\ ~hh_enabled /\ AbsorbBlockDirect(grad)
  BY DEF AbsorbBlockIntoStream, GradStart, m, n
<1>7. recent' = Arange(b + m, n - m)
  <2>1. /\ m + 1 \in 1 .. n + 1 /\ n \in (m + 1) - 1 .. n
        /\ b + (m + 1) - 1 = b + m /\ n - (m + 1) + 1 = n - m
    BY <1>2, <1>3
  <2>2. SubSeq(Arange(b, n), m + 1, n) = Arange(b + (m + 1) - 1, n - (m + 1) + 1)
    BY <1>2, <1>3, <2>1, ArangeSlice, Zenon
  <2> QED BY <1>5, <1>6, <2>1, <2>2
<1>8. recent' \in Seq(Int) /\ Len(recent') = n - m
  <2>1. b + m \in Int /\ n - m \in Nat
    BY <1>2, <1>3
  <2> QED BY <1>7, <2>1, ArangeShape
<1>9. SubSeq(recent, 1, m) = Arange(b, m)
  <2>1. /\ 1 \in 1 .. n + 1 /\ m \in 1 - 1 .. n
        /\ b + 1 - 1 = b /\ m - 1 + 1 = m
    BY <1>2, <1>3
  <2>2. SubSeq(Arange(b, n), 1, m) = Arange(b + 1 - 1, m - 1 + 1)
    BY <1>2, <1>3, <2>1, ArangeSlice, Zenon
  <2> QED BY <1>5, <2>1, <2>2
<1>10. cumulative_length - Len(recent') - m = b
  BY <1>1, <1>2, <1>3, <1>8
<1>11. \/ ~lowrank_enabled /\ UNCHANGED <<hh, tail>>
       \/ hh_enabled /\ AbsorbBlockSlash(Block(Arange(b, m), b))
       \/ lowrank_enabled /\ ~hh_enabled /\ AbsorbBlockDirect(Block(Arange(b, m), b))
  BY <1>6, <1>9, <1>10
<1> QED BY <1>2, <1>3, <1>4, <1>7, <1>8, <1>11 DEF m, n, b

(* Graduation keeps the invariant.                                         *)
LEMMA GraduationKeeps ==
  ASSUME IInv, AbsorbBlockIntoStream
  PROVE  IInv' /\ (RetainInv => RetainInv')
<1>1. PICK m \in Nat \ {0} : m = arm.absorb_block
  BY GraduationShape
<1>2. PICK b \in Int : b = Boundary
  BY GraduationShape
<1>3. PICK n \in Nat : n = Len(recent)
  BY GraduationShape
<1>4. /\ m <= n /\ cumulative_length > 0 /\ b = cumulative_length - n
      /\ recent' \in Seq(Int) /\ Len(recent') = n - m /\ recent' = Arange(b + m, n - m)
      /\ \/ ~lowrank_enabled /\ UNCHANGED <<hh, tail>>
         \/ lowrank_enabled /\ AbsorbsBlock(b, m)
  <2>1. hh_enabled => lowrank_enabled
    BY DEF hh_enabled, lowrank_enabled, TL!hh_enabled
  <2> QED BY <1>1, <1>2, <1>3, <2>1, GraduationShape DEF AbsorbsBlock
<1>5. /\ pc \in {"decode", "consolidate"} /\ left = 0 /\ cumulative_length \in Nat
      /\ query_length \in Nat /\ arm \in Arms /\ sink \in Seq(Int)
      /\ mid_cache' = <<>>
      /\ UNCHANGED <<arm, pc, cumulative_length, left, query_length, sink>>
  BY DEF IInv, PhaseInv, RingInv, AbsorbBlockIntoStream, DropMidCache, control, forward
<1>6. /\ lowrank_enabled' = lowrank_enabled /\ hh_enabled' = hh_enabled
      /\ track_positions' = track_positions
      /\ Stream' = cumulative_length
  BY <1>5 DEF lowrank_enabled, TL!lowrank_enabled, hh_enabled, TL!hh_enabled,
     track_positions, Stream
<1>7. Boundary' = b + m /\ Stream' - Len(recent') = b + m
  <2>1. Boundary' = cumulative_length - (n - m) - 0
        /\ Stream' - Len(recent') = cumulative_length - (n - m)
    BY <1>4, <1>5, <1>6 DEF Boundary
  <2> QED BY <1>4, <1>5, <2>1
<1>8. AbsorbedTo(b, m) /\ (~hh_enabled => NoExact') /\ (~lowrank_enabled => NoTail')
  <2>1. CASE lowrank_enabled
    BY <1>2, <1>4, <1>5, <2>1, BlockKeeps
  <2>2. CASE ~lowrank_enabled
    <3>1. UNCHANGED <<hh, f, q, absorbed>>
      BY <1>4, <2>2 DEF tail
    <3>2. NoExact /\ NoTail /\ NoExact' /\ NoTail'
      BY <2>2, <3>1 DEF IInv, EmptyInv, NoExact, NoTail
    <3>3. MidColumns' = MidColumns /\ Given' = Given
      BY <3>1 DEF MidColumns, Given
    <3>4. TailInv' /\ ExactInv'
      BY <1>5, <1>6, <3>1, <3>3 DEF IInv, TailInv, ExactInv, Typed, Truthful, Aligned
    <3>5. Covered(b + m)'
      BY <1>6, <2>2 DEF Covered
    <3>6. RunEndsAt(b + m)'
      <4>1. MidColumns' = <<>>
        <5>1. f'.col = <<>> /\ q'.col = <<>> /\ <<>> \o <<>> = <<>>
          BY <3>2 DEF NoTail, EmptyTier
        <5> QED BY <5>1 DEF MidColumns
      <4>2. Len(<<>>) = 0 /\ b + m - 0 \in Int
        BY EmptyRun
      <4> QED BY <4>1, <4>2, EmptyRun DEF RunEndsAt
    <3>7. RetainInv => RetainInv'
      BY <1>5, <3>1, SameRetained
    <3> QED BY <3>2, <3>4, <3>5, <3>6, <3>7 DEF AbsorbedTo
  <2> QED BY <2>1, <2>2
<1>9. PhaseInv'
  BY <1>4, <1>5, <1>6 DEF PhaseInv
<1>10. EmptyInv'
  <2>1. cumulative_length' # 0
    BY <1>4, <1>5
  <2>2. ~lowrank_enabled' => NoExact' /\ NoTail'
    <3>1. hh_enabled => lowrank_enabled
      BY DEF hh_enabled, lowrank_enabled, TL!hh_enabled
    <3> QED BY <1>6, <1>8, <3>1
  <2>3. ~hh_enabled' => NoExact'
    BY <1>6, <1>8
  <2> QED BY <2>1, <2>2, <2>3 DEF EmptyInv
<1>11. RingInv'
  <2>1. Len(sink) \in Nat /\ Len(sink) <= b /\ sink = Arange(0, Len(sink))
    BY <1>2, <1>5, LenProperties DEF IInv, RingInv
  <2>2. Len(sink) <= b + m
    BY <2>1
  <2> QED BY <1>4, <1>5, <1>7, <2>1, <2>2 DEF RingInv
<1>12. MidCacheFresh'
  BY <1>5 DEF MidCacheFresh
<1>13. TailInv' /\ ExactInv' /\ Covered(b + m)' /\ RunEndsAt(b + m)'
  BY <1>2, <1>8 DEF AbsorbedTo, IInv
<1>14. Covered(Boundary)' /\ RunEndsAt(Boundary)'
  BY <1>7, <1>13
<1>15. IInv'
  BY <1>9, <1>10, <1>11, <1>12, <1>13, <1>14 DEF IInv
<1>16. RetainInv => RetainInv'
  BY <1>8 DEF AbsorbedTo
<1> QED BY <1>15, <1>16

(* The pre-fill hands the stream over to the running length.               *)
LEMMA PrefillReturnKeeps ==
  ASSUME IInv, PrefillReturn
  PROVE  IInv'
<1>1. /\ pc = "prefill" /\ left = 0 /\ cumulative_length = 0 /\ query_length > 0
      /\ query_length \in Nat /\ mid_cache = <<>>
      /\ cumulative_length' = query_length /\ pc' = "idle" /\ query_length' = 0
      /\ UNCHANGED <<arm, left, sink, recent, hh, f, q, absorbed, mid_cache>>
  BY DEF IInv, PhaseInv, PrefillReturn, ForwardEnds, tokens, tail
<1>2. Stream' = Stream /\ Boundary' = Boundary
  BY <1>1 DEF Stream, Boundary
<1>3. lowrank_enabled' = lowrank_enabled /\ hh_enabled' = hh_enabled
      /\ track_positions' = track_positions /\ MidColumns' = MidColumns /\ Given' = Given
  BY <1>1 DEF lowrank_enabled, TL!lowrank_enabled, hh_enabled, TL!hh_enabled, track_positions,
     MidColumns, Given
<1>4. PhaseInv' /\ MidCacheFresh'
  BY <1>1 DEF IInv, PhaseInv, MidCacheFresh
<1>5. EmptyInv'
  BY <1>1, <1>3 DEF IInv, EmptyInv, NoExact, NoTail
<1>6. RingInv'
  BY <1>1, <1>2 DEF IInv, RingInv
<1>7. TailInv' /\ ExactInv'
  BY <1>1, <1>3 DEF IInv, TailInv, ExactInv, Typed, Truthful, Aligned
<1>8. (Covered(Boundary) /\ RunEndsAt(Boundary))'
  BY <1>1, <1>2, <1>3 DEF IInv, Covered, RunEndsAt, FifoOnly
<1> QED BY <1>4, <1>5, <1>6, <1>7, <1>8 DEF IInv

(* A reset layer is a new one.                                             *)
LEMMA ResetKeeps ==
  ASSUME IInv, Reset
  PROVE  IInv'
<1>1. /\ arm' = arm /\ arm \in Arms /\ pc' = pc /\ pc = "idle" /\ cumulative_length' = 0
      /\ left' = left /\ left = 0 /\ query_length' = query_length /\ query_length \in Nat
      /\ sink' = <<>> /\ recent' = <<>> /\ mid_cache' = <<>> /\ NoExact' /\ NoTail'
  BY DEF Reset, ClearTiers, IInv, PhaseInv, NoExact, NoTail
<1>2. PhaseInv'
  BY <1>1 DEF PhaseInv
<1>3. EmptyInv'
  BY <1>1 DEF EmptyInv
<1>4. Stream' = 0 /\ Boundary' = 0 /\ Len(sink') = 0 /\ Len(recent') = 0
  <2>1. Len(<<>>) = 0
    BY EmptyRun
  <2>2. Stream' = 0 /\ Len(sink') = 0 /\ Len(recent') = 0
    BY <1>1, <2>1 DEF Stream
  <2>3. Boundary' = 0 - 0 - 0
    BY <1>1, <2>2 DEF Boundary
  <2> QED BY <2>2, <2>3
<1>5. RingInv'
  <2>1. Arange(0, 0) = <<>> /\ <<>> \in Seq(Int) /\ 0 - 0 = 0
    BY EmptyRun
  <2> QED BY <1>1, <1>4, <2>1 DEF RingInv
<1>6. TailInv' /\ ExactInv' /\ Covered(0)' /\ RunEndsAt(0)'
  <2>1. (NoExact /\ NoTail /\ arm \in Arms /\ Len(sink) = 0)'
    BY <1>1, <1>4
  <2> QED BY <2>1, NothingHeldNext
<1>7. MidCacheFresh'
  BY <1>1 DEF MidCacheFresh
<1>8. (Covered(Boundary) /\ RunEndsAt(Boundary))'
  BY <1>4, <1>6
<1> QED BY <1>2, <1>3, <1>4, <1>5, <1>6, <1>7, <1>8 DEF IInv

(* Nothing happens.                                                        *)
LEMMA StutterKeeps ==
  ASSUME IInv, UNCHANGED vars
  PROVE  IInv'
<1>1. UNCHANGED <<arm, pc, cumulative_length, left, query_length, sink, recent, hh, f, q,
                  absorbed, mid_cache>>
  BY DEF vars, control, forward, answer, tokens, tail
<1>2. /\ lowrank_enabled' = lowrank_enabled /\ hh_enabled' = hh_enabled
      /\ track_positions' = track_positions /\ MidColumns' = MidColumns /\ Given' = Given
      /\ Boundary' = Boundary /\ Stream' = Stream
  BY <1>1 DEF lowrank_enabled, TL!lowrank_enabled, hh_enabled, TL!hh_enabled, track_positions,
     MidColumns, Given, Boundary, Stream
<1>3. PhaseInv'
  BY <1>1, <1>2 DEF IInv, PhaseInv
<1>4. EmptyInv'
  BY <1>1, <1>2 DEF IInv, EmptyInv, NoExact, NoTail
<1>5. RingInv'
  BY <1>1, <1>2 DEF IInv, RingInv
<1>6. TailInv' /\ ExactInv'
  BY <1>1, <1>2 DEF IInv, TailInv, ExactInv, Typed, Truthful, Aligned
<1>7. (Covered(Boundary) /\ RunEndsAt(Boundary))'
  BY <1>1, <1>2 DEF IInv, Covered, RunEndsAt, FifoOnly
<1>8. MidCacheFresh'
  <2>1. Reconstruction' = Reconstruction
    BY <1>1, SameReconstruction
  <2> QED BY <1>1, <2>1 DEF IInv, MidCacheFresh
<1> QED BY <1>3, <1>4, <1>5, <1>6, <1>7, <1>8 DEF IInv

(* Every step keeps the invariant.                                         *)
LEMMA StepKeeps == IInv /\ [Next]_vars => IInv'
<1> SUFFICES ASSUME IInv, [Next]_vars PROVE IInv'
  OBVIOUS
<1>1. CASE MaskStep
  BY <1>1, MaskStepKeeps
<1>2. CASE AbsorbBlockIntoStream
  BY <1>2, GraduationKeeps
<1>3. CASE Prefill
  BY <1>3, PrefillKeeps
<1>4. CASE PrefillBlock
  BY <1>4, PrefillBlockKeeps
<1>5. CASE PrefillReturn
  BY <1>5, PrefillReturnKeeps
<1>6. CASE ScoreForward \/ DecodeReturn
  BY <1>6, PeekKeeps
<1>7. CASE IngestChunk \/ DecodeStep
  BY <1>7, AppendKeeps
<1>8. CASE IdleCall
  BY <1>8, IdleCallKeeps
<1>9. CASE Reset
  BY <1>9, ResetKeeps
<1>10. CASE UNCHANGED vars
  BY <1>10, StutterKeeps
<1> QED BY <1>1, <1>2, <1>3, <1>4, <1>5, <1>6, <1>7, <1>8, <1>9, <1>10 DEF Next

(* An empty tail is the top of an empty history.                           *)
LEMMA NothingRetained ==
  ASSUME NoTail
  PROVE  RetainInv
<1>1. absorbed = <<>> /\ f.col = <<>> /\ q.col = <<>>
  BY DEF NoTail, EmptyTier
<1>2. DOMAIN absorbed = {} /\ DOMAIN f.col = {} /\ DOMAIN q.col = {} /\ DOMAIN <<>> = {}
  BY <1>1
<1>3. PICK h : h \in [{} -> {}]
  <2>1. [x \in {} |-> x] \in [{} -> {}]
    OBVIOUS
  <2> QED BY <2>1
<1>4. DOMAIN h = {}
  BY <1>3
<1>5. Recalls(f, h) /\ Recalls(q, h)
  BY <1>4 DEF Recalls
<1>6. Entries(h) = {} /\ \A k : Top(Score, {}, k) = {}
  BY <1>4 DEF Entries, Top
<1>7. /\ h \in [DOMAIN f.col -> DOMAIN absorbed] /\ h \in [DOMAIN q.col -> DOMAIN absorbed]
      /\ Entries(h) = Top(Score, DOMAIN absorbed, arm.coord_budget)
      /\ Entries(h) = Top(Score, DOMAIN absorbed, arm.coord_budget + arm.quant_budget)
                        \ Entries(h)
  BY <1>2, <1>3, <1>6
<1> QED BY <1>5, <1>7 DEF RetainInv

(* The same of the state a step leads to.                                  *)
LEMMA NothingRetainedNext == NoTail' => RetainInv'
<1>1. NoTail => RetainInv
  BY NothingRetained
<1> QED BY <1>1, PTL

(* Every step keeps the two tiers the top of the history.                  *)
LEMMA StepRetains == IInv /\ RetainInv /\ [Next]_vars => RetainInv'
<1> SUFFICES ASSUME IInv, RetainInv, [Next]_vars PROVE RetainInv'
  OBVIOUS
<1>1. CASE AbsorbBlockIntoStream
  BY <1>1, GraduationKeeps
<1>2. CASE PrefillBlock
  BY <1>2, PrefillBlockKeeps
<1>3. CASE Reset
  <2>1. NoTail'
    BY <1>3 DEF Reset, ClearTiers, NoTail
  <2> QED BY <2>1, NothingRetainedNext
<1>4. CASE MaskStep \/ IdleCall
  <2>1. UNCHANGED <<arm, f, q, absorbed>>
    BY <1>4 DEF MaskStep, IdleCall, tokens, tail, TL!GetMaskSizes, TL!PostUpdateLengths,
       TL!ReportMaskSizes, TL!UpdateRejected, TL!Consolidate, TL!ConsolidateReturn,
       TL!SetMode, TL!vars
  <2> QED BY <2>1, SameRetained
<1>5. CASE Prefill \/ PrefillReturn \/ ScoreForward \/ IngestChunk \/ DecodeStep \/ DecodeReturn
  <2>1. UNCHANGED <<arm, f, q, absorbed>>
    BY <1>5 DEF Prefill, PrefillReturn, ScoreForward, IngestChunk, DecodeStep, DecodeReturn,
       tokens, tail, control
  <2> QED BY <2>1, SameRetained
<1>6. CASE UNCHANGED vars
  <2>1. UNCHANGED <<arm, f, q, absorbed>>
    BY <1>6 DEF vars, control, tokens, tail
  <2> QED BY <2>1, SameRetained
<1> QED BY <1>1, <1>2, <1>3, <1>4, <1>5, <1>6 DEF Next

-----------------------------------------------------------------------------
(* The theorems.                                                           *)

(* The invariant holds through every sequence of calls.                    *)
THEOREM Inductive == Spec => []IInv
<1>1. Init => IInv
  BY InitIInv
<1>2. IInv /\ [Next]_vars => IInv'
  BY StepKeeps
<1> QED BY <1>1, <1>2, PTL DEF Spec

(* _mid_k_cache is dropped only when a block graduates (bug_cache.py,      *)
(* _absorb_block_into_stream), yet it is never stale: whatever is cached   *)
(* is the reconstruction the tiers would give now.                         *)
THEOREM CacheNeverStale == Spec => []MidCacheFresh
<1>1. IInv => MidCacheFresh
  BY DEF IInv
<1> QED BY <1>1, Inductive, PTL

(* The columns a budget evicts are the least surprising of what it finds   *)
(* in one tier (_split_indices, _enforce_budgets); what the two tiers hold *)
(* is nevertheless the most surprising of everything the tail was given.   *)
THEOREM BestRetained == Spec => []RetainsBest
<1>1. Init => RetainInv
  <2>1. Init => NoTail
    BY DEF Init, NoTail
  <2> QED BY <2>1, NothingRetained
<1>2. IInv /\ RetainInv /\ [Next]_vars => RetainInv'
  BY StepRetains
<1>3. IInv /\ RetainInv => RetainsBest
  <2> SUFFICES ASSUME IInv, RetainInv PROVE RetainsBest
    OBVIOUS
  <2>1. PICK N \in Nat : N = Len(absorbed) /\ DOMAIN absorbed = 1 .. N
    BY LenProperties DEF IInv, TailInv
  <2>2. PICK c \in Nat : c = arm.coord_budget
    BY ArmFacts DEF IInv, PhaseInv
  <2>3. PICK d \in Nat : d = arm.quant_budget
    BY ArmFacts DEF IInv, PhaseInv
  <2>4. PICK hf \in [DOMAIN f.col -> 1 .. N], hq \in [DOMAIN q.col -> 1 .. N] :
          /\ Recalls(f, hf) /\ Recalls(q, hq)
          /\ Entries(hf) = Top(Score, 1 .. N, c)
          /\ Entries(hq) = Top(Score, 1 .. N, c + d) \ Entries(hf)
    BY <2>1, <2>2, <2>3, Zenon DEF RetainInv
  <2>5. Entries(hf) \subseteq Top(Score, 1 .. N, c + d)
    <3>1. \A x \in 1 .. N : absorbed[x].sur \in Int
      <4>1. \A x \in 1 .. N : absorbed[x] \in [tok : Int, sur : 1 .. MaxLevel]
        BY <2>1, ElementOfSeq DEF IInv, TailInv
      <4> QED BY <4>1, MaxLevelAssumption
    <3>2. Scored(Score, N)
      BY <2>1, <3>1 DEF Score, Scored
    <3>3. Among(1 .. N, N)
      BY DEF Among
    <3>4. Top(Score, 1 .. N, c) \subseteq Top(Score, 1 .. N, c + d)
      BY <3>2, <3>3, TopOfRest
    <3> QED BY <2>4, <3>4
  <2>6. /\ Entries(f.col) = {absorbed[x].tok : x \in Entries(hf)}
        /\ Entries(q.col) = {absorbed[x].tok : x \in Entries(hq)}
    BY <2>4 DEF Entries, Recalls
  <2>7. Entries(MidColumns) = Entries(q.col) \cup Entries(f.col)
    BY ConcatEntries DEF MidColumns, IInv, TailInv, Typed
  <2>8. Entries(f.col) = Best(c)
    BY <2>1, <2>4, <2>6 DEF Best
  <2>9. Entries(MidColumns) = Best(c + d)
    <3>1. Entries(hq) \cup Entries(hf) = Top(Score, 1 .. N, c + d)
      BY <2>4, <2>5
    <3>2. Entries(MidColumns) = {absorbed[x].tok : x \in Entries(hq) \cup Entries(hf)}
      BY <2>6, <2>7
    <3> QED BY <2>1, <3>1, <3>2 DEF Best
  <2> QED BY <2>2, <2>3, <2>8, <2>9 DEF RetainsBest
<1> QED BY <1>1, <1>2, <1>3, Inductive, PTL DEF Spec

(* No token is held twice and none is skipped, through any mixture of      *)
(* pre-fill blocks, decode absorbs, ingest chunks, demotions, evictions,   *)
(* re-selections and resets.                                               *)
THEOREM NoTokenTwice == Spec => []EachTokenOnce
<1>1. IInv => EachTokenOnce
  <2> SUFFICES ASSUME IInv, lowrank_enabled, pc # "prefill"
               PROVE  /\ sink = Arange(0, Len(sink))
                      /\ recent = Arange(cumulative_length - Len(recent), Len(recent))
                      /\ Disjoint(Given \o hh.col)
                      /\ Entries(Given \o hh.col)
                           = Len(sink) .. (cumulative_length - Len(recent) - 1)
                      /\ Disjoint(MidColumns) /\ Entries(MidColumns) \subseteq Entries(Given)
    BY DEF EachTokenOnce
  <2>1. Stream = cumulative_length /\ left = 0
    BY DEF IInv, PhaseInv, Stream
  <2>2. Boundary - 1 = cumulative_length - Len(recent) - 1
    <3>1. cumulative_length \in Nat /\ Len(recent) \in Nat
      BY LenProperties DEF IInv, PhaseInv, RingInv
    <3>2. Boundary = cumulative_length - Len(recent) - 0
      BY <2>1 DEF Boundary
    <3> QED BY <3>1, <3>2
  <2>3. Disjoint(Given \o hh.col) /\ Entries(Given \o hh.col) = Len(sink) .. Boundary - 1
    BY DEF IInv, Covered
  <2> QED BY <2>1, <2>2, <2>3 DEF IInv, RingInv, TailInv
<1> QED BY <1>1, Inductive, PTL

(* Every column the attention sees is rotated to the position its token    *)
(* has, for every layer that can know it: the one exception is retention   *)
(* fifo beside an exact tier, which stores no positions and demotes out of *)
(* order (_mid_positions then returns a contiguous run that is not one).   *)
THEOREM RotatedTruly == Spec => [](FifoOnly => PositionsTrue)
<1>1. IInv => (FifoOnly => PositionsTrue)
  <2> SUFFICES ASSUME IInv, FifoOnly, pc # "prefill"
               PROVE  MidPositions = MidColumns /\ hh.pos = hh.col
    BY DEF PositionsTrue
  <2>1. hh.pos = hh.col
    BY DEF IInv, ExactInv
  <2>2. CASE track_positions
    <3>1. f.pos = f.col /\ q.pos = q.col
      BY <2>2 DEF IInv, TailInv, Truthful
    <3> QED BY <2>1, <2>2, <3>1 DEF MidPositions, MidColumns
  <2>3. CASE ~track_positions
    <3>1. /\ cumulative_length \in Nat /\ Len(recent) \in Nat /\ left = 0
          /\ Stream = cumulative_length
      BY LenProperties DEF IInv, PhaseInv, RingInv, Stream
    <3>2. Boundary = cumulative_length - Len(recent)
      <4>1. Boundary = cumulative_length - Len(recent) - 0
        BY <3>1 DEF Boundary
      <4> QED BY <3>1, <4>1
    <3>3. ~hh_enabled
      BY <2>3 DEF FifoOnly, track_positions, hh_enabled, lowrank_enabled, TL!hh_enabled
    <3>4. Len(hh.col) = 0
      <4>1. hh.col = <<>>
        BY <3>3 DEF IInv, EmptyInv, NoExact
      <4> QED BY <4>1, EmptyRun
    <3>5. Len(MidColumns) = Len(q.col) + Len(f.col) /\ Len(q.col) \in Nat /\ Len(f.col) \in Nat
      <4>1. q.col \in Seq(Int) /\ f.col \in Seq(Int)
        BY DEF IInv, TailInv, Typed
      <4> QED BY <4>1, LenProperties, ConcatProperties DEF MidColumns
    <3>6. TL!MidLen = Len(MidColumns)
      <4>1. TL!MidLen = (IF arm.hh_retain THEN Len(hh.col) ELSE 0) + Len(q.col) + Len(f.col)
        BY DEF TL!MidLen, TL!HhAttendedLen
      <4> QED BY <3>4, <3>5, <4>1
    <3>7. MidColumns = Arange(Boundary - Len(MidColumns), Len(MidColumns))
      BY <2>3 DEF IInv, RunEndsAt
    <3> QED BY <2>1, <2>3, <3>2, <3>6, <3>7 DEF MidPositions
  <2> QED BY <2>2, <2>3
<1> QED BY <1>1, Inductive, PTL

-----------------------------------------------------------------------------
(* The refinement: seen by its lengths alone, the layer is TierLengths.    *)

(* The numbers of columns an absorb adds and drops.                        *)
LEMMA BlockMaps ==
  ASSUME IInv, lowrank_enabled, arm' = arm, sink' = sink, NEW b \in Int, NEW m \in Nat, b = Boundary
  PROVE  /\ hh_enabled /\ AbsorbBlockSlash(Block(Arange(b, m), b)) => TL!AbsorbBlockSlash(m)
         /\ AbsorbBlockDirect(Block(Arange(b, m), b))
              => TL!AbsorbColumns(m) /\ hh' = hh
<1>1. /\ arm \in Arms /\ sink \in Seq(Int) /\ TailInv /\ ExactInv
      /\ Len(sink) <= b /\ Covered(b)
  BY DEF IInv, PhaseInv, RingInv
<1> QED BY <1>1, SlashKeeps, DirectKeeps

(* Graduation.                                                             *)
LEMMA GraduationMaps ==
  ASSUME IInv, AbsorbBlockIntoStream
  PROVE  TL!AbsorbBlockIntoStream
<1>1. PICK m \in Nat \ {0} : m = arm.absorb_block
  BY GraduationShape
<1>2. PICK b \in Int : b = Boundary
  BY GraduationShape
<1>3. /\ pc \in {"decode", "consolidate"} /\ Len(recent) >= TL!AbsorbAt
      /\ UNCHANGED <<arm, mode, pc, cumulative_length, left, sink, query_length, pred,
                     kv_length, returned, kernel_mid>>
  BY DEF AbsorbBlockIntoStream, control, forward, answer
<1>4. /\ Len(recent') = Len(recent) - m
      /\ \/ ~lowrank_enabled /\ UNCHANGED <<hh, tail>>
         \/ hh_enabled /\ AbsorbBlockSlash(Block(Arange(b, m), b))
         \/ lowrank_enabled /\ ~hh_enabled /\ AbsorbBlockDirect(Block(Arange(b, m), b))
  BY <1>1, <1>2, GraduationShape
<1>5. TL!Graduate(m)
  BY <1>4 DEF TL!Graduate
<1>6. \/ ~lowrank_enabled /\ UNCHANGED <<Len(hh.col), Len(f.col), Len(q.col)>>
      \/ hh_enabled /\ TL!AbsorbBlockSlash(m)
      \/ lowrank_enabled /\ ~hh_enabled /\ TL!AbsorbColumns(m) /\ UNCHANGED Len(hh.col)
  <2>1. hh_enabled => lowrank_enabled
    BY DEF hh_enabled, lowrank_enabled, TL!hh_enabled
  <2>2. CASE ~lowrank_enabled /\ UNCHANGED <<hh, tail>>
    BY <2>2 DEF tail
  <2>3. CASE hh_enabled /\ AbsorbBlockSlash(Block(Arange(b, m), b))
    BY <1>2, <1>3, <2>1, <2>3, BlockMaps
  <2>4. CASE lowrank_enabled /\ ~hh_enabled /\ AbsorbBlockDirect(Block(Arange(b, m), b))
    BY <1>2, <1>3, <2>4, BlockMaps
  <2> QED BY <1>4, <2>2, <2>3, <2>4
<1> QED BY <1>1, <1>3, <1>5, <1>6
    DEF TL!AbsorbBlockIntoStream, TL!report, TL!forward, TL!answer, lowrank_enabled, hh_enabled

(* The first forward.                                                      *)
LEMMA PrefillMaps ==
  ASSUME IInv, Prefill
  PROVE  TL!Prefill
<1>1. /\ Len(sink') = Lesser(arm.n_sink, query_length)
      /\ Len(recent') = Lesser(arm.recent_window, query_length - Len(sink'))
      /\ left' = IF lowrank_enabled THEN query_length - Len(sink') - Len(recent') ELSE 0
  BY PrefillShape
<1>2. /\ pc = "ready" /\ cumulative_length = 0 /\ kernel_mid' = 0 /\ pc' = "prefill"
      /\ UNCHANGED <<arm, mode, cumulative_length, hh, f, q, query_length, pred, kv_length,
                     returned>>
  BY DEF Prefill, forward, tail
<1> QED BY <1>1, <1>2 DEF TL!Prefill, TL!report, TL!forward, TL!Lesser, Lesser, lowrank_enabled

(* A block of the pre-fill.                                                *)
LEMMA PrefillBlockMaps ==
  ASSUME IInv, PrefillBlock
  PROVE  TL!PrefillBlock
<1>1. PICK m \in Nat : m = Lesser(arm.prefill_block_size, left) /\ left' = left - m
  BY PrefillBlockShape DEF IInv, PhaseInv
<1>2. PICK b \in Int : b = Boundary
  BY PrefillBlockShape
<1>3. /\ lowrank_enabled
      /\ IF arm.seed_hh_warmup /\ hh_enabled /\ mode = "ingest"
           THEN AbsorbBlockSlash(Block(Arange(b, m), b))
           ELSE AbsorbBlockDirect(Block(Arange(b, m), b))
  BY <1>1, <1>2, PrefillBlockShape
<1>4. /\ pc = "prefill" /\ left > 0
      /\ UNCHANGED <<arm, mode, pc, cumulative_length, query_length, pred, kv_length,
                     returned, kernel_mid, sink, recent>>
  BY DEF PrefillBlock, forward, answer
<1>5. IF arm.seed_hh_warmup /\ hh_enabled /\ mode = "ingest"
        THEN TL!AbsorbBlockSlash(m)
        ELSE TL!AbsorbColumns(m) /\ UNCHANGED Len(hh.col)
  BY <1>2, <1>3, <1>4, BlockMaps
<1>6. m = TL!Lesser(arm.prefill_block_size, left)
  BY <1>1 DEF Lesser, TL!Lesser
<1> QED BY <1>1, <1>4, <1>5, <1>6
    DEF TL!PrefillBlock, TL!report, TL!forward, TL!answer, hh_enabled

(* What is attended after the middle was rebuilt is what the tiers hold.   *)
LEMMA MidCacheLength ==
  ASSUME IInv, EnsureMidCache
  PROVE  /\ Len(mid_cache') = Len(q.col) + Len(f.col)
         /\ Len(q.col) \in Nat /\ Len(f.col) \in Nat
<1>1. mid_cache' = Reconstruction
  BY DEF IInv, MidCacheFresh, EnsureMidCache
<1>2. q.col \in Seq(Int) /\ f.col \in Seq(Int)
  BY DEF IInv, TailInv, Typed
<1>3. /\ MidColumns \in Seq(Int) /\ Len(MidColumns) = Len(q.col) + Len(f.col)
      /\ Len(q.col) \in Nat /\ Len(f.col) \in Nat
  BY <1>2, LenProperties, ConcatProperties DEF MidColumns
<1>4. DOMAIN MidColumns = 1 .. Len(q.col) + Len(f.col)
  BY <1>3, LenProperties
<1>5. PICK n \in Nat : n = Len(q.col) + Len(f.col)
  <2>1. \A x, y \in Nat : x + y \in Nat
    OBVIOUS
  <2> QED BY <1>3, <2>1
<1>6. Reconstruction \in [1 .. n -> [tok : {MidColumns[i] : i \in 1 .. n},
                                     pos : {MidPositions[i] : i \in 1 .. n}]]
  BY <1>4, <1>5 DEF Reconstruction
<1>7. Len(Reconstruction) = n
  BY <1>6, FunctionIsSeq
<1> QED BY <1>1, <1>3, <1>5, <1>7

(* The forwards that attend: scoring, ingest, decode.                      *)
LEMMA ForwardMaps ==
  ASSUME IInv
  PROVE  /\ ScoreForward => TL!ScoreForward
         /\ IngestChunk => TL!IngestChunk
         /\ DecodeStep => TL!DecodeStep
         /\ DecodeReturn => TL!DecodeReturn
<1>1. /\ cumulative_length \in Nat /\ query_length \in Nat /\ arm \in Arms
      /\ sink \in Seq(Int) /\ recent \in Seq(Int) /\ hh.col \in Seq(Int)
      /\ q.col \in Seq(Int) /\ f.col \in Seq(Int)
  BY DEF IInv, PhaseInv, RingInv, ExactInv, TailInv, Typed
<1>2. /\ Len(sink) \in Nat /\ Len(recent) \in Nat /\ Len(hh.col) \in Nat
      /\ Len(q.col) \in Nat /\ Len(f.col) \in Nat
  BY <1>1, LenProperties
<1>3. TL!HhAttendedLen \in Nat
  BY <1>2 DEF TL!HhAttendedLen
<1>4. TL!AttendedLength = Len(sink) + TL!HhAttendedLen + (Len(q.col) + Len(f.col)) + Len(recent)
  <2>1. TL!AttendedLength
          = Len(sink) + (TL!HhAttendedLen + Len(q.col) + Len(f.col)) + Len(recent)
    BY DEF TL!AttendedLength, TL!MidLen
  <2>2. PICK a \in Nat, b \in Nat, c \in Nat, d \in Nat, e \in Nat :
          /\ a = Len(sink) /\ b = TL!HhAttendedLen /\ c = Len(q.col) /\ d = Len(f.col)
          /\ e = Len(recent)
    BY <1>2, <1>3
  <2>3. a + (b + c + d) + e = a + b + (c + d) + e
    OBVIOUS
  <2> QED BY <2>1, <2>2, <2>3, Zenon
<1>5. Len(recent \o Prompt) = Len(recent) + query_length
  <2>1. Prompt \in Seq(Int) /\ Len(Prompt) = query_length
    BY <1>1, ArangeShape DEF Prompt
  <2> QED BY <1>1, <2>1, ConcatProperties
<1>6. ASSUME ScoreForward PROVE TL!ScoreForward
  <2>1. /\ pc = "ready" /\ cumulative_length > 0 /\ mode = "score" /\ EnsureMidCache
        /\ returned' = Len(sink) + TL!HhAttendedLen + Len(mid_cache') + Len(recent) + query_length
        /\ kernel_mid' = 0 /\ pc' = "idle" /\ query_length' = 0 /\ pred' = TL!NoPrediction
        /\ UNCHANGED <<kv_length, arm, mode, cumulative_length, left, sink, recent, hh, f, q>>
    BY <1>6 DEF ScoreForward, ForwardEnds, control, tail
  <2>2. returned' = TL!AttendedLength + query_length
    BY <1>4, <2>1, MidCacheLength
  <2> QED BY <2>1, <2>2 DEF TL!ScoreForward, TL!ForwardEnds, TL!tiers
<1>7. ASSUME IngestChunk PROVE TL!IngestChunk
  <2>1. /\ pc = "ready" /\ cumulative_length > 0 /\ mode = "ingest" /\ EnsureMidCache
        /\ recent' = recent \o Prompt /\ cumulative_length' = cumulative_length + query_length
        /\ returned' = Len(sink) + TL!HhAttendedLen + Len(mid_cache') + Len(recent')
        /\ kernel_mid' = 0 /\ pc' = "idle" /\ query_length' = 0 /\ pred' = TL!NoPrediction
        /\ UNCHANGED <<kv_length, arm, mode, left, sink, hh, f, q>>
    BY <1>7 DEF IngestChunk, ForwardEnds, tail
  <2>2. Len(recent') = Len(recent) + query_length
    BY <1>5, <2>1
  <2>3. returned' = TL!AttendedLength + query_length
    <3>1. returned' = Len(sink) + TL!HhAttendedLen + (Len(q.col) + Len(f.col))
                        + (Len(recent) + query_length)
      BY <2>1, <2>2, MidCacheLength
    <3>2. PICK a \in Nat, b \in Nat, c \in Nat, d \in Nat, e \in Nat, g \in Nat :
            /\ a = Len(sink) /\ b = TL!HhAttendedLen /\ c = Len(q.col) /\ d = Len(f.col)
            /\ e = Len(recent) /\ g = query_length
      BY <1>1, <1>2, <1>3
    <3>3. a + b + (c + d) + (e + g) = a + b + (c + d) + e + g
      OBVIOUS
    <3> QED BY <1>4, <3>1, <3>2, <3>3, Zenon
  <2> QED BY <2>1, <2>2, <2>3 DEF TL!IngestChunk, TL!ForwardEnds
<1>8. ASSUME DecodeStep PROVE TL!DecodeStep
  <2>1. /\ pc = "ready" /\ cumulative_length > 0 /\ mode = "normal" /\ query_length = 1
        /\ recent' = recent \o Prompt /\ cumulative_length' = cumulative_length + 1
        /\ kernel_mid' = 0 /\ pc' = "decode"
        /\ UNCHANGED <<arm, mode, left, query_length, pred, kv_length, returned, sink, hh, f, q>>
    BY <1>8 DEF DecodeStep, forward, tail
  <2>2. Len(recent') = Len(recent) + 1
    BY <1>5, <2>1
  <2> QED BY <2>1, <2>2 DEF TL!DecodeStep, TL!report, TL!forward
<1>9. ASSUME DecodeReturn PROVE TL!DecodeReturn
  <2>1. /\ pc = "decode" /\ Len(recent) < TL!AbsorbAt /\ pc' = "idle" /\ query_length' = 0
        /\ pred' = TL!NoPrediction
        /\ UNCHANGED <<kv_length, arm, mode, cumulative_length, left, sink, recent, hh, f, q>>
    BY <1>9 DEF DecodeReturn, ForwardEnds, control, tail
  <2>2. CASE arm.kernel
    <3>1. /\ kernel_mid' = Len(MidColumns)
          /\ returned' = Len(sink) + TL!HhAttendedLen + Len(recent)
      BY <1>9, <2>2 DEF DecodeReturn
    <3>2. Len(MidColumns) = Len(q.col) + Len(f.col)
      BY <1>1, ConcatProperties DEF MidColumns
    <3> QED BY <2>1, <2>2, <3>1, <3>2 DEF TL!DecodeReturn, TL!ForwardEnds, TL!tiers
  <2>3. CASE ~arm.kernel
    <3>1. /\ kernel_mid' = 0 /\ EnsureMidCache
          /\ returned' = Len(sink) + TL!HhAttendedLen + Len(mid_cache') + Len(recent)
      BY <1>9, <2>3 DEF DecodeReturn
    <3>2. returned' = TL!AttendedLength
      BY <1>4, <3>1, MidCacheLength
    <3> QED BY <2>1, <2>3, <3>1, <3>2 DEF TL!DecodeReturn, TL!ForwardEnds, TL!tiers
  <2> QED BY <2>2, <2>3
<1> QED BY <1>6, <1>7, <1>8, <1>9

(* The end of the pre-fill, and a reset.                                   *)
LEMMA ReturnAndResetMap ==
  ASSUME TRUE
  PROVE  /\ PrefillReturn => TL!PrefillReturn
         /\ Reset => TL!Reset
<1>1. ASSUME PrefillReturn PROVE TL!PrefillReturn
  BY <1>1 DEF PrefillReturn, ForwardEnds, tokens, tail, TL!PrefillReturn, TL!ForwardEnds, TL!tiers
<1>2. ASSUME Reset PROVE TL!Reset
  <2>1. /\ pc = "idle" /\ cumulative_length > 0 /\ mode' = "normal" /\ cumulative_length' = 0
        /\ sink' = <<>> /\ recent' = <<>> /\ hh'.col = <<>> /\ f'.col = <<>> /\ q'.col = <<>>
        /\ kv_length' = 0 /\ returned' = 0 /\ kernel_mid' = 0
        /\ UNCHANGED <<arm, pc, left, query_length, pred>>
    BY <1>2 DEF Reset, ClearTiers, EmptyTier
  <2>2. Len(<<>>) = 0
    BY EmptyRun
  <2> QED BY <2>1, <2>2 DEF TL!Reset
<1> QED BY <1>1, <1>2

(* Masks, consolidation and the modes are TierLengths' own steps.          *)
LEMMA CallsMap == MaskStep \/ IdleCall => TL!Next
BY DEF MaskStep, IdleCall, TL!Next, TL!Running

(* What changes nothing here changes no length.                            *)
LEMMA StutterMaps == UNCHANGED vars => UNCHANGED TL!vars
BY DEF vars, control, forward, answer, tokens, tail, TL!vars, TL!tiers, TL!report, TL!forward,
   TL!answer

(* Forget which token a column holds, keep how many each tier has: what    *)
(* the layer then does is what TierLengths allows, so that everything      *)
(* proved of TierLengths (budgets, masks, what is lost when) holds of the  *)
(* layer that really stores tokens.                                        *)
THEOREM RefinesTierLengths == Spec => Lengths
<1>1. Init => TL!Init
  BY DEF Init
<1>2. IInv /\ [Next]_vars => [TL!Next]_(TL!vars)
  <2> SUFFICES ASSUME IInv, [Next]_vars PROVE TL!Next \/ UNCHANGED TL!vars
    OBVIOUS
  <2>1. CASE MaskStep \/ IdleCall
    BY <2>1, CallsMap
  <2>2. CASE AbsorbBlockIntoStream
    BY <2>2, GraduationMaps DEF TL!Next, TL!Running
  <2>3. CASE Prefill
    BY <2>3, PrefillMaps DEF TL!Next, TL!Running
  <2>4. CASE PrefillBlock
    BY <2>4, PrefillBlockMaps DEF TL!Next, TL!Running
  <2>5. CASE ScoreForward \/ IngestChunk \/ DecodeStep \/ DecodeReturn
    BY <2>5, ForwardMaps DEF TL!Next, TL!Running
  <2>6. CASE PrefillReturn \/ Reset
    BY <2>6, ReturnAndResetMap DEF TL!Next, TL!Running
  <2>7. CASE UNCHANGED vars
    BY <2>7, StutterMaps
  <2> QED BY <2>1, <2>2, <2>3, <2>4, <2>5, <2>6, <2>7 DEF Next
<1> QED BY <1>1, <1>2, Inductive, PTL DEF Spec, Lengths, TL!Spec

-----------------------------------------------------------------------------
(* What TierLengths proves, of the layer that stores tokens.  TLP is the    *)
(* instance TL once more, with its theorems.                                *)
TLP == INSTANCE TierLengthsProofs WITH
         sink_len <- Len(sink), recent_len <- Len(recent),
         hh_len <- Len(hh.col), f_len <- Len(f.col), q_len <- Len(q.col)

LEMMA SameInit == TL!Init <=> TLP!Init
BY Zenon DEF
      TL!Init, TL!NoPrediction, TL!lowrank_enabled, TLP!Init, TLP!NoPrediction,
      TLP!lowrank_enabled

LEMMA SameVars == TL!vars = TLP!vars /\ TL!vars' = TLP!vars'
BY Zenon DEF
      TL!tiers, TL!forward, TL!report, TL!answer, TL!vars, TLP!tiers, TLP!forward, TLP!report,
      TLP!answer, TLP!vars

LEMMA SameNext == TL!Next <=> TLP!Next
BY ZenonT(60) DEF
      TL!Modes, TL!Lesser, TL!lowrank_enabled, TL!hh_enabled, TL!AbsorbAt, TL!HhAttendedLen,
      TL!MidLen, TL!AttendedLength, TL!MidCap, TL!NoPrediction, TL!ForwardEnds, TL!GetMaskSizes,
      TL!PostUpdateLengths, TL!ReportMaskSizes, TL!AbsorbColumns, TL!AbsorbBlockSlash,
      TL!Graduate, TL!AbsorbBlockIntoStream, TL!Prefill, TL!PrefillBlock, TL!PrefillReturn,
      TL!ScoreForward, TL!IngestChunk, TL!DecodeStep, TL!DecodeReturn, TL!UpdateRejected,
      TL!Consolidate, TL!ConsolidateReturn, TL!SetMode, TL!Reset, TL!Running, TL!Next, TL!tiers,
      TL!forward, TL!report, TL!answer, TL!vars, TLP!Modes, TLP!Lesser, TLP!lowrank_enabled,
      TLP!hh_enabled, TLP!AbsorbAt, TLP!HhAttendedLen, TLP!MidLen, TLP!AttendedLength,
      TLP!MidCap, TLP!NoPrediction, TLP!ForwardEnds, TLP!GetMaskSizes, TLP!PostUpdateLengths,
      TLP!ReportMaskSizes, TLP!AbsorbColumns, TLP!AbsorbBlockSlash, TLP!Graduate,
      TLP!AbsorbBlockIntoStream, TLP!Prefill, TLP!PrefillBlock, TLP!PrefillReturn,
      TLP!ScoreForward, TLP!IngestChunk, TLP!DecodeStep, TLP!DecodeReturn, TLP!UpdateRejected,
      TLP!Consolidate, TLP!ConsolidateReturn, TLP!SetMode, TLP!Reset, TLP!Running, TLP!Next,
      TLP!tiers, TLP!forward, TLP!report, TLP!answer, TLP!vars

(* The layer's lengths behave as TierLengths, for which its theorems hold.  *)
LEMMA LengthsBehave == Spec => TLP!Spec
<1>1. [TL!Next]_(TL!vars) => [TLP!Next]_(TLP!vars)
  BY SameNext, SameVars
<1>2. TL!Init => TLP!Init
  BY SameInit
<1> QED BY <1>1, <1>2, RefinesTierLengths, PTL DEF Lengths, TL!Spec, TLP!Spec

LEMMA LengthsMeant == MaxTokens \in Nat /\ \A a \in Arms : TLP!ValidArm(a)
BY LengthsAssumption DEF TLP!ValidArm, TL!ValidArm

(* get_mask_sizes and update agree on the number of keys, for the keys that *)
(* are really stored.                                                       *)
THEOREM LayerMask == Spec => []TL!MaskAgrees
<1>1. TLP!Spec => []TLP!MaskAgrees
  BY LengthsMeant, TLP!MaskCorrect
<1>2. TLP!MaskAgrees => TL!MaskAgrees
  BY Zenon DEF
      TL!MaskAgrees, TLP!MaskAgrees
<1> QED BY <1>1, <1>2, LengthsBehave, PTL

(* While a tier of the tail has a free column, no stored token was dropped. *)
THEOREM LayerHistory == Spec => []TL!NothingLostEarly
<1>1. TLP!Spec => []TLP!NothingLostEarly
  BY LengthsMeant, TLP!HistoryKept
<1>2. TLP!NothingLostEarly => TL!NothingLostEarly
  BY Zenon DEF
      TL!NothingLostEarly, TL!Given, TL!Lost, TL!lowrank_enabled, TLP!NothingLostEarly,
      TLP!Given, TLP!Lost, TLP!lowrank_enabled
<1> QED BY <1>1, <1>2, LengthsBehave, PTL

(* What the layer stores when a call returns is bounded by the budgets,     *)
(* whatever the stream.                                                     *)
THEOREM LayerMemory == Spec => TL!ConstantMemory
<1>1. TLP!Spec => TLP!ConstantMemory
  BY LengthsMeant, TLP!MemoryBounded
<1>2. TLP!BoundedOnReturn => TL!BoundedOnReturn
  BY Zenon DEF
      TL!BoundedOnReturn, TL!StoredBound, TLP!BoundedOnReturn, TLP!StoredBound
<1>3. [TLP!BoundedOnReturn]_(TLP!vars) => [TL!BoundedOnReturn]_(TL!vars)
  BY <1>2, SameVars
<1> QED BY <1>1, <1>3, LengthsBehave, PTL DEF TL!ConstantMemory, TLP!ConstantMemory
=============================================================================
