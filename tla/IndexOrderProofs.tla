-------------------------- MODULE IndexOrderProofs --------------------------
(***************************************************************************)
(* Facts about index tensors: sorted selections (Ascending) and runs of    *)
(* positions (Arange), with the arithmetic of blocks they rest on.         *)
(***************************************************************************)
EXTENDS IndexOrder, FiniteSetTheorems, SequenceTheorems, TLAPS

(* A function on 1..n is a sequence of length n.                          *)
LEMMA FunctionIsSeq ==
  ASSUME NEW S, NEW n \in Nat, NEW f \in [1 .. n -> S]
  PROVE  f \in Seq(S) /\ Len(f) = n /\ DOMAIN f = 1 .. n
<1>1. f \in UNION {[1 .. m -> S] : m \in Nat}
  OBVIOUS
<1>2. f \in Seq(S)
  BY <1>1, SeqDef, Zenon
<1>3. DOMAIN f = 1 .. n /\ DOMAIN f = 1 .. Len(f) /\ Len(f) \in Nat
  BY <1>2, LenProperties
<1>4. Len(f) = n
  BY <1>3
<1> QED BY <1>2, <1>3, <1>4

(* Multiplication by a count keeps the order.                              *)
LEMMA ProductGrows ==
  ASSUME NEW a \in Int, NEW b \in Int, NEW c \in Nat, a <= b
  PROVE  a * c \in Int /\ b * c \in Int /\ a * c <= b * c
OBVIOUS

(* Division splits an index into a block and an offset in it.              *)
LEMMA DivMod ==
  ASSUME NEW i \in Nat, NEW c \in Nat \ {0}
  PROVE  /\ i \div c \in Nat /\ i % c \in 0 .. c - 1
         /\ i = (i \div c) * c + (i % c)
OBVIOUS

(* Indices in blocks of c are ordered by block, then by offset.            *)
LEMMA MixedRadixOrder ==
  ASSUME NEW c \in Nat \ {0}, NEW o \in Nat, NEW p \in Nat, NEW r \in 0 .. c - 1,
         NEW s \in 0 .. c - 1, o < p \/ (o = p /\ r < s)
  PROVE  o * c + r < p * c + s
<1>1. CASE o < p
  <2>1. (o + 1) * c <= p * c
    BY <1>1, ProductGrows
  <2>2. (o + 1) * c = o * c + c /\ o * c \in Nat /\ p * c \in Nat
    OBVIOUS
  <2> QED BY <2>1, <2>2
<1>2. CASE o = p /\ r < s
  BY <1>2
<1> QED BY <1>1, <1>2

(* A counter taken modulo d returns to 0 after d - 1, and counts up        *)
(* otherwise.                                                              *)
LEMMA NextModulo ==
  ASSUME NEW a \in Nat, NEW d \in Nat \ {0}
  PROVE  /\ a % d \in 0 .. d - 1
         /\ (a + 1) % d = 0 => a % d = d - 1
         /\ (a + 1) % d # 0 => (a + 1) % d = (a % d) + 1
<1> DEFINE q == a \div d
           r == a % d
           p == (a + 1) \div d
           s == (a + 1) % d
<1>1. /\ q \in Nat /\ r \in 0 .. d - 1 /\ a = q * d + r
      /\ p \in Nat /\ s \in 0 .. d - 1 /\ a + 1 = p * d + s
  <2>1. a \in Nat /\ a + 1 \in Nat
    OBVIOUS
  <2> QED BY <2>1, DivMod
<1> HIDE DEF q, r, p, s
<1>2. \A u, v \in Nat, x, y \in 0 .. d - 1 :
         u * d + x = v * d + y => u = v /\ x = y
  <2> SUFFICES ASSUME NEW u \in Nat, NEW v \in Nat, NEW x \in 0 .. d - 1, NEW y \in 0 .. d - 1,
                      u * d + x = v * d + y
               PROVE  u = v /\ x = y
    OBVIOUS
  <2>1. u * d + x \in Int /\ v * d + y \in Int
    OBVIOUS
  <2>2. ~(u < v) /\ ~(v < u)
    <3>1. u < v => u * d + x < v * d + y
      BY MixedRadixOrder
    <3>2. v < u => v * d + y < u * d + x
      BY MixedRadixOrder
    <3> QED BY <2>1, <3>1, <3>2
  <2>3. u = v
    BY <2>2
  <2> QED BY <2>1, <2>3
<1>3. CASE r + 1 < d
  <2>1. r + 1 \in 0 .. d - 1 /\ q * d + (r + 1) = p * d + s
    BY <1>1, <1>3
  <2>2. s = r + 1
    BY <1>1, <1>2, <2>1
  <2> QED BY <1>1, <2>2 DEF r, s
<1>4. CASE ~(r + 1 < d)
  <2>1. r = d - 1 /\ 0 \in 0 .. d - 1
    BY <1>1, <1>4
  <2>2. (q + 1) * d + 0 = p * d + s /\ q + 1 \in Nat
    BY <1>1, <2>1
  <2>3. s = 0
    BY <1>1, <1>2, <2>1, <2>2
  <2> QED BY <1>1, <2>1, <2>3 DEF r, s
<1> QED BY <1>3, <1>4

(* A larger element has more elements before it.                           *)
LEMMA RankGrows ==
  ASSUME NEW I \in SUBSET Int, IsFiniteSet(I), NEW x \in I, NEW y \in I, x < y
  PROVE  Rank(I, x) < Rank(I, y)
<1> DEFINE A == {z \in I : z < x}
           B == {z \in I : z < y}
<1>1. IsFiniteSet(A) /\ IsFiniteSet(B)
  BY FS_Subset
<1>2. A \in SUBSET B /\ x \in B /\ x \notin A
  <2>1. ASSUME NEW z \in A PROVE z \in B
    OBVIOUS
  <2>2. x \in B /\ x \notin A
    OBVIOUS
  <2> QED BY <2>1, <2>2
<1>3. Cardinality(A) \in Nat /\ Cardinality(B) \in Nat
  BY <1>1, FS_CardinalityType
<1>4. Cardinality(A) <= Cardinality(B) /\ Cardinality(A) # Cardinality(B)
  <2> HIDE DEF A, B
  <2> QED BY <1>1, <1>2, FS_Subset
<1> HIDE DEF A, B
<1>5. Cardinality(A) < Cardinality(B)
  BY <1>3, <1>4
<1> QED BY <1>5 DEF Rank, A, B

(* A rank is below the number of elements.                                 *)
LEMMA RankBounded ==
  ASSUME NEW I \in SUBSET Int, IsFiniteSet(I), NEW x \in I
  PROVE  Rank(I, x) \in 0 .. Cardinality(I) - 1
<1> DEFINE A == {z \in I : z < x}
<1>1. IsFiniteSet(A) /\ A \in SUBSET I /\ x \notin A
  BY FS_Subset
<1>2. Cardinality(A) \in Nat /\ Cardinality(I) \in Nat
  BY <1>1, FS_CardinalityType
<1>3. Cardinality(A) <= Cardinality(I) /\ Cardinality(A) # Cardinality(I)
  <2> HIDE DEF A
  <2> QED BY <1>1, FS_Subset
<1> HIDE DEF A
<1>4. Cardinality(A) \in 0 .. Cardinality(I) - 1
  BY <1>2, <1>3
<1> QED BY <1>4 DEF Rank, A

(* Every rank below the number of elements is taken: the least rank not    *)
(* taken would have none before it.                                        *)
LEMMA EveryRankTaken ==
  ASSUME NEW I \in SUBSET Int, IsFiniteSet(I), NEW r \in 0 .. Cardinality(I) - 1
  PROVE  \E x \in I : Rank(I, x) = r
<1> DEFINE n == Cardinality(I)
           rank == [x \in I |-> Rank(I, x)]
<1>1. n \in Nat
  BY FS_CardinalityType
<1>2. rank \in [I -> 0 .. n - 1]
  BY RankBounded
<1>3. \A x, y \in I : rank[x] = rank[y] => x = y
  <2> SUFFICES ASSUME NEW x \in I, NEW y \in I, x # y PROVE rank[x] # rank[y]
    OBVIOUS
  <2>1. rank[x] \in Int /\ rank[y] \in Int
    BY <1>1, <1>2
  <2>2. CASE x < y
    BY <2>1, <2>2, RankGrows
  <2>3. CASE y < x
    BY <2>1, <2>3, RankGrows
  <2> QED BY <2>2, <2>3
<1>4. rank \in Injection(I, 0 .. n - 1)
  <2> HIDE DEF rank
  <2> QED BY <1>2, <1>3 DEF Injection, IsInjective
<1>5. IsFiniteSet(0 .. n - 1) /\ Cardinality(0 .. n - 1) = n
  BY <1>1, FS_Interval
<1>6. rank \in Surjection(I, 0 .. n - 1)
  <2> HIDE DEF rank, n
  <2> QED BY <1>4, <1>5, FS_Injection DEF n
<1> QED BY <1>6 DEF Surjection

(* Ascending sorts: it is strictly increasing and lists each element once. *)
LEMMA AscendingSorts ==
  ASSUME NEW I \in SUBSET Int, IsFiniteSet(I)
  PROVE  /\ Ascending(I) \in [1 .. Cardinality(I) -> I]
         /\ \A r \in 1 .. Cardinality(I) : Rank(I, Ascending(I)[r]) = r - 1
         /\ \A r, s \in 1 .. Cardinality(I) : r < s => Ascending(I)[r] < Ascending(I)[s]
         /\ \A x \in I : \E r \in 1 .. Cardinality(I) : Ascending(I)[r] = x
<1> DEFINE n == Cardinality(I)
           A == Ascending(I)
<1>0. n \in Nat
  BY FS_CardinalityType
<1>1. ASSUME NEW r \in 1 .. n
      PROVE  A[r] \in I /\ Rank(I, A[r]) = r - 1
  <2>1. r - 1 \in 0 .. n - 1
    BY <1>0
  <2>2. \E x \in I : Rank(I, x) = r - 1
    BY <2>1, EveryRankTaken
  <2>3. A[r] = CHOOSE x \in I : Rank(I, x) = r - 1
    BY DEF Ascending
  <2> HIDE DEF A
  <2> QED BY <2>2, <2>3
<1>2. A \in [1 .. n -> I]
  <2>1. A = [r \in 1 .. n |-> A[r]]
    BY DEF Ascending
  <2> HIDE DEF A, n
  <2> QED BY <1>1, <2>1
<1>3. ASSUME NEW x \in I, NEW y \in I, Rank(I, x) <= Rank(I, y)
      PROVE  x <= y
  <2>1. Rank(I, x) \in 0 .. n - 1 /\ Rank(I, y) \in 0 .. n - 1
    BY RankBounded
  <2>2. Rank(I, x) \in Int /\ Rank(I, y) \in Int
    BY <1>0, <2>1
  <2>3. CASE y < x
    BY <1>3, <2>2, <2>3, RankGrows
  <2> QED BY <2>3
<1>4. ASSUME NEW r \in 1 .. n, NEW s \in 1 .. n, r < s
      PROVE  A[r] < A[s]
  <2>1. A[r] \in I /\ A[s] \in I /\ Rank(I, A[r]) = r - 1 /\ Rank(I, A[s]) = s - 1
    BY <1>1
  <2> HIDE DEF A, n
  <2>2. Rank(I, A[r]) <= Rank(I, A[s]) /\ Rank(I, A[r]) # Rank(I, A[s])
    BY <1>0, <1>4, <2>1
  <2>3. A[r] <= A[s]
    BY <1>3, <2>1, <2>2
  <2>4. A[r] # A[s]
    BY <2>2
  <2>5. A[r] \in Int /\ A[s] \in Int
    BY <2>1
  <2> QED BY <2>3, <2>4, <2>5
<1>5. ASSUME NEW x \in I
      PROVE  \E r \in 1 .. n : A[r] = x
  <2>1. Rank(I, x) \in 0 .. n - 1
    BY RankBounded
  <2>2. Rank(I, x) + 1 \in 1 .. n
    BY <1>0, <2>1
  <2>3. A[Rank(I, x) + 1] \in I /\ Rank(I, A[Rank(I, x) + 1]) = Rank(I, x)
    BY <1>0, <1>1, <2>1, <2>2
  <2>4. A[Rank(I, x) + 1] = x
    <3> DEFINE y == A[Rank(I, x) + 1]
    <3>1. y \in I /\ Rank(I, y) = Rank(I, x) /\ Rank(I, x) \in Int
      BY <1>0, <2>1, <2>3
    <3> HIDE DEF y
    <3>2. y <= x /\ x <= y
      BY <1>3, <3>1
    <3>3. y = x
      BY <3>1, <3>2
    <3> QED BY <3>3 DEF y
  <2> QED BY <2>2, <2>4
<1> QED BY <1>1, <1>2, <1>4, <1>5

(* The positions of a run, sorted, are the run.                            *)
LEMMA AscendingInterval ==
  ASSUME NEW a \in Int, NEW m \in Nat
  PROVE  Ascending(a .. a + m - 1) = Arange(a, m)
<1> DEFINE I == a .. a + m - 1
           A == Ascending(I)
<1>1. IsFiniteSet(I) /\ Cardinality(I) = m /\ I \in SUBSET Int
  BY FS_Interval
<1>2. ASSUME NEW x \in I PROVE Rank(I, x) = x - a
  <2>1. {y \in I : y < x} = a .. x - 1
    OBVIOUS
  <2>2. Cardinality(a .. x - 1) = x - a
    <3>1. x \in Int /\ x - 1 \in Int /\ a <= x
      OBVIOUS
    <3>2. Cardinality(a .. x - 1) = IF a > x - 1 THEN 0 ELSE (x - 1) - a + 1
      BY <3>1, FS_Interval
    <3> QED BY <3>1, <3>2
  <2> QED BY <2>1, <2>2 DEF Rank
<1>3. ASSUME NEW r \in 1 .. m PROVE A[r] = a + r - 1
  <2>1. A[r] \in I /\ Rank(I, A[r]) = r - 1
    <3> HIDE DEF I
    <3> QED BY <1>1, AscendingSorts
  <2>2. Rank(I, A[r]) = A[r] - a
    BY <1>2, <2>1
  <2> HIDE DEF A
  <2> QED BY <2>1, <2>2
<1>4. A = [r \in 1 .. m |-> A[r]]
  BY <1>1 DEF Ascending
<1> HIDE DEF A
<1> QED BY <1>3, <1>4 DEF Arange, A, I

(* A set of numbers with an element has a least one.                       *)
LEMMA LeastElement ==
  ASSUME NEW S \in SUBSET Nat, S # {}
  PROVE  \E x \in S : \A y \in S : x <= y
<1> DEFINE R == {p \in Nat \X Nat : p[1] < p[2]}
<1>1. IsWellFoundedOn(R, Nat)
  BY NatLessThanWellFounded DEF OpToRel
<1>2. \A i, j \in Nat : i < j => <<i, j>> \in R
  OBVIOUS
<1> HIDE DEF R
<1>3. PICK x \in S : \A y \in S : ~(<<y, x>> \in R)
  BY <1>1, WFMin
<1>4. \A y \in S : ~(y < x)
  BY <1>2, <1>3, Zenon
<1> QED BY <1>3, <1>4

(* A run of m positions from a.                                            *)
LEMMA ArangeShape ==
  ASSUME NEW a \in Int, NEW m \in Nat
  PROVE  /\ Arange(a, m) \in Seq(Int) /\ Len(Arange(a, m)) = m
         /\ DOMAIN Arange(a, m) = 1 .. m
         /\ \A i \in 1 .. m : Arange(a, m)[i] = a + i - 1
BY DEF Arange

(* A run and the run that follows it.                                      *)
LEMMA ArangeConcat ==
  ASSUME NEW a \in Int, NEW m \in Nat, NEW k \in Nat
  PROVE  Arange(a, m) \o Arange(a + m, k) = Arange(a, m + k)
<1> DEFINE s == Arange(a, m)
           t == Arange(a + m, k)
           u == Arange(a, m + k)
<1>1. /\ s \in Seq(Int) /\ Len(s) = m /\ \A i \in 1 .. m : s[i] = a + i - 1
      /\ t \in Seq(Int) /\ Len(t) = k /\ \A i \in 1 .. k : t[i] = (a + m) + i - 1
      /\ u \in Seq(Int) /\ Len(u) = m + k /\ \A i \in 1 .. m + k : u[i] = a + i - 1
  BY ArangeShape
<1> HIDE DEF s, t, u
<1>2. /\ s \o t \in Seq(Int) /\ Len(s \o t) = m + k
      /\ \A i \in 1 .. m + k : (s \o t)[i] = IF i <= m THEN s[i] ELSE t[i - m]
  BY <1>1, ConcatProperties
<1>3. ASSUME NEW i \in 1 .. m + k PROVE (s \o t)[i] = u[i]
  <2>1. CASE i <= m
    BY <1>1, <1>2, <2>1
  <2>2. CASE ~(i <= m)
    <3>1. i - m \in 1 .. k /\ u[i] = (a + m) + (i - m) - 1
      BY <1>1, <2>2
    <3>2. (s \o t)[i] = t[i - m]
      BY <1>2, <2>2
    <3> QED BY <1>1, <3>1, <3>2
  <2> QED BY <2>1, <2>2
<1>4. s \o t = u
  BY <1>1, <1>2, <1>3, SeqEqual
<1> QED BY <1>4 DEF s, t, u

(* A slice of a run is a run.                                              *)
LEMMA ArangeSlice ==
  ASSUME NEW a \in Int, NEW m \in Nat, NEW i \in 1 .. m + 1, NEW j \in i - 1 .. m
  PROVE  SubSeq(Arange(a, m), i, j) = Arange(a + i - 1, j - i + 1)
<1> DEFINE s == Arange(a, m)
           t == SubSeq(s, i, j)
           u == Arange(a + i - 1, j - i + 1)
<1>1. /\ s \in Seq(Int) /\ Len(s) = m /\ \A k \in 1 .. m : s[k] = a + k - 1
      /\ u \in Seq(Int) /\ Len(u) = j - i + 1
      /\ \A k \in 1 .. j - i + 1 : u[k] = (a + i - 1) + k - 1
  <2>1. a + i - 1 \in Int /\ j - i + 1 \in Nat
    OBVIOUS
  <2> QED BY <2>1, ArangeShape
<1> HIDE DEF s, u
<1>2. t \in Seq(Int) /\ Len(t) = j - i + 1 /\ \A k \in 1 .. j - i + 1 : t[k] = s[i + k - 1]
  BY <1>1
<1>3. \A k \in 1 .. j - i + 1 : t[k] = u[k]
  BY <1>1, <1>2
<1>4. t = u
  <2> HIDE DEF t
  <2> QED BY <1>1, <1>2, <1>3, SeqEqual
<1> QED BY <1>4 DEF s, t, u

-----------------------------------------------------------------------------
(* What a stable argsort leaves.                                           *)

Above(score, S, x) == {j \in S : Outlasts(score, j, x)}

\* A score for each of N columns, and some of them.
Scored(score, N) == N \in Nat /\ score \in [1 .. N -> Int]
Among(S, N) == S \in SUBSET (1 .. N)

(* What outlasts a column that is outlasted, outlasts more.                 *)
LEMMA AboveFacts ==
  ASSUME NEW N, NEW score, Scored(score, N), NEW S, Among(S, N)
  PROVE  /\ IsFiniteSet(S) /\ Cardinality(S) \in Nat
         /\ \A x \in 1 .. N :
              /\ IsFiniteSet(Above(score, S, x)) /\ Cardinality(Above(score, S, x)) \in Nat
              /\ x \notin Above(score, S, x)
         /\ \A x, y \in 1 .. N : x = y \/ Outlasts(score, x, y) \/ Outlasts(score, y, x)
         /\ \A x, y \in 1 .. N : Outlasts(score, x, y) => ~Outlasts(score, y, x)
         /\ \A x, y \in 1 .. N : Outlasts(score, x, y) =>
              Above(score, S, x) \subseteq Above(score, S, y)
         /\ \A x \in S, y \in 1 .. N : Outlasts(score, x, y) =>
              Cardinality(Above(score, S, x)) < Cardinality(Above(score, S, y))
<1>0. N \in Nat /\ score \in [1 .. N -> Int] /\ S \in SUBSET (1 .. N)
  BY DEF Scored, Among
<1> USE <1>0
<1>1. IsFiniteSet(S) /\ Cardinality(S) \in Nat
  <2>1. IsFiniteSet(1 .. N)
    BY FS_Interval
  <2> QED BY <2>1, FS_Subset, FS_CardinalityType
<1>2. \A x \in 1 .. N : score[x] \in Int /\ x \in Int
  OBVIOUS
<1>3. ASSUME NEW x \in 1 .. N
      PROVE  /\ IsFiniteSet(Above(score, S, x)) /\ Cardinality(Above(score, S, x)) \in Nat
             /\ x \notin Above(score, S, x)
  <2>1. Above(score, S, x) \subseteq S
    BY DEF Above
  <2>2. x \notin Above(score, S, x)
    BY <1>2 DEF Above, Outlasts
  <2> QED BY <1>1, <2>1, <2>2, FS_Subset, FS_CardinalityType
<1>4. \A x, y \in 1 .. N : x = y \/ Outlasts(score, x, y) \/ Outlasts(score, y, x)
  BY <1>2 DEF Outlasts
<1>5. \A x, y \in 1 .. N : Outlasts(score, x, y) => ~Outlasts(score, y, x)
  BY <1>2 DEF Outlasts
<1>6. ASSUME NEW x \in 1 .. N, NEW y \in 1 .. N, Outlasts(score, x, y)
      PROVE  Above(score, S, x) \subseteq Above(score, S, y)
  <2>1. \A j \in 1 .. N : Outlasts(score, j, x) => Outlasts(score, j, y)
    BY <1>2, <1>6 DEF Outlasts
  <2> QED BY <2>1 DEF Above
<1>7. ASSUME NEW x \in S, NEW y \in 1 .. N, Outlasts(score, x, y)
      PROVE  Cardinality(Above(score, S, x)) < Cardinality(Above(score, S, y))
  <2>1. x \in 1 .. N
    OBVIOUS
  <2>2. Above(score, S, x) \subseteq Above(score, S, y)
    BY <1>6, <1>7, <2>1
  <2>3. x \in Above(score, S, y) /\ x \notin Above(score, S, x)
    BY <1>3, <1>7, <2>1 DEF Above
  <2>4. Above(score, S, x) # Above(score, S, y)
    BY <2>3
  <2>5. IsFiniteSet(Above(score, S, y))
    BY <1>3
  <2>6. /\ Cardinality(Above(score, S, x)) \in Nat /\ Cardinality(Above(score, S, y)) \in Nat
        /\ Cardinality(Above(score, S, x)) <= Cardinality(Above(score, S, y))
        /\ Cardinality(Above(score, S, x)) # Cardinality(Above(score, S, y))
    BY <1>3, <2>1, <2>2, <2>4, <2>5, FS_Subset
  <2> QED BY <2>6
<1> QED BY <1>1, <1>3, <1>4, <1>5, <1>6, <1>7

(* Once anything is left out, the top is full, and everything in it         *)
(* outlasts everything left out.                                            *)
LEMMA TopFills ==
  ASSUME NEW N, NEW score, Scored(score, N), NEW S, Among(S, N),
         NEW k \in Nat, NEW z \in S, z \notin Top(score, S, k)
  PROVE  /\ Top(score, S, k) \subseteq Above(score, S, z)
         /\ IsFiniteSet(Top(score, S, k)) /\ Cardinality(Top(score, S, k)) = k
<1>0. N \in Nat /\ score \in [1 .. N -> Int] /\ S \in SUBSET (1 .. N)
  BY DEF Scored, Among
<1> USE <1>0
<1> DEFINE T == Top(score, S, k)
           count(x) == Cardinality(Above(score, S, x))
<1>1. T \subseteq S /\ \A x \in S : x \in T <=> count(x) < k
  BY DEF Top, Above
<1>2. /\ \A x \in S : IsFiniteSet(Above(score, S, x)) /\ count(x) \in Nat
      /\ \A x, y \in S : x = y \/ Outlasts(score, x, y) \/ Outlasts(score, y, x)
      /\ \A x, y \in S : Outlasts(score, x, y) => count(x) < count(y)
  BY AboveFacts
<1>3. IsFiniteSet(S) /\ IsFiniteSet(T) /\ Cardinality(T) \in Nat
  <2>1. IsFiniteSet(S)
    BY AboveFacts
  <2> HIDE DEF T
  <2> QED BY <1>1, <2>1, FS_Subset, FS_CardinalityType
<1> HIDE DEF T, count
<1>4. ASSUME NEW x \in S, x \notin T PROVE T \subseteq Above(score, S, x)
  <2> SUFFICES ASSUME NEW y \in T PROVE Outlasts(score, y, x)
    BY <1>1 DEF Above
  <2>1. count(y) < k /\ ~(count(x) < k) /\ y \in S
    BY <1>1, <1>4
  <2>2. CASE Outlasts(score, x, y)
    <3>1. count(x) < count(y)
      BY <1>2, <1>4, <2>1, <2>2
    <3> QED BY <1>2, <1>4, <2>1, <3>1
  <2> QED BY <1>2, <1>4, <2>1, <2>2
<1>5. k <= Cardinality(T)
  <2> DEFINE counts == {count(x) : x \in S \ T}
  <2>1. counts \in SUBSET Nat /\ counts # {}
    BY <1>2 DEF T
  <2> HIDE DEF counts
  <2>2. PICK c \in counts : \A d \in counts : c <= d
    BY <2>1, LeastElement
  <2>3. PICK w \in S \ T : count(w) = c
    BY <2>2 DEF counts
  <2>4. Above(score, S, w) \subseteq T
    <3> SUFFICES ASSUME NEW y \in S, Outlasts(score, y, w) PROVE y \in T
      BY DEF Above
    <3>1. count(y) < count(w)
      BY <1>2, <2>3
    <3>2. y \notin T => count(y) \in counts
      BY DEF counts
    <3>3. y \notin T => count(w) <= count(y)
      BY <2>2, <2>3, <3>2
    <3> QED BY <1>2, <2>3, <3>1, <3>3
  <2>5. ~(count(w) < k) /\ count(w) \in Nat
    BY <1>1, <1>2, <2>3
  <2>6. count(w) <= Cardinality(T)
    BY <1>3, <2>4, FS_Subset DEF count
  <2> QED BY <1>3, <2>5, <2>6
<1>6. Cardinality(T) <= k
  <2>1. CASE T = {}
    BY <2>1, FS_EmptySet
  <2>2. CASE T # {}
    <3> DEFINE gaps == {k - count(x) : x \in T}
    <3>1. gaps \in SUBSET Nat /\ gaps # {}
      <4>1. \A x \in T : k - count(x) \in Nat
        BY <1>1, <1>2
      <4> QED BY <2>2, <4>1
    <3> HIDE DEF gaps
    <3>2. PICK g \in gaps : \A d \in gaps : g <= d
      BY <3>1, LeastElement
    <3>3. PICK w \in T : g = k - count(w)
      BY <3>2 DEF gaps
    <3>4. T \ {w} \subseteq Above(score, S, w)
      <4> SUFFICES ASSUME NEW y \in T, y # w PROVE Outlasts(score, y, w)
        BY <1>1 DEF Above
      <4>1. k - count(w) <= k - count(y)
        BY <3>2, <3>3 DEF gaps
      <4>2. count(y) \in Nat /\ count(w) \in Nat
        BY <1>1, <1>2
      <4>3. ~(count(w) < count(y))
        BY <4>1, <4>2
      <4> QED BY <1>1, <1>2, <4>3
    <3>5. count(w) \in Nat /\ count(w) < k /\ IsFiniteSet(Above(score, S, w))
      BY <1>1, <1>2
    <3>6. IsFiniteSet(T \ {w}) /\ Cardinality(T \ {w}) = Cardinality(T) - 1
      BY <1>3, FS_RemoveElement
    <3>7. Cardinality(T \ {w}) <= count(w)
      BY <3>4, <3>5, FS_Subset DEF count
    <3> QED BY <1>3, <3>5, <3>6, <3>7
  <2> QED BY <2>1, <2>2
<1>7. z \notin T
  BY DEF T
<1>8. T \subseteq Above(score, S, z)
  BY <1>4, <1>7
<1>9. Cardinality(T) = k
  BY <1>3, <1>5, <1>6
<1> QED BY <1>3, <1>8, <1>9 DEF T

(* Keeping the top of what an earlier, no smaller top left, and of what     *)
(* came since, is keeping the top of everything.                            *)
LEMMA TopOfTop ==
  ASSUME NEW N, NEW score, Scored(score, N), NEW S, Among(S, N), NEW U, Among(U, N),
         NEW k \in Nat, NEW l \in Nat, l <= k
  PROVE  Top(score, Top(score, S, k) \cup U, l) = Top(score, S \cup U, l)
<1>0. /\ N \in Nat /\ score \in [1 .. N -> Int]
      /\ S \in SUBSET (1 .. N) /\ U \in SUBSET (1 .. N)
  BY DEF Scored, Among
<1> USE <1>0
<1> DEFINE Z == S \cup U
           T == Top(score, S, k)
           Y == T \cup U
<1>1. /\ T \subseteq S /\ \A x \in S : x \in T <=> Cardinality(Above(score, S, x)) < k
      /\ \A x : x \in Top(score, Y, l) <=> x \in Y /\ Cardinality(Above(score, Y, x)) < l
      /\ \A x : x \in Top(score, Z, l) <=> x \in Z /\ Cardinality(Above(score, Z, x)) < l
  BY DEF Top, Above
<1>2. Y \in SUBSET (1 .. N) /\ Z \in SUBSET (1 .. N) /\ Y \subseteq Z /\ S \subseteq Z
      /\ Among(Y, N) /\ Among(Z, N)
  BY <1>1 DEF Among
<1>3. ASSUME NEW x \in 1 .. N
      PROVE  /\ IsFiniteSet(Above(score, S, x)) /\ IsFiniteSet(Above(score, Y, x))
             /\ IsFiniteSet(Above(score, Z, x))
             /\ Cardinality(Above(score, S, x)) \in Nat
             /\ Cardinality(Above(score, Y, x)) \in Nat
             /\ Cardinality(Above(score, Z, x)) \in Nat
             /\ Cardinality(Above(score, S, x)) <= Cardinality(Above(score, Z, x))
             /\ Cardinality(Above(score, Y, x)) <= Cardinality(Above(score, Z, x))
  <2>1. /\ Above(score, S, x) \subseteq Above(score, Z, x)
        /\ Above(score, Y, x) \subseteq Above(score, Z, x)
    BY <1>2 DEF Above
  <2>2. /\ IsFiniteSet(Above(score, S, x)) /\ Cardinality(Above(score, S, x)) \in Nat
    BY AboveFacts
  <2> HIDE DEF Y, Z
  <2>3. /\ IsFiniteSet(Above(score, Y, x)) /\ Cardinality(Above(score, Y, x)) \in Nat
    BY <1>2, AboveFacts
  <2>4. /\ IsFiniteSet(Above(score, Z, x)) /\ Cardinality(Above(score, Z, x)) \in Nat
    BY <1>2, AboveFacts
  <2> QED BY <2>1, <2>2, <2>3, <2>4, FS_Subset
<1>4. ASSUME NEW x \in Top(score, Z, l) PROVE x \in Top(score, Y, l)
  <2>1. x \in Z /\ x \in 1 .. N /\ Cardinality(Above(score, Z, x)) < l
    BY <1>1, <1>2
  <2>2. x \in S => Cardinality(Above(score, S, x)) < k
    <3> HIDE DEF Z
    <3> QED BY <1>3, <2>1
  <2>3. x \in Y
    BY <1>1, <2>1, <2>2
  <2> HIDE DEF Y, Z
  <2>4. Cardinality(Above(score, Y, x)) < l
    BY <1>3, <2>1
  <2> QED BY <1>1, <2>3, <2>4
<1>5. ASSUME NEW x \in Top(score, Y, l) PROVE x \in Top(score, Z, l)
  <2>1. x \in Y /\ x \in Z /\ x \in 1 .. N /\ Cardinality(Above(score, Y, x)) < l
    BY <1>1, <1>2
  <2>2. CASE Above(score, Z, x) \subseteq Y
    <3>1. Above(score, Z, x) = Above(score, Y, x)
      BY <1>2, <2>2 DEF Above
    <3> QED BY <1>1, <2>1, <3>1
  <2>3. CASE ~(Above(score, Z, x) \subseteq Y)
    <3>1. PICK z \in Z : Outlasts(score, z, x) /\ z \notin Y
      BY <2>3 DEF Above
    <3>2. z \in S /\ z \notin T /\ z \in 1 .. N
      BY <1>2, <3>1
    <3>3. T \subseteq Above(score, S, z) /\ IsFiniteSet(T) /\ Cardinality(T) = k
      BY <3>2, TopFills
    <3>4. Above(score, S, z) \subseteq Above(score, S, x)
      BY <2>1, <3>1, <3>2, AboveFacts
    <3>5. T \subseteq Above(score, Y, x)
      BY <1>1, <3>3, <3>4 DEF Above
    <3> HIDE DEF T, Y, Z
    <3>6. k <= Cardinality(Above(score, Y, x))
      BY <1>3, <2>1, <3>3, <3>5, FS_Subset
    <3> QED BY <1>3, <2>1, <3>6
  <2> QED BY <2>2, <2>3
<1> QED BY <1>4, <1>5

(* The top of what one top leaves out is the rest of a larger one.          *)
LEMMA TopOfRest ==
  ASSUME NEW N, NEW score, Scored(score, N), NEW S, Among(S, N), NEW k \in Nat, NEW l \in Nat
  PROVE  /\ Top(score, S, k) \subseteq Top(score, S, k + l)
         /\ Top(score, S \ Top(score, S, k), l) = Top(score, S, k + l) \ Top(score, S, k)
<1>0. N \in Nat /\ score \in [1 .. N -> Int] /\ S \in SUBSET (1 .. N)
  BY DEF Scored, Among
<1> USE <1>0
<1> DEFINE T == Top(score, S, k)
           R == S \ T
<1>1. /\ T \subseteq S /\ \A x \in S : x \in T <=> Cardinality(Above(score, S, x)) < k
      /\ \A x : x \in Top(score, R, l) <=> x \in R /\ Cardinality(Above(score, R, x)) < l
      /\ \A x : x \in Top(score, S, k + l)
                  <=> x \in S /\ Cardinality(Above(score, S, x)) < k + l
  BY DEF Top, Above
<1>2. \A x \in S : /\ IsFiniteSet(Above(score, S, x))
                   /\ Cardinality(Above(score, S, x)) \in Nat
  BY AboveFacts
<1> HIDE DEF T
<1>3. T \subseteq Top(score, S, k + l)
  BY <1>1, <1>2
<1>4. ASSUME NEW x \in R
      PROVE  Cardinality(Above(score, R, x)) < l <=> Cardinality(Above(score, S, x)) < k + l
  <2>1. /\ T \subseteq Above(score, S, x) /\ IsFiniteSet(T) /\ Cardinality(T) = k
    BY TopFills DEF T
  <2>2. /\ Above(score, R, x) \cup T = Above(score, S, x)
        /\ Above(score, R, x) \cap T = {}
    BY <1>1, <2>1 DEF Above
  <2>3. IsFiniteSet(Above(score, R, x)) /\ Cardinality(Above(score, R, x)) \in Nat
    <3>1. Above(score, R, x) \subseteq Above(score, S, x)
      BY <2>2
    <3> QED BY <1>2, <3>1, FS_Subset, FS_CardinalityType
  <2>4. Cardinality(Above(score, R, x) \cup T)
          = Cardinality(Above(score, R, x)) + Cardinality(T)
              - Cardinality(Above(score, R, x) \cap T)
    BY <2>1, <2>3, FS_Union
  <2>5. Cardinality(Above(score, S, x)) = Cardinality(Above(score, R, x)) + k - 0
    BY <2>1, <2>2, <2>4, FS_EmptySet
  <2> QED BY <1>2, <2>3, <2>5
<1>5. ASSUME NEW x PROVE x \in Top(score, R, l) <=> x \in Top(score, S, k + l) \ T
  BY <1>1, <1>4
<1>6. Top(score, R, l) = Top(score, S, k + l) \ T
  BY <1>5
<1> QED BY <1>3, <1>6 DEF T
=============================================================================
