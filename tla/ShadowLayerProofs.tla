-------------------------- MODULE ShadowLayerProofs --------------------------
(***************************************************************************)
(* Proofs about the ShadowKV layer, for any arms, chunk sizes and stream   *)
(* lengths.                                                                *)
(*                                                                         *)
(* The inductive invariant says where every token is: the sinks, the       *)
(* chunks in the middle and the ring partition the stream in order, and    *)
(* every value is on the host (Stored); that the mask lengths a forward    *)
(* was told agree with what its update will return (Promised); and that    *)
(* inside a hooked forward over a filled cache the chunks were chosen by   *)
(* that forward (Planned).                                                 *)
(***************************************************************************)
EXTENDS ShadowLayer, IndexOrderProofs

(* The keys in whole chunks, and where the ring begins.                    *)
MiddleLen == n_chunks * arm.chunk
RingStart == n_sink + MiddleLen

\* The fields and the stores: a partition of the stream, and every value.
Stored ==
  /\ arm \in Arms
  /\ mode \in {"normal", "score", "ingest"}
  /\ attached \in BOOLEAN /\ planned \in BOOLEAN
  /\ pc \in {"idle", "hook", "update"}
  /\ cumulative_length \in 0 .. MaxTokens
  /\ n_sink \in Nat /\ n_sink <= arm.n_sink /\ n_chunks \in Nat
  /\ RingStart <= cumulative_length
  /\ sink = Arange(0, n_sink)
  /\ middle = Arange(n_sink, MiddleLen)
  /\ recent = Arange(RingStart, cumulative_length - RingStart)
  /\ value_cpu = Arange(0, cumulative_length)
  /\ selected = NoChunks \/ selected \in SUBSET (0 .. n_chunks - 1)
  /\ result.outcome \in {"none", "prefill", "decode", "score", "raised"}

\* What get_mask_sizes promised the forward under way.
Promised ==
  /\ pc = "idle" => query_length = 0
  /\ pc # "idle" => /\ query_length \in Nat \ {0}
                    /\ cumulative_length + query_length <= MaxTokens
                    /\ kv_length = IF mode # "score" /\ cumulative_length = 0
                                     THEN query_length
                                     ELSE attended_length + query_length

(* A hooked forward over a filled cache has chosen its chunks before any   *)
(* update.                                                                 *)
Planned == pc = "update" /\ Hooked /\ cumulative_length > 0 => planned

(* The inductive invariant.                                                *)
IInv == Stored /\ Promised /\ Planned /\ MaskAgrees /\ KeysMatchValues
          /\ HookedForwardsFresh

------------------------------------------------------------------------------
(* An index into k chunks lies in one of them.                             *)
LEMMA QuotientBelow ==
  ASSUME NEW k \in Nat, NEW c \in Nat \ {0}, NEW i \in 0 .. k * c - 1
  PROVE  i \div c \in 0 .. k - 1
<1>1. i \in Nat
  OBVIOUS
<1>2. i \div c \in Nat /\ i % c \in 0 .. c - 1 /\ i = (i \div c) * c + (i % c)
  BY <1>1, DivMod
<1>3. CASE i \div c >= k
  <2>1. k * c <= (i \div c) * c
    BY <1>2, <1>3, ProductGrows
  <2> QED BY <2>1, <1>2
<1> QED BY <1>2, <1>3

(* A chunk and an offset give an index into the middle.                    *)
LEMMA IndexInMiddle ==
  ASSUME NEW n \in Nat, NEW c \in Nat \ {0}, NEW o \in 0 .. n - 1, NEW r \in 0 .. c - 1
  PROVE  o * c + r \in 0 .. n * c - 1
<1>1. (o + 1) * c <= n * c
  BY ProductGrows
<1>2. (o + 1) * c = o * c + c /\ o * c \in Nat /\ n * c \in Nat
  OBVIOUS
<1> QED BY <1>1, <1>2

\* Concatenation of three sequences, slot by slot.
LEMMA ThreeParts ==
  ASSUME NEW s \in Seq(Int), NEW t \in Seq(Int), NEW u \in Seq(Int)
  PROVE  LET w == s \o t \o u
         IN /\ w \in Seq(Int)
            /\ Len(w) = Len(s) + Len(t) + Len(u)
            /\ \A i \in 1 .. Len(s) : w[i] = s[i]
            /\ \A i \in 1 .. Len(t) : w[Len(s) + i] = t[i]
            /\ \A i \in 1 .. Len(u) : w[Len(s) + Len(t) + i] = u[i]
            /\ DOMAIN w = 1 .. Len(s) + Len(t) + Len(u)
<1> DEFINE w == s \o t \o u
<1>1. s \o t \in Seq(Int) /\ Len(s \o t) = Len(s) + Len(t)
  OBVIOUS
<1>2. w \in Seq(Int) /\ Len(w) = Len(s) + Len(t) + Len(u)
  OBVIOUS
<1>3. DOMAIN w = 1 .. Len(s) + Len(t) + Len(u)
  OBVIOUS
<1>5. \A i \in 1 .. Len(s) : w[i] = s[i]
  OBVIOUS
<1>6. \A i \in 1 .. Len(t) : w[Len(s) + i] = t[i]
  OBVIOUS
<1>7. \A i \in 1 .. Len(u) : w[Len(s) + Len(t) + i] = u[i]
  OBVIOUS
<1> QED BY <1>2, <1>3, <1>5, <1>6, <1>7

(* Three ascending runs, each below the next, concatenate to an ascending  *)
(* one.                                                                    *)
LEMMA AscendingParts ==
  ASSUME NEW s \in Seq(Int), NEW t \in Seq(Int), NEW u \in Seq(Int),
         NEW a \in Int, NEW b \in Int, a <= b,
         \A i \in 1 .. Len(s) : s[i] < a,
         \A i \in 1 .. Len(t) : a <= t[i] /\ t[i] < b,
         \A i \in 1 .. Len(u) : b <= u[i],
         \A i, j \in 1 .. Len(s) : i < j => s[i] < s[j],
         \A i, j \in 1 .. Len(t) : i < j => t[i] < t[j],
         \A i, j \in 1 .. Len(u) : i < j => u[i] < u[j]
  PROVE  LET w == s \o t \o u
         IN \A i, j \in DOMAIN w : i < j => w[i] < w[j]
<1> DEFINE w == s \o t \o u
<1> SUFFICES ASSUME NEW i \in DOMAIN w, NEW j \in DOMAIN w, i < j PROVE w[i] < w[j]
  OBVIOUS
<1>0. Len(s) \in Nat /\ Len(t) \in Nat /\ Len(u) \in Nat
  OBVIOUS
<1>1. /\ i \in 1 .. Len(s) + Len(t) + Len(u) /\ j \in 1 .. Len(s) + Len(t) + Len(u)
      /\ \A k \in 1 .. Len(s) : w[k] = s[k]
      /\ \A k \in 1 .. Len(t) : w[Len(s) + k] = t[k]
      /\ \A k \in 1 .. Len(u) : w[Len(s) + Len(t) + k] = u[k]
  <2>1. /\ \A k \in 1 .. Len(s) : w[k] = s[k]
        /\ \A k \in 1 .. Len(t) : w[Len(s) + k] = t[k]
        /\ \A k \in 1 .. Len(u) : w[Len(s) + Len(t) + k] = u[k]
        /\ DOMAIN w = 1 .. Len(s) + Len(t) + Len(u)
    BY ThreeParts
  <2> HIDE DEF w
  <2> QED BY <2>1
<1> HIDE DEF w
<1> DEFINE ls == Len(s)
           lt == Len(t)
<1>2. \A k \in 1 .. ls + lt + Len(u) :
         \/ k \in 1 .. ls /\ w[k] = s[k]
         \/ k - ls \in 1 .. lt /\ w[k] = t[k - ls]
         \/ k - ls - lt \in 1 .. Len(u) /\ w[k] = u[k - ls - lt]
  <2> SUFFICES ASSUME NEW k \in 1 .. ls + lt + Len(u)
               PROVE \/ k \in 1 .. ls /\ w[k] = s[k]
                     \/ k - ls \in 1 .. lt /\ w[k] = t[k - ls]
                     \/ k - ls - lt \in 1 .. Len(u) /\ w[k] = u[k - ls - lt]
    OBVIOUS
  <2>1. CASE k <= ls
    BY <1>0, <1>1, <2>1
  <2>2. CASE k > ls /\ k <= ls + lt
    <3>1. k - ls \in 1 .. lt /\ ls + (k - ls) = k
      BY <1>0, <2>2
    <3> QED BY <1>1, <3>1
  <2>3. CASE k > ls + lt
    <3>1. k - ls - lt \in 1 .. Len(u) /\ ls + lt + (k - ls - lt) = k
      BY <1>0, <2>3
    <3> QED BY <1>1, <3>1
  <2> QED BY <1>0, <2>1, <2>2, <2>3
<1>3. /\ \A k \in 1 .. ls : s[k] \in Int
      /\ \A k \in 1 .. lt : t[k] \in Int
      /\ \A k \in 1 .. Len(u) : u[k] \in Int
  OBVIOUS
<1>4. ls \in Nat /\ lt \in Nat
  BY <1>0
<1> HIDE DEF ls, lt
<1>5. /\ i \in Int /\ j \in Int
      /\ \/ i \in 1 .. ls /\ w[i] = s[i]
         \/ i - ls \in 1 .. lt /\ w[i] = t[i - ls]
         \/ i - ls - lt \in 1 .. Len(u) /\ w[i] = u[i - ls - lt]
      /\ \/ j \in 1 .. ls /\ w[j] = s[j]
         \/ j - ls \in 1 .. lt /\ w[j] = t[j - ls]
         \/ j - ls - lt \in 1 .. Len(u) /\ w[j] = u[j - ls - lt]
  <2>1. i \in 1 .. ls + lt + Len(u) /\ j \in 1 .. ls + lt + Len(u)
    BY <1>1 DEF ls, lt
  <2>2. i \in Int /\ j \in Int
    BY <2>1
  <2> QED BY <1>2, <2>1, <2>2
<1>6. CASE i \in 1 .. ls /\ w[i] = s[i]
  <2>1. CASE j \in 1 .. ls /\ w[j] = s[j]
    BY <1>6, <2>1 DEF ls
  <2>2. CASE j - ls \in 1 .. lt /\ w[j] = t[j - ls]
    <3>1. s[i] < a /\ a <= t[j - ls] /\ s[i] \in Int /\ t[j - ls] \in Int
      BY <1>3, <1>6, <2>2 DEF ls, lt
    <3> QED BY <1>6, <2>2, <3>1
  <2>3. CASE j - ls - lt \in 1 .. Len(u) /\ w[j] = u[j - ls - lt]
    <3>1. s[i] < a /\ b <= u[j - ls - lt] /\ s[i] \in Int /\ u[j - ls - lt] \in Int
      BY <1>3, <1>6, <2>3 DEF ls
    <3> QED BY <1>6, <2>3, <3>1
  <2> QED BY <1>5, <2>1, <2>2, <2>3
<1>7. CASE i - ls \in 1 .. lt /\ w[i] = t[i - ls]
  <2>1. CASE j \in 1 .. ls
    BY <1>4, <1>5, <1>7, <2>1
  <2>2. CASE j - ls \in 1 .. lt /\ w[j] = t[j - ls]
    <3>1. i - ls < j - ls
      BY <1>4, <1>5
    <3> QED BY <1>7, <2>2, <3>1 DEF lt
  <2>3. CASE j - ls - lt \in 1 .. Len(u) /\ w[j] = u[j - ls - lt]
    <3>1. t[i - ls] < b /\ b <= u[j - ls - lt] /\ t[i - ls] \in Int /\ u[j - ls - lt] \in Int
      BY <1>3, <1>7, <2>3 DEF lt
    <3> QED BY <1>7, <2>3, <3>1
  <2> QED BY <1>5, <2>1, <2>2, <2>3
<1>8. CASE i - ls - lt \in 1 .. Len(u) /\ w[i] = u[i - ls - lt]
  <2>1. j - ls - lt \in 1 .. Len(u) /\ w[j] = u[j - ls - lt]
    BY <1>0, <1>4, <1>5, <1>8, SMTT(30)
  <2>2. i - ls - lt < j - ls - lt
    BY <1>4, <1>5
  <2> QED BY <1>8, <2>1, <2>2
<1> QED BY <1>5, <1>6, <1>7, <1>8

------------------------------------------------------------------------------
(* The lengths derived from the stores.                                    *)
LEMMA CountsTyped ==
  ASSUME Stored
  PROVE  /\ arm.chunk \in Nat \ {0} /\ arm.top_k \in Nat \ {0} /\ arm.recent_window \in Nat \ {0}
         /\ arm.n_sink \in Nat
         /\ k_eff \in 0 .. n_chunks /\ (k_eff = 0 => n_chunks = 0)
         /\ n_selected \in Nat /\ MiddleLen \in Nat /\ n_selected <= MiddleLen
         /\ (n_selected = 0 => n_chunks = 0)
         /\ RingStart \in Nat /\ cumulative_length \in Nat
<1>1. /\ arm.chunk \in Nat \ {0} /\ arm.top_k \in Nat \ {0} /\ arm.n_sink \in Nat
      /\ arm.recent_window \in Nat \ {0} /\ n_chunks \in Nat /\ n_sink \in Nat
      /\ cumulative_length \in Nat
  BY ArmsAssumption, BoundAssumption DEF Stored
<1>2. k_eff \in 0 .. n_chunks /\ (k_eff = 0 => n_chunks = 0)
  BY <1>1 DEF k_eff, Lesser
<1>3. n_selected \in Nat /\ MiddleLen \in Nat /\ n_selected <= MiddleLen
  BY <1>1, <1>2, ProductGrows DEF n_selected, MiddleLen
<1>4. n_selected = 0 => k_eff = 0
  <2>1. k_eff >= 1 => 1 * arm.chunk <= k_eff * arm.chunk
    BY <1>1, <1>2, ProductGrows
  <2> QED BY <1>1, <1>2, <2>1 DEF n_selected
<1> QED BY <1>1, <1>2, <1>3, <1>4 DEF RingStart

(* A forward that is not refused has k_eff chunks to gather.               *)
LEMMA ChosenFits ==
  ASSUME Stored, ~Refused
  PROVE  Chosen \in SUBSET (0 .. n_chunks - 1) /\ Cardinality(Chosen) = k_eff
           /\ IsFiniteSet(Chosen)
<1>1. n_chunks \in Nat /\ k_eff \in 0 .. n_chunks /\ n_selected \in Nat
      /\ (n_selected = 0 => n_chunks = 0)
  BY CountsTyped DEF Stored
<1>2. /\ IsFiniteSet(0 .. n_chunks - 1)
      /\ Cardinality(0 .. n_chunks - 1) = n_chunks
  <2>1. 0 \in Int /\ n_chunks - 1 \in Int
    BY <1>1
  <2> QED BY <1>1, <2>1, FS_Interval
<1>3. CASE selected # NoChunks /\ Cardinality(selected) = k_eff
  BY <1>2, <1>3, FS_Subset DEF Chosen, Stored
<1>4. CASE ~(selected # NoChunks /\ Cardinality(selected) = k_eff)
  <2>1. k_eff = n_chunks
    BY <1>1, <1>4 DEF Refused
  <2> QED BY <1>2, <1>4, <2>1 DEF Chosen
<1> QED BY <1>3, <1>4

(* The indices gathered from the middle are distinct and ascend.           *)
LEMMA IndicesAscend ==
  ASSUME Stored, ~Refused
  PROVE  /\ ChosenIndices \in [1 .. n_selected -> 0 .. MiddleLen - 1]
         /\ \A i, j \in 1 .. n_selected : i < j => ChosenIndices[i] < ChosenIndices[j]
<1> DEFINE c == arm.chunk
           order == Ascending(Chosen)
           index(i) == order[((i - 1) \div c) + 1] * c + ((i - 1) % c)
<1>1. /\ c \in Nat \ {0} /\ n_chunks \in Nat /\ k_eff \in Nat /\ n_selected = k_eff * c
      /\ n_selected \in Nat
  BY CountsTyped DEF Stored, n_selected
<1>2. Chosen \in SUBSET (0 .. n_chunks - 1) /\ Cardinality(Chosen) = k_eff /\ IsFiniteSet(Chosen)
  BY ChosenFits
<1>3. /\ order \in [1 .. k_eff -> Chosen]
      /\ \A r, s \in 1 .. k_eff : r < s => order[r] < order[s]
  <2>1. Chosen \in SUBSET Int
    BY <1>2
  <2> QED BY <1>2, <2>1, AscendingSorts
<1> HIDE DEF order, c
<1>4. ASSUME NEW i \in 1 .. n_selected
      PROVE  /\ ((i - 1) \div c) + 1 \in 1 .. k_eff /\ (i - 1) % c \in 0 .. c - 1
             /\ i - 1 = ((i - 1) \div c) * c + ((i - 1) % c)
             /\ order[((i - 1) \div c) + 1] \in 0 .. n_chunks - 1
             /\ index(i) \in 0 .. MiddleLen - 1
  <2>1. i - 1 \in 0 .. k_eff * c - 1 /\ i - 1 \in Nat
    BY <1>1
  <2>2. (i - 1) \div c \in 0 .. k_eff - 1
    BY <1>1, <2>1, QuotientBelow
  <2>3. /\ (i - 1) % c \in 0 .. c - 1 /\ (i - 1) \div c \in Nat
        /\ i - 1 = ((i - 1) \div c) * c + ((i - 1) % c)
    BY <1>1, <2>1, DivMod
  <2>4. ((i - 1) \div c) + 1 \in 1 .. k_eff
    BY <1>1, <2>2
  <2>5. order[((i - 1) \div c) + 1] \in 0 .. n_chunks - 1
    BY <1>2, <1>3, <2>4
  <2>6. index(i) \in 0 .. n_chunks * c - 1
    BY <1>1, <2>3, <2>5, IndexInMiddle
  <2> QED BY <2>3, <2>4, <2>5, <2>6 DEF MiddleLen, c
<1>5. ASSUME NEW i \in 1 .. n_selected, NEW j \in 1 .. n_selected, i < j
      PROVE  index(i) < index(j)
  <2> DEFINE a == (i - 1) \div c
             b == (j - 1) \div c
             r == (i - 1) % c
             s == (j - 1) % c
  <2>1. /\ a + 1 \in 1 .. k_eff /\ r \in 0 .. c - 1 /\ i - 1 = a * c + r
        /\ b + 1 \in 1 .. k_eff /\ s \in 0 .. c - 1 /\ j - 1 = b * c + s
        /\ order[a + 1] \in 0 .. n_chunks - 1 /\ order[b + 1] \in 0 .. n_chunks - 1
    BY <1>4
  <2>0. a \in Nat /\ b \in Nat
    <3>1. i - 1 \in Nat /\ j - 1 \in Nat
      BY <1>1
    <3> QED BY <1>1, <3>1, DivMod
  <2>x. i \in Int /\ j \in Int
    BY <1>1
  <2> HIDE DEF a, b, r, s
  <2>2. a < b \/ (a = b /\ r < s)
    <3>1. CASE b < a
      <4>1. b * c + s < a * c + r
        BY <1>1, <2>0, <2>1, <3>1, MixedRadixOrder
      <4>2. j - 1 < i - 1
        BY <2>1, <4>1
      <4> QED BY <1>5, <2>x, <4>2
    <3>2. CASE a = b
      <4>1. r < s
        BY <1>1, <1>5, <2>0, <2>1, <2>x, <3>2
      <4> QED BY <3>2, <4>1
    <3> QED BY <2>0, <3>1, <3>2
  <2>3. order[a + 1] < order[b + 1] \/ (order[a + 1] = order[b + 1] /\ r < s)
    <3>1. CASE a < b
      <4>1. a + 1 < b + 1
        BY <2>0, <3>1
      <4> QED BY <1>3, <2>1, <4>1
    <3>2. CASE a = b /\ r < s
      BY <3>2
    <3> QED BY <2>2, <3>1, <3>2
  <2>4. order[a + 1] \in Nat /\ order[b + 1] \in Nat
    BY <2>1
  <2>5. order[a + 1] * c + r < order[b + 1] * c + s
    BY <1>1, <2>1, <2>3, <2>4, MixedRadixOrder
  <2> QED BY <2>5 DEF a, b, r, s
<1>6. ChosenIndices = [i \in 1 .. n_selected |-> index(i)]
  BY DEF ChosenIndices, order, c
<1> HIDE DEF index
<1>7. ChosenIndices \in [1 .. n_selected -> 0 .. MiddleLen - 1]
  BY <1>4, <1>6
<1> QED BY <1>5, <1>6, <1>7

(* Keys and values are gathered from the same positions, ascending, as     *)
(* many as attended_length counts.                                         *)
LEMMA Gathered ==
  ASSUME Stored, ~Refused, NEW k \in Nat
  PROVE  LET ring == Arange(RingStart, k)
             vals == Arange(0, RingStart + k)
         IN /\ Keys(ring) = Values(ring, vals)
            /\ Keys(ring) \in Seq(Int)
            /\ Len(Keys(ring)) = n_sink + n_selected + k
            /\ \A i, j \in DOMAIN Keys(ring) : i < j => Keys(ring)[i] < Keys(ring)[j]
<1> DEFINE ring == Arange(RingStart, k)
           vals == Arange(0, RingStart + k)
           chosen == [i \in 1 .. n_selected |-> n_sink + ChosenIndices[i]]
<1>1. /\ n_sink \in Nat /\ MiddleLen \in Nat /\ RingStart \in Nat /\ n_selected \in Nat
      /\ RingStart = n_sink + MiddleLen /\ RingStart + k \in Nat
  BY CountsTyped DEF Stored, RingStart
<1>2. /\ \A i \in 1 .. n_selected : ChosenIndices[i] \in 0 .. MiddleLen - 1
      /\ \A i, j \in 1 .. n_selected : i < j => ChosenIndices[i] < ChosenIndices[j]
  BY IndicesAscend
<1>3. /\ sink = Arange(0, n_sink) /\ middle = Arange(n_sink, MiddleLen)
      /\ \A i \in 1 .. MiddleLen : middle[i] = n_sink + i - 1
      /\ \A i \in 1 .. RingStart + k : vals[i] = 0 + i - 1
      /\ Len(vals) = RingStart + k /\ Len(ring) = k
  <2>1. \A i \in 1 .. MiddleLen : Arange(n_sink, MiddleLen)[i] = n_sink + i - 1
    BY <1>1, ArangeShape
  <2>2. /\ \A i \in 1 .. RingStart + k : vals[i] = 0 + i - 1
        /\ Len(vals) = RingStart + k
    BY <1>1, ArangeShape
  <2>3. Len(ring) = k
    BY <1>1, ArangeShape
  <2> HIDE DEF vals, ring
  <2> QED BY <2>1, <2>2, <2>3 DEF Stored
<1>4. chosen = [i \in 1 .. n_selected |-> middle[ChosenIndices[i] + 1]]
  <2> SUFFICES ASSUME NEW i \in 1 .. n_selected
               PROVE  n_sink + ChosenIndices[i] = middle[ChosenIndices[i] + 1]
    OBVIOUS
  <2>1. ChosenIndices[i] \in Int /\ ChosenIndices[i] + 1 \in 1 .. MiddleLen
    BY <1>1, <1>2
  <2> QED BY <1>1, <1>3, <2>1, SMTT(30)
<1>5. Keys(ring) = sink \o chosen \o ring
  BY <1>4 DEF Keys
<1>6. ChosenValues(vals) = chosen
  <2> SUFFICES ASSUME NEW i \in 1 .. n_selected
               PROVE  vals[ChosenIndices[i] + n_sink + 1] = n_sink + ChosenIndices[i]
    BY DEF ChosenValues
  <2>1. ChosenIndices[i] \in Int /\ ChosenIndices[i] + n_sink + 1 \in 1 .. RingStart + k
    BY <1>1, <1>2
  <2> HIDE DEF vals
  <2> QED BY <1>1, <1>3, <2>1
<1>7. SubSeq(vals, 1, n_sink) = sink
  <2>1. /\ RingStart + k \in Nat /\ 1 \in 1 .. RingStart + k + 1
        /\ n_sink \in 1 - 1 .. RingStart + k /\ 0 + 1 - 1 = 0 /\ n_sink - 1 + 1 = n_sink
        /\ 0 \in Int
    BY <1>1
  <2>2. SubSeq(vals, 1, n_sink) = Arange(0 + 1 - 1, n_sink - 1 + 1)
    BY <2>1, ArangeSlice, Zenon
  <2> HIDE DEF vals
  <2> QED BY <1>3, <2>1, <2>2
<1>8. SubSeq(vals, Len(vals) - Len(ring) + 1, Len(vals)) = ring
  <2>1. /\ RingStart + 1 \in 1 .. RingStart + k + 1
        /\ RingStart + k \in (RingStart + 1) - 1 .. RingStart + k
        /\ 0 + (RingStart + 1) - 1 = RingStart /\ (RingStart + k) - (RingStart + 1) + 1 = k
        /\ Len(vals) - Len(ring) + 1 = RingStart + 1 /\ Len(vals) = RingStart + k
    <3> HIDE DEF vals, ring
    <3> QED BY <1>1, <1>3
  <2>x. 0 \in Int
    OBVIOUS
  <2>2. SubSeq(vals, RingStart + 1, RingStart + k) = ring
    <3>1. SubSeq(vals, RingStart + 1, RingStart + k)
            = Arange(0 + (RingStart + 1) - 1, (RingStart + k) - (RingStart + 1) + 1)
      BY <1>1, <2>1, <2>x, ArangeSlice, Zenon
    <3> HIDE DEF vals
    <3> QED BY <2>1, <3>1
  <2> HIDE DEF vals, ring
  <2> QED BY <2>1, <2>2
<1>9. Values(ring, vals) = sink \o chosen \o ring
  <2> HIDE DEF ring, vals, chosen
  <2> QED BY <1>6, <1>7, <1>8 DEF Values
<1>10. /\ sink \in Seq(Int) /\ Len(sink) = n_sink /\ \A i \in 1 .. n_sink : sink[i] = 0 + i - 1
       /\ ring \in Seq(Int) /\ \A i \in 1 .. k : ring[i] = RingStart + i - 1
  <2>1. /\ Arange(0, n_sink) \in Seq(Int) /\ Len(Arange(0, n_sink)) = n_sink
        /\ \A i \in 1 .. n_sink : Arange(0, n_sink)[i] = 0 + i - 1
    BY <1>1, ArangeShape
  <2>2. ring \in Seq(Int) /\ \A i \in 1 .. k : ring[i] = RingStart + i - 1
    BY <1>1, ArangeShape
  <2> HIDE DEF ring
  <2> QED BY <1>3, <2>1, <2>2
<1>11. /\ chosen \in Seq(Int) /\ Len(chosen) = n_selected
       /\ \A i \in 1 .. n_selected : chosen[i] \in n_sink .. RingStart - 1
       /\ \A i, j \in 1 .. n_selected : i < j => chosen[i] < chosen[j]
  <2>1. \A i \in 1 .. n_selected : n_sink + ChosenIndices[i] \in n_sink .. RingStart - 1
    BY <1>1, <1>2
  <2>2. \A i \in 1 .. n_selected : n_sink + ChosenIndices[i] \in Int
    BY <1>1, <2>1
  <2>3. chosen \in Seq(Int) /\ Len(chosen) = n_selected
    BY <1>1, <2>2
  <2>4. ASSUME NEW i \in 1 .. n_selected, NEW j \in 1 .. n_selected, i < j
        PROVE  chosen[i] < chosen[j]
    BY <1>1, <1>2, <2>4
  <2> QED BY <2>1, <2>3, <2>4
<1> HIDE DEF ring, vals, chosen
<1>12. Keys(ring) \in Seq(Int) /\ Len(Keys(ring)) = n_sink + n_selected + k
  <2>1. LET w == sink \o chosen \o ring
        IN w \in Seq(Int) /\ Len(w) = Len(sink) + Len(chosen) + Len(ring)
    BY <1>10, <1>11, ThreeParts, ZenonT(40)
  <2> QED BY <1>3, <1>5, <1>10, <1>11, <2>1
<1>13. \A i, j \in DOMAIN Keys(ring) : i < j => Keys(ring)[i] < Keys(ring)[j]
  <2>1. n_sink \in Int /\ RingStart \in Int /\ n_sink <= RingStart
    BY <1>1
  <2>2. /\ \A i \in 1 .. Len(sink) : sink[i] < n_sink
        /\ \A i \in 1 .. Len(chosen) : n_sink <= chosen[i] /\ chosen[i] < RingStart
        /\ \A i \in 1 .. Len(ring) : RingStart <= ring[i]
    BY <1>1, <1>3, <1>10, <1>11
  <2>3. /\ \A i, j \in 1 .. Len(sink) : i < j => sink[i] < sink[j]
        /\ \A i, j \in 1 .. Len(chosen) : i < j => chosen[i] < chosen[j]
        /\ \A i, j \in 1 .. Len(ring) : i < j => ring[i] < ring[j]
    BY <1>1, <1>3, <1>10, <1>11
  <2>4. LET w == sink \o chosen \o ring
        IN \A i, j \in DOMAIN w : i < j => w[i] < w[j]
    BY <1>10, <1>11, <2>1, <2>2, <2>3, AscendingParts
  <2> QED BY <1>5, <2>4
<1> QED BY <1>5, <1>9, <1>12, <1>13 DEF ring, vals

------------------------------------------------------------------------------
(* The empty layer satisfies the invariant.                                *)
LEMMA InitHolds == Init => IInv
<1> SUFFICES ASSUME Init PROVE IInv
  OBVIOUS
<1>1. arm \in Arms /\ arm.chunk \in Nat \ {0} /\ arm.n_sink \in Nat
  BY ArmsAssumption DEF Init
<1>2. MiddleLen = 0 /\ RingStart = 0 /\ n_sink = 0 /\ cumulative_length = 0
  BY <1>1 DEF Init, MiddleLen, RingStart
<1>3. Arange(0, 0) = <<>>
  BY DEF Arange
<1>4. Stored
  <2>1. /\ 0 - 0 = 0 /\ 0 \in 0 .. MaxTokens /\ 0 <= arm.n_sink
    BY <1>1, BoundAssumption
  <2>2. result.outcome = "none" /\ planned \in BOOLEAN /\ attached \in BOOLEAN
    BY DEF Init, Nothing
  <2> QED BY <1>1, <1>2, <1>3, <2>1, <2>2 DEF Init, Stored
<1>5. Promised /\ Planned /\ MaskAgrees /\ KeysMatchValues /\ HookedForwardsFresh
  BY DEF Init, Nothing, Promised, Planned, MaskAgrees, KeysMatchValues, HookedForwardsFresh
<1> QED BY <1>4, <1>5 DEF IInv

(* The mask sizes keep the invariant.                                      *)
LEMMA GetMaskSizesKeeps ==
  ASSUME IInv, NEW n \in 1 .. MaxTokens, GetMaskSizes(n)
  PROVE  IInv'
<1>1. n \in Nat \ {0}
  BY BoundAssumption
<1>2. Stored'
  BY DEF IInv, Stored, GetMaskSizes, store, MiddleLen, RingStart
<1>3. attended_length' = attended_length
  BY DEF GetMaskSizes, store, attended_length, n_selected, k_eff
<1>4. Promised'
  BY <1>1, <1>3 DEF Promised, GetMaskSizes, store
<1>5. Planned' /\ MaskAgrees' /\ KeysMatchValues' /\ HookedForwardsFresh'
  BY DEF IInv, GetMaskSizes, Planned, MaskAgrees, KeysMatchValues, HookedForwardsFresh
<1> QED BY <1>2, <1>4, <1>5 DEF IInv

(* Choosing the chunks in the hook keeps the invariant.                    *)
LEMMA PlanSelectionKeeps ==
  ASSUME IInv, PlanSelection
  PROVE  IInv'
<1>1. /\ selected' = NoChunks \/ selected' \in SUBSET (0 .. n_chunks - 1)
      /\ planned' \in BOOLEAN
      /\ Hooked /\ cumulative_length > 0 => planned'
  BY DEF IInv, Stored, PlanSelection
<1>2. Stored'
  BY <1>1 DEF IInv, Stored, PlanSelection, store, MiddleLen, RingStart
<1>3. attended_length' = attended_length
  BY DEF PlanSelection, store, attended_length, n_selected, k_eff
<1>4. Promised'
  BY <1>3 DEF IInv, Promised, PlanSelection, store
<1>5. Planned'
  BY <1>1 DEF Planned, PlanSelection, store, Hooked
<1>6. MaskAgrees' /\ KeysMatchValues' /\ HookedForwardsFresh'
  BY DEF IInv, PlanSelection, MaskAgrees, KeysMatchValues, HookedForwardsFresh
<1> QED BY <1>2, <1>4, <1>5, <1>6 DEF IInv

(* Attaching the hooks and switching modes keep the invariant.             *)
LEMMA ContextsKeep ==
  ASSUME IInv, Attach \/ \E m \in {"normal", "score", "ingest"} : SetMode(m)
  PROVE  IInv'
<1>1. /\ pc = "idle"
      /\ mode' \in {"normal", "score", "ingest"} /\ attached' \in BOOLEAN
      /\ UNCHANGED <<arm, pc, query_length, kv_length, planned, store, selected, result>>
  BY DEF IInv, Stored, Attach, SetMode
<1>2. Stored'
  BY <1>1 DEF IInv, Stored, store, MiddleLen, RingStart
<1>3. Promised' /\ Planned' /\ MaskAgrees' /\ KeysMatchValues' /\ HookedForwardsFresh'
  BY <1>1 DEF IInv, Promised, Planned, MaskAgrees, KeysMatchValues, HookedForwardsFresh
<1> QED BY <1>2, <1>3 DEF IInv

(* Resetting the layer keeps the invariant.                                *)
LEMMA ResetKeeps ==
  ASSUME IInv, Reset
  PROVE  IInv'
<1>1. arm \in Arms /\ arm.chunk \in Nat \ {0} /\ arm.n_sink \in Nat
  BY ArmsAssumption DEF IInv, Stored
<1>2. /\ MiddleLen' = 0 /\ RingStart' = 0 /\ n_sink' = 0 /\ cumulative_length' = 0
      /\ Arange(0, 0) = <<>>
  BY <1>1 DEF Reset, MiddleLen, RingStart, Arange
<1>3. Stored'
  BY <1>1, <1>2, BoundAssumption DEF IInv, Reset, Stored, DropSelection, Nothing
<1>4. Promised' /\ Planned' /\ MaskAgrees' /\ KeysMatchValues' /\ HookedForwardsFresh'
  BY DEF IInv, Reset, Nothing, Promised, Planned, MaskAgrees, KeysMatchValues,
         HookedForwardsFresh
<1> QED BY <1>3, <1>4 DEF IInv

\* What every forward leaves behind, whatever it answered.
LEMMA AnswerKeeps ==
  ASSUME IInv, ForwardEnds, NEW o, NEW keys \in Seq(Int), Answer(o, keys, keys),
         o \in {"prefill", "decode", "score"} => Len(keys) = kv_length,
         \A i, j \in DOMAIN keys : i < j => keys[i] < keys[j],
         pc = "update", cumulative_length = 0 => o = "prefill"
  PROVE  Promised' /\ Planned' /\ MaskAgrees' /\ KeysMatchValues' /\ HookedForwardsFresh'
<1>1. Promised' /\ Planned'
  BY DEF ForwardEnds, Promised, Planned
<1>2. MaskAgrees' /\ KeysMatchValues'
  BY DEF ForwardEnds, Answer, MaskAgrees, KeysMatchValues
<1>3. cumulative_length \in Nat
  BY BoundAssumption DEF IInv, Stored
<1>4. HookedForwardsFresh'
  <2>1. CASE cumulative_length = 0
    <3>1. result'.outcome = "prefill"
      BY <2>1 DEF Answer
    <3> QED BY <3>1 DEF HookedForwardsFresh
  <2>2. CASE cumulative_length > 0
    <3>1. Hooked => planned
      BY <2>2 DEF IInv, Planned
    <3>2. result'.hooked = Hooked /\ result'.fresh = (planned \/ o = "prefill" \/ k_eff = n_chunks)
      BY DEF Answer
    <3> QED BY <3>1, <3>2, Zenon DEF HookedForwardsFresh
  <2> QED BY <1>3, <2>1, <2>2
<1> QED BY <1>1, <1>2, <1>4

(* Prefill cuts the stream into sinks, chunks and ring.                    *)
LEMMA PrefillKeeps ==
  ASSUME IInv, Prefill
  PROVE  IInv'
<1> DEFINE t == query_length
           s == Lesser(arm.n_sink, t)
           w == arm.recent_window
           c == arm.chunk
           m == IF t - s - w <= 0 THEN 0 ELSE MidLen(t, s)
<1>1. /\ arm \in Arms /\ c \in Nat \ {0} /\ w \in Nat \ {0} /\ arm.n_sink \in Nat
      /\ t \in Nat \ {0} /\ cumulative_length = 0 /\ t <= MaxTokens
  BY ArmsAssumption DEF IInv, Stored, Promised, Prefill
<1>2. s \in 0 .. t /\ s <= arm.n_sink
  BY <1>1 DEF Lesser
<1>3. /\ m \in 0 .. t - s /\ m \div c \in Nat /\ (m \div c) * c = m
  <2>1. CASE t - s - w <= 0
    <3>1. 0 \div c = 0 /\ 0 * c = 0
      BY <1>1
    <3> QED BY <1>1, <1>2, <2>1, <3>1
  <2>2. CASE ~(t - s - w <= 0)
    <3> DEFINE u == t - s - w
               v == u \div c
    <3>1. u \in Nat /\ u <= t - s
      BY <1>1, <1>2, <2>2
    <3>2. v \in Nat /\ u % c \in 0 .. c - 1 /\ u = v * c + (u % c)
      BY <1>1, <3>1, DivMod
    <3>3. m = v * c
      BY <2>2 DEF MidLen
    <3> HIDE DEF u, v, m, s
    <3>4. v * c \in Nat /\ v * c <= u
      BY <1>1, <3>1, <3>2
    <3>5. (v * c) \div c = v
      BY <1>1, <3>2
    <3> QED BY <1>1, <1>2, <3>1, <3>2, <3>3, <3>4, <3>5
  <2> QED BY <2>1, <2>2
<1> HIDE DEF m, s
<1>4. /\ n_sink' = s /\ n_chunks' = m \div c /\ arm' = arm
      /\ sink' = SubSeq(Window, 1, s) /\ middle' = SubSeq(Window, s + 1, s + m)
      /\ recent' = SubSeq(Window, s + m + 1, t)
      /\ value_cpu' = Window /\ cumulative_length' = t
      /\ Window = Arange(0, t)
  BY <1>1, <1>3 DEF Prefill, ForwardEnds, Window, m, s
<1>5. MiddleLen' = m /\ RingStart' = s + m
  BY <1>3, <1>4 DEF MiddleLen, RingStart
<1>6. /\ SubSeq(Arange(0, t), 1, s) = Arange(0, s)
      /\ SubSeq(Arange(0, t), s + 1, s + m) = Arange(s, m)
      /\ SubSeq(Arange(0, t), s + m + 1, t) = Arange(s + m, t - (s + m))
  <2>1. /\ 0 \in Int /\ t \in Nat
        /\ 1 \in 1 .. t + 1 /\ s \in 1 - 1 .. t
        /\ s + 1 \in 1 .. t + 1 /\ s + m \in (s + 1) - 1 .. t
        /\ s + m + 1 \in 1 .. t + 1 /\ t \in (s + m + 1) - 1 .. t
    BY <1>1, <1>2, <1>3
  <2>2. /\ SubSeq(Arange(0, t), 1, s) = Arange(0 + 1 - 1, s - 1 + 1)
        /\ SubSeq(Arange(0, t), s + 1, s + m) = Arange(0 + (s + 1) - 1, (s + m) - (s + 1) + 1)
        /\ SubSeq(Arange(0, t), s + m + 1, t)
              = Arange(0 + (s + m + 1) - 1, t - (s + m + 1) + 1)
    BY <2>1, ArangeSlice, Zenon
  <2>3. /\ 0 + 1 - 1 = 0 /\ s - 1 + 1 = s /\ 0 + (s + 1) - 1 = s
        /\ (s + m) - (s + 1) + 1 = m /\ 0 + (s + m + 1) - 1 = s + m
        /\ t - (s + m + 1) + 1 = t - (s + m)
    BY <1>1, <1>2, <1>3
  <2> QED BY <2>2, <2>3
<1>7. /\ mode' = mode /\ attached' = attached /\ planned' = FALSE /\ pc' = "idle"
      /\ selected' = selected /\ result'.outcome = "prefill"
      /\ selected = NoChunks \/ selected \in SUBSET (0 .. n_chunks - 1)
      /\ mode \in {"normal", "score", "ingest"} /\ attached \in BOOLEAN
  BY DEF IInv, Stored, Prefill, ForwardEnds, Answer
<1>8. n_chunks = 0 /\ n_sink = 0 /\ n_selected = 0 /\ Len(recent) = 0
  <2>1. n_chunks \in Nat /\ n_sink \in Nat /\ MiddleLen \in Nat /\ n_sink + MiddleLen <= 0
    BY <1>1, CountsTyped DEF IInv, Stored, RingStart
  <2>2. MiddleLen = 0 /\ n_sink = 0
    BY <2>1
  <2>3. n_selected = 0 /\ n_chunks = 0
    BY <2>2, CountsTyped DEF IInv
  <2>4. recent = Arange(0, 0)
    BY <1>1, <2>2 DEF IInv, Stored, RingStart
  <2> QED BY <2>2, <2>3, <2>4 DEF Arange
<1>9. selected' = NoChunks \/ selected' \in SUBSET (0 .. n_chunks' - 1)
  BY <1>3, <1>4, <1>7, <1>8
<1>10. Stored'
  <2>1. s \in Nat /\ m \div c \in Nat /\ s + m <= t /\ t \in 0 .. MaxTokens
    BY <1>1, <1>2, <1>3, BoundAssumption
  <2>2. /\ sink' = Arange(0, n_sink') /\ middle' = Arange(n_sink', MiddleLen')
        /\ recent' = Arange(RingStart', cumulative_length' - RingStart')
        /\ value_cpu' = Arange(0, cumulative_length')
    BY <1>4, <1>5, <1>6
  <2>3. planned' \in BOOLEAN /\ pc' \in {"idle", "hook", "update"}
        /\ result'.outcome \in {"none", "prefill", "decode", "score", "raised"}
    BY <1>7
  <2> QED BY <1>1, <1>2, <1>4, <1>5, <1>7, <1>9, <2>1, <2>2, <2>3 DEF Stored
<1>11. Window \in Seq(Int) /\ Len(Window) = t
       /\ \A i, j \in DOMAIN Window : i < j => Window[i] < Window[j]
  BY <1>1, <1>4 DEF Arange
<1>12. Len(Window) = kv_length
  BY <1>1, <1>8, <1>11 DEF IInv, Promised, Prefill, attended_length
<1>13. Promised' /\ Planned' /\ MaskAgrees' /\ KeysMatchValues' /\ HookedForwardsFresh'
  <2>1. Answer("prefill", Window, Window) /\ ForwardEnds /\ pc = "update"
    BY DEF Prefill
  <2> HIDE DEF t
  <2> QED BY <1>11, <1>12, <2>1, AnswerKeeps, Zenon
<1> QED BY <1>10, <1>13 DEF IInv

(* A refused forward answers with an error and nothing else.               *)
LEMMA RefusedIsRaised ==
  ASSUME IInv, ForwardEnds, Answer("raised", <<>>, <<>>), pc = "update",
         cumulative_length > 0
  PROVE  Promised' /\ Planned' /\ MaskAgrees' /\ KeysMatchValues' /\ HookedForwardsFresh'
<1>1. <<>> \in Seq(Int) /\ \A i, j \in DOMAIN <<>> : i < j => <<>>[i] < <<>>[j]
  OBVIOUS
<1>2. cumulative_length # 0
  BY BoundAssumption DEF IInv, Stored
<1> QED BY <1>1, <1>2, AnswerKeeps

(* A decode step appends to the ring, whether it is refused or not, and    *)
(* moves the oldest chunk into the middle when the ring is full.           *)
LEMMA DecodeStepKeeps ==
  ASSUME IInv, DecodeStep
  PROVE  IInv'
<1>1. /\ cumulative_length \in Nat \ {0} /\ cumulative_length + 1 <= MaxTokens
      /\ query_length = 1 /\ n_sink \in Nat /\ MiddleLen \in Nat /\ RingStart \in Nat
      /\ n_selected \in Nat /\ RingStart <= cumulative_length
      /\ kv_length = attended_length + 1
  BY CountsTyped, BoundAssumption DEF IInv, Stored, Promised, DecodeStep
<1> DEFINE k == cumulative_length - RingStart
<1>2. k \in Nat
  BY <1>1
<1>3. recent' = Arange(RingStart, k + 1) /\ value_cpu' = Arange(0, RingStart + (k + 1))
  <2>1. Window = Arange(cumulative_length, 1)
    BY <1>1 DEF Window
  <2>2. RingStart + k = cumulative_length /\ 0 + cumulative_length = cumulative_length
        /\ RingStart + (k + 1) = cumulative_length + 1
    BY <1>1
  <2>3. recent = Arange(RingStart, k) /\ value_cpu = Arange(0, cumulative_length)
    BY DEF IInv, Stored
  <2>4. recent' = recent \o Window /\ value_cpu' = value_cpu \o Window
    BY DEF DecodeStep
  <2> HIDE DEF k
  <2>5. Arange(RingStart, k) \o Arange(RingStart + k, 1) = Arange(RingStart, k + 1)
    <3>1. RingStart \in Int /\ k \in Nat /\ 1 \in Nat
      BY <1>1, <1>2
    <3> QED BY <3>1, ArangeConcat, Zenon
  <2>6. Arange(0, cumulative_length) \o Arange(0 + cumulative_length, 1)
           = Arange(0, cumulative_length + 1)
    <3>1. 0 \in Int /\ cumulative_length \in Nat /\ 1 \in Nat
      BY <1>1
    <3> QED BY <3>1, ArangeConcat, Zenon
  <2> QED BY <2>1, <2>2, <2>3, <2>4, <2>5, <2>6
<1>4. /\ UNCHANGED <<arm, mode, attached, selected, n_sink, n_chunks, sink, middle>>
      /\ cumulative_length' = cumulative_length + 1 /\ planned' = FALSE /\ pc' = "idle"
      /\ result'.outcome \in {"raised", "decode"}
  BY DEF DecodeStep, ForwardEnds, Answer
<1>5. MiddleLen' = MiddleLen /\ RingStart' = RingStart
  BY <1>4 DEF MiddleLen, RingStart
<1>6. Stored'
  <2>1. cumulative_length' - RingStart' = k + 1 /\ RingStart + (k + 1) = cumulative_length'
        /\ cumulative_length' \in 0 .. MaxTokens /\ RingStart' <= cumulative_length'
    BY <1>1, <1>4, <1>5, BoundAssumption
  <2>2. recent' = Arange(RingStart', cumulative_length' - RingStart')
        /\ value_cpu' = Arange(0, cumulative_length')
    BY <1>3, <1>5, <2>1
  <2> QED BY <1>4, <1>5, <2>1, <2>2 DEF IInv, Stored
<1>7. CASE Refused
  <2>1. Promised' /\ Planned' /\ MaskAgrees' /\ KeysMatchValues' /\ HookedForwardsFresh'
    BY <1>1, <1>7, RefusedIsRaised DEF DecodeStep
  <2> QED BY <1>6, <2>1 DEF IInv
<1>8. CASE ~Refused
  <2> DEFINE keys == Keys(Arange(RingStart, k + 1))
  <2>1. k + 1 \in Nat
    BY <1>2
  <2> HIDE DEF k
  <2>2. /\ keys = Values(Arange(RingStart, k + 1), Arange(0, RingStart + (k + 1)))
        /\ keys \in Seq(Int) /\ Len(keys) = n_sink + n_selected + (k + 1)
        /\ \A i, j \in DOMAIN keys : i < j => keys[i] < keys[j]
    BY <1>8, <2>1, Gathered, Zenon DEF IInv
  <2> HIDE DEF keys
  <2>3. Answer("decode", keys, keys)
    BY <1>3, <1>8, <2>2 DEF DecodeStep, keys
  <2>4. Len(recent) = k
    <3>1. RingStart \in Int /\ k \in Nat /\ recent = Arange(RingStart, k)
      BY <1>1, <1>2 DEF IInv, Stored, k
    <3> QED BY <3>1, ArangeShape, Zenon
  <2>5. Len(keys) = kv_length
    BY <1>1, <1>2, <2>2, <2>4 DEF attended_length
  <2>6. ForwardEnds /\ pc = "update" /\ cumulative_length # 0
    BY <1>1 DEF DecodeStep
  <2>7. Promised' /\ Planned' /\ MaskAgrees' /\ KeysMatchValues' /\ HookedForwardsFresh'
    BY <2>2, <2>3, <2>5, <2>6, AnswerKeeps, Zenon
  <2> QED BY <1>6, <2>7 DEF IInv
<1> QED BY <1>7, <1>8

(* A scored window leaves the stores.                                      *)
LEMMA ScoreForwardKeeps ==
  ASSUME IInv, ScoreForward
  PROVE  IInv'
<1> DEFINE k == cumulative_length - RingStart
           m == query_length
<1>1. /\ cumulative_length \in Nat \ {0} /\ m \in Nat
      /\ n_sink \in Nat /\ RingStart \in Nat
      /\ n_selected \in Nat /\ RingStart <= cumulative_length
      /\ kv_length = attended_length + m /\ k \in Nat
  <2>1. /\ n_selected \in Nat /\ RingStart \in Nat /\ cumulative_length \in Nat
        /\ RingStart <= cumulative_length /\ n_sink \in Nat
    BY CountsTyped DEF IInv, Stored
  <2>2. /\ pc = "update" /\ cumulative_length > 0 /\ mode = "score"
    BY DEF ScoreForward
  <2>3. m \in Nat /\ kv_length = attended_length + m
    BY <2>2 DEF IInv, Promised
  <2> HIDE DEF m
  <2> QED BY <2>1, <2>2, <2>3
<1>2. Stored'
  <2>1. /\ UNCHANGED <<arm, mode, attached, selected, store>>
        /\ planned' = FALSE /\ pc' = "idle" /\ result'.outcome \in {"raised", "score"}
    BY DEF ScoreForward, ForwardEnds, Answer
  <2> QED BY <2>1 DEF IInv, Stored, store, MiddleLen, RingStart
<1>3. CASE Refused
  <2>1. Promised' /\ Planned' /\ MaskAgrees' /\ KeysMatchValues' /\ HookedForwardsFresh'
    BY <1>1, <1>3, RefusedIsRaised DEF ScoreForward
  <2> QED BY <1>2, <2>1 DEF IInv
<1>4. CASE ~Refused
  <2> DEFINE ring == Arange(RingStart, k)
             all == Arange(RingStart, k + m)
             keys == Keys(all)
  <2>0. RingStart + k = cumulative_length /\ k + m \in Nat
    BY <1>1
  <2>1. recent = ring /\ value_cpu = Arange(0, RingStart + k) /\ Window = Arange(RingStart + k, m)
    BY <2>0 DEF IInv, Stored, Window
  <2> HIDE DEF k, m
  <2>2. Keys(ring) = Values(ring, Arange(0, RingStart + k))
    BY <1>1, <1>4, Gathered, Zenon DEF IInv
  <2>3. /\ keys \in Seq(Int) /\ Len(keys) = n_sink + n_selected + (k + m)
        /\ \A i, j \in DOMAIN keys : i < j => keys[i] < keys[j]
    BY <1>4, <2>0, Gathered, Zenon DEF IInv
  <2>4. ring \o Window = all
    <3>1. RingStart \in Int /\ k \in Nat /\ m \in Nat
      BY <1>1 DEF m, k
    <3>2. Arange(RingStart, k) \o Arange(RingStart + k, m) = Arange(RingStart, k + m)
      BY <3>1, ArangeConcat, Zenon
    <3> QED BY <2>1, <3>2
  <2>5. Keys(ring) \o Window = keys
    <3> DEFINE front == sink \o [i \in 1 .. n_selected |-> middle[ChosenIndices[i] + 1]]
    <3>1. Window \in Seq(Int) /\ ring \in Seq(Int)
      BY <1>1, <2>0, <2>1, ArangeShape
    <3>2. sink \in Seq(Int)
      BY <1>1, ArangeShape DEF IInv, Stored
    <3>3. [i \in 1 .. n_selected |-> middle[ChosenIndices[i] + 1]] \in Seq(Int)
      <4>1. ASSUME NEW i \in 1 .. n_selected
            PROVE  middle[ChosenIndices[i] + 1] \in Int
        <5>1. ChosenIndices[i] + 1 \in 1 .. MiddleLen /\ MiddleLen \in Nat
          BY <1>4, IndicesAscend, CountsTyped, SMTT(30) DEF IInv
        <5>2. middle[ChosenIndices[i] + 1] = n_sink + (ChosenIndices[i] + 1) - 1
          <6>1. n_sink \in Int /\ middle = Arange(n_sink, MiddleLen)
            BY <1>1 DEF IInv, Stored
          <6> QED BY <5>1, <6>1, ArangeShape, Zenon
        <5> QED BY <1>1, <5>1, <5>2
      <4> QED BY <1>1, <4>1
    <3>4. front \in Seq(Int)
      BY <3>2, <3>3, ConcatProperties
    <3>5. Keys(ring) = front \o ring /\ keys = front \o all
      BY DEF Keys
    <3> HIDE DEF front, ring, all, keys
    <3>6. (front \o ring) \o Window = front \o (ring \o Window)
      <4>1. \A x, y, z \in Seq(Int) : (x \o y) \o z = x \o (y \o z)
        BY ConcatAssociative, SMTT(30)
      <4> QED BY <3>1, <3>4, <4>1, Zenon
    <3> QED BY <2>4, <3>5, <3>6
  <2> HIDE DEF keys, ring, all
  <2>6. Answer("score", keys, keys)
    BY <1>4, <2>1, <2>2, <2>5 DEF ScoreForward
  <2>7. Len(recent) = k
    BY <1>1, <2>1, ArangeShape DEF ring
  <2>8. Len(keys) = kv_length
    BY <1>1, <2>3, <2>7 DEF attended_length
  <2>9. ForwardEnds /\ pc = "update" /\ cumulative_length # 0
    BY <1>1 DEF ScoreForward
  <2>10. Promised' /\ Planned' /\ MaskAgrees' /\ KeysMatchValues' /\ HookedForwardsFresh'
    BY <2>3, <2>6, <2>8, <2>9, AnswerKeeps, Zenon
  <2> QED BY <1>2, <2>10 DEF IInv
<1> QED BY <1>3, <1>4

(* A rejected continuation leaves the stores.                              *)
LEMMA UpdateRejectedKeeps ==
  ASSUME IInv, UpdateRejected
  PROVE  IInv'
<1>1. Stored'
  BY DEF IInv, Stored, UpdateRejected, ForwardEnds, Answer, store, MiddleLen, RingStart
<1>2. Promised' /\ Planned' /\ MaskAgrees' /\ KeysMatchValues' /\ HookedForwardsFresh'
  BY RefusedIsRaised DEF UpdateRejected
<1> QED BY <1>1, <1>2 DEF IInv

(* Every step keeps the invariant.                                         *)
LEMMA NextKeeps == IInv /\ [Next]_vars => IInv'
<1> SUFFICES ASSUME IInv, [Next]_vars PROVE IInv'
  OBVIOUS
<1>1. CASE UNCHANGED vars
  BY <1>1 DEF vars, store, IInv, Stored, Promised, Planned, MaskAgrees, KeysMatchValues,
              HookedForwardsFresh, MiddleLen, RingStart, attended_length, n_selected,
              k_eff, Hooked
<1>2. CASE Next
  BY <1>2, GetMaskSizesKeeps, PlanSelectionKeeps, PrefillKeeps, DecodeStepKeeps,
     ScoreForwardKeeps, UpdateRejectedKeeps, ContextsKeep, ResetKeeps DEF Next
<1> QED BY <1>1, <1>2

(* The invariant holds in every reachable state.                           *)
THEOREM Inductive == Spec => []IInv
BY InitHolds, NextKeeps, PTL DEF Spec

(* The keys an update returns are as many as the attention mask of its     *)
(* forward was built for (get_mask_sizes before update).                   *)
THEOREM MaskCorrect == Spec => []MaskAgrees
<1>1. IInv => MaskAgrees
  BY DEF IInv
<1> QED BY <1>1, Inductive, PTL

(* Values are gathered at the positions the keys were, each once and in    *)
(* order (_reconstruct_selected).                                          *)
THEOREM GatherAligned == Spec => []KeysMatchValues
<1>1. IInv => KeysMatchValues
  BY DEF IInv
<1> QED BY <1>1, Inductive, PTL

(* A forward under the hooks attends the chunks chosen for its own query,  *)
(* never those of an earlier one (_plan_selection, _selected_chunks).      *)
THEOREM SelectionFresh == Spec => []HookedForwardsFresh
<1>1. IInv => HookedForwardsFresh
  BY DEF IInv
<1> QED BY <1>1, Inductive, PTL

(* Sinks, chunks and ring are the whole stream, in order and each token    *)
(* once: the selection only restricts what is attended.                    *)
THEOREM NothingEvicted == Spec => []WholeStreamHeld
<1>1. IInv => WholeStreamHeld
  <2> SUFFICES ASSUME IInv PROVE WholeStreamHeld
    OBVIOUS
  <2> DEFINE k == cumulative_length - RingStart
  <2>1. n_sink \in Nat /\ MiddleLen \in Nat /\ k \in Nat /\ 0 \in Int
        /\ 0 + n_sink = n_sink /\ RingStart = n_sink + MiddleLen /\ RingStart \in Nat
        /\ 0 + RingStart = RingStart /\ RingStart + k = cumulative_length
    BY CountsTyped, BoundAssumption DEF IInv, Stored, RingStart
  <2>2. sink = Arange(0, n_sink) /\ middle = Arange(n_sink, MiddleLen)
        /\ recent = Arange(RingStart, k)
    BY DEF IInv, Stored
  <2> HIDE DEF k
  <2>3. Arange(0, n_sink) \o Arange(0 + n_sink, MiddleLen) = Arange(0, n_sink + MiddleLen)
    BY <2>1, ArangeConcat, Zenon
  <2>4. Arange(0, RingStart) \o Arange(0 + RingStart, k) = Arange(0, RingStart + k)
    BY <2>1, ArangeConcat, Zenon
  <2> QED BY <2>1, <2>2, <2>3, <2>4 DEF WholeStreamHeld
<1> QED BY <1>1, Inductive, PTL

(* The variables stay in their types.                                      *)
THEOREM TypeCorrect == Spec => []TypeOK
<1>1. IInv => TypeOK
  <2> SUFFICES ASSUME IInv PROVE TypeOK
    OBVIOUS
  <2>1. query_length \in 0 .. MaxTokens
    BY BoundAssumption DEF IInv, Stored, Promised
  <2>2. Len(sink) = n_sink /\ Len(middle) = MiddleLen /\ Len(value_cpu) = cumulative_length
    <3>1. /\ 0 \in Int /\ n_sink \in Int /\ n_sink \in Nat /\ MiddleLen \in Nat
          /\ cumulative_length \in Nat
      BY CountsTyped DEF IInv, Stored
    <3>2. sink = Arange(0, n_sink) /\ middle = Arange(n_sink, MiddleLen)
          /\ value_cpu = Arange(0, cumulative_length)
      BY DEF IInv, Stored
    <3> QED BY <3>1, <3>2, ArangeShape, Zenon
  <2> QED BY <2>1, <2>2 DEF IInv, Stored, TypeOK, MiddleLen
<1> QED BY <1>1, Inductive, PTL
=============================================================================
