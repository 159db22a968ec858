--------------------------- MODULE GistCarryProofs ---------------------------
(***************************************************************************)
(* Proofs about GistCarry: the coordinates and codes of every layer stay in *)
(* the basis that layer holds (OneBasis), the ablation arms' bases stop     *)
(* moving (FrozenStill), and the bill read off the live layers is what they *)
(* store (BilledIsStored), for all arms, layers, block sizes and budgets.   *)
(*                                                                         *)
(* OneBasis looks only at the ends of absorbs.  What is inductive is that a *)
(* column is current at every step of an absorb except after a step that    *)
(* raised (Current): the rotations, the repair and the appended block each   *)
(* preserve it for the layer they touch.  FrozenStill needs that the        *)
(* frontier a tracker reads never falls behind what its layer absorbed      *)
(* (FrontierAhead).                                                        *)
(*                                                                         *)
(* The bill reads the first layer's counts for all of them.  That is right  *)
(* because the layers go in step (Lockstep): each lets as many tokens out   *)
(* of its exact tier as the others, whichever those are.  What is left is   *)
(* arithmetic: sums over the layers, and the words each layer rounds up to  *)
(* against the words of their mean.                                         *)
(***************************************************************************)
EXTENDS GistCarry, IndexOrderProofs, FiniteSetTheorems, TLAPS

\* One stream's basis, both streams' bases (a column's tag), one layer's gist.
Basis == [gen : Int, width : 0 .. Features]
Column == [Streams -> Basis]
Gist == [basis : Column, c : Seq(Column), codes : Seq(Column), word : {16, 32},
         exact : SUBSET Nat, frontier : Nat, absorbs : Nat]

\* Every variable has its shape; positions held or absorbed have graduated; an
\* absorb that has begun has something to absorb.
TypeOK ==
    /\ arm \in Arms
    /\ gist \in [Layers -> Gist]
    /\ graduated \in Nat /\ counter \in Nat
    /\ pc \in {"idle", "select", "step", "failed", "guard", "append", "aborted"}
    /\ at \in Layers
    /\ fresh \in SUBSET (0 .. graduated - 1)
    /\ block \in SUBSET (0 .. graduated - 1)
    /\ \A l \in Layers : gist[l].exact \in SUBSET (0 .. graduated - 1)
    /\ pc \in {"step", "guard", "append"} => block # {}
    /\ rankBefore \in [Streams -> Nat]
    /\ newest \in [Layers -> Nat]

\* Every column a layer holds is in the layer's basis, at every step of an absorb,
\* but for the layer whose tracker step raised.
Current ==
    \A l \in Layers :
        \/ pc = "failed" /\ l = at
        \/ gist[l].c \in Seq({gist[l].basis}) /\ gist[l].codes \in Seq({gist[l].basis})

\* The frontier of a layer covers the newest position it absorbed.
FrontierAhead == \A l \in Layers : newest[l] <= gist[l].frontier

\* The inductive invariant.
IInv == TypeOK /\ Current /\ FrontierAhead

------------------------------------------------------------------------------
\* The rotation of the coordinates takes columns of one basis to the next.
LEMMA CarryKeeps ==
  ASSUME NEW b \in Column, NEW to \in Column, NEW cols \in Seq({b})
  PROVE  Carry(cols, b, to) \in Seq({to})
<1> DEFINE n == Len(cols)
           out == [i \in 1 .. n |-> [s \in Streams |-> Rotated(cols[i][s], b[s], to[s])]]
<1>1. n \in Nat /\ DOMAIN cols = 1 .. n /\ \A i \in 1 .. n : cols[i] = b
  OBVIOUS
<1>2. Carry(cols, b, to) = out
  BY <1>1 DEF Carry
<1>3. \A i \in 1 .. n : out[i] = to
  BY <1>1 DEF Rotated, Column
<1> QED BY <1>1, <1>2, <1>3

\* _rotate_quant_tier does the same for the codes, when the streams that do not
\* rotate keep their basis.
LEMMA RotateKeeps ==
  ASSUME NEW b \in Column, NEW to \in Column, NEW cols \in Seq({b}),
         NEW moved \in SUBSET Streams, \A s \in Streams \ moved : to[s] = b[s]
  PROVE  RotateQuantTier(cols, b, to, moved) \in Seq({to})
<1> DEFINE n == Len(cols)
           out == [i \in 1 .. n |-> [s \in Streams |->
                     IF s \in moved THEN Rotated(cols[i][s], b[s], to[s]) ELSE cols[i][s]]]
<1>1. n \in Nat /\ DOMAIN cols = 1 .. n /\ \A i \in 1 .. n : cols[i] = b
  OBVIOUS
<1>2. RotateQuantTier(cols, b, to, moved) = out
  BY <1>1 DEF RotateQuantTier
<1>3. \A i \in 1 .. n : out[i] = to
  <2> SUFFICES ASSUME NEW i \in 1 .. n PROVE out[i] = to
    OBVIOUS
  <2>1. \A s \in Streams : out[i][s] = to[s]
    BY <1>1 DEF Rotated
  <2>2. out[i] = [s \in Streams |-> out[i][s]]
    OBVIOUS
  <2>3. to = [s \in Streams |-> to[s]]
    BY DEF Column
  <2> HIDE DEF out
  <2> QED BY <2>1, <2>2, <2>3
<1> QED BY <1>1, <1>2, <1>3

\* A gist whose bases are replaced with its columns carried is again a gist with
\* every column in its basis.
LEMMA InBasisKeeps ==
  ASSUME NEW g \in Gist, NEW to \in Column, NEW moved \in SUBSET Streams,
         g.c \in Seq({g.basis}), g.codes \in Seq({g.basis}),
         \A s \in Streams \ moved : to[s] = g.basis[s]
  PROVE  LET h == InBasis(g, to, moved)
         IN /\ h \in Gist
            /\ h.basis = to /\ h.c \in Seq({to}) /\ h.codes \in Seq({to})
            /\ h.word = g.word /\ h.exact = g.exact
            /\ h.frontier = g.frontier /\ h.absorbs = g.absorbs
<1> DEFINE h == InBasis(g, to, moved)
<1>1. g.basis \in Column
  BY DEF Gist
<1>2. Carry(g.c, g.basis, to) \in Seq({to})
  BY <1>1, CarryKeeps
<1>3. RotateQuantTier(g.codes, g.basis, to, moved) \in Seq({to})
  BY <1>1, RotateKeeps
<1>4. \A s \in Seq({to}) : s \in Seq(Column)
  OBVIOUS
<1> HIDE DEF Column
<1> QED BY <1>2, <1>3, <1>4 DEF InBasis, Gist

\* Min of two naturals is bounded by both.
LEMMA MinOfTwo ==
  ASSUME NEW x \in Nat, NEW y \in Nat
  PROVE  Min({x, y}) \in 0 .. x /\ Min({x, y}) \in 0 .. y
<1>1. \E z \in {x, y} : \A w \in {x, y} : z <= w
  <2>1. CASE x <= y
    BY <2>1
  <2>2. CASE y <= x
    BY <2>2
  <2> QED BY <2>1, <2>2
<1>2. Min({x, y}) = CHOOSE z \in {x, y} : \A w \in {x, y} : z <= w
  BY DEF Min
<1> QED BY <1>1, <1>2

\* Max of three integers is one of them and bounds them all.
LEMMA MaxOfFew ==
  ASSUME NEW x \in Int, NEW y \in Int, NEW z \in Int
  PROVE  /\ Max({x, y, z}) \in {x, y, z}
         /\ Max({x, y, z}) >= x /\ Max({x, y, z}) >= y /\ Max({x, y, z}) >= z
<1> DEFINE S == {x, y, z}
<1>1. \E u \in S : \A w \in S : u >= w
  <2>1. CASE x >= y /\ x >= z
    BY <2>1
  <2>2. CASE y >= x /\ y >= z
    BY <2>2
  <2>3. CASE z >= y /\ z >= x
    BY <2>3
  <2> QED BY <2>1, <2>2, <2>3
<1>3. Max(S) = CHOOSE u \in S : \A w \in S : u >= w
  BY DEF Max
<1> QED BY <1>1, <1>3

\* Max of two integers is one of them and bounds both.
LEMMA MaxOfTwo ==
  ASSUME NEW x \in Int, NEW y \in Int
  PROVE  Max({x, y}) \in {x, y} /\ Max({x, y}) >= x /\ Max({x, y}) >= y
<1>1. \E u \in {x, y} : \A w \in {x, y} : u >= w
  <2>1. CASE x >= y
    BY <2>1
  <2>2. CASE y >= x
    BY <2>2
  <2> QED BY <2>1, <2>2
<1>2. Max({x, y}) = CHOOSE u \in {x, y} : \A w \in {x, y} : u >= w
  BY DEF Max
<1> QED BY <1>1, <1>2

\* A nonempty set of naturals below a bound has its maximum among its elements.
LEMMA MaxOfBounded ==
  ASSUME NEW n \in Nat, NEW S \in SUBSET (0 .. n - 1), S # {}
  PROVE  Max(S) \in S /\ \A x \in S : Max(S) >= x
<1> DEFINE T == {k \in Nat : n - k \in S}
<1>1. PICK x \in S : TRUE
  OBVIOUS
<1>2. n - x \in T
  BY <1>1
<1> DEFINE R == {p \in Nat \X Nat : p[1] < p[2]}
<1>r. IsWellFoundedOn(R, Nat)
  BY NatLessThanWellFounded DEF OpToRel
<1>t. T \subseteq Nat /\ T # {}
  BY <1>2
<1>3. PICK k \in T : \A j \in T : ~(<<j, k>> \in R)
  <2> HIDE DEF T, R
  <2> QED BY <1>r, <1>t, WFMin
<1>4. \A j \in T : j >= k
  <2>1. \A i, j \in Nat : i < j => <<i, j>> \in R
    OBVIOUS
  <2> HIDE DEF T, R
  <2>2. \A j \in T : ~(j < k)
    BY <1>3, <1>t, <2>1, Zenon
  <2> QED BY <1>3, <1>t, <2>2
<1>5. n - k \in S /\ \A y \in S : n - k >= y
  <2> SUFFICES ASSUME NEW y \in S PROVE n - k >= y
    OBVIOUS
  <2>1. n - y \in T
    OBVIOUS
  <2> QED BY <2>1, <1>4
<1>6. Max(S) = CHOOSE u \in S : \A w \in S : u >= w
  BY DEF Max
<1> HIDE DEF T
<1> QED BY <1>5, <1>6
------------------------------------------------------------------------------
\* A tracker step returns bases; frozen past freeze_after, or random once drawn,
\* it returns the basis it was given.
LEMMA StepInBasis ==
  ASSUME NEW a \in Arms, NEW b \in Basis, NEW m \in Nat \ {0}, NEW seen \in Nat
  PROVE  /\ Step(a, b, m, seen) \subseteq Basis
         /\ b # NoBasis /\ a.tracker = "frozen" /\ seen >= a.freeze_after
              => Step(a, b, m, seen) = {b}
         /\ b # NoBasis /\ a.tracker = "random" => Step(a, b, m, seen) = {b}
<1>0. /\ Features \in Nat \ {0} /\ a.rank \in Nat \ {0} /\ Generations \in Nat \ {0}
      /\ a.tracker \in {"isvd", "oja", "fd", "frozen", "random"} /\ a.freeze_after \in Nat
  BY ConstantsAssumption
<1>1. After(b.gen) \in Int
  BY <1>0 DEF After, Basis
<1>2. Augmented(b.width, m) \subseteq 0 .. Features
  <2>1. Features \in Nat /\ m \in Nat /\ b.width \in 0 .. Features /\ Features - b.width \in Nat
    BY <1>0 DEF Basis
  <2>2. Min({Features, m}) \in 0 .. Features
    BY <2>1, MinOfTwo, Zenon
  <2>3. Min({m, Features - b.width}) \in 0 .. Features - b.width
    BY <2>1, MinOfTwo, Zenon
  <2> QED BY <2>1, <2>2, <2>3 DEF Augmented
<1>3. \A k \in 0 .. Features : Min({a.rank, k}) \in 0 .. Features
  <2> SUFFICES ASSUME NEW k \in 0 .. Features PROVE Min({a.rank, k}) \in 0 .. Features
    OBVIOUS
  <2>1. k \in Nat /\ a.rank \in Nat
    BY <1>0
  <2>2. Min({a.rank, k}) \in 0 .. k
    BY <2>1, MinOfTwo, Zenon
  <2> QED BY <1>0, <2>2
<1>4. \A k \in 0 .. Features : Kept(a, k) \subseteq 0 .. Features
  BY <1>0, <1>3 DEF Kept
<1>5. \A W \in SUBSET (0 .. Features) : Moved(b, W) \subseteq Basis
  BY <1>1 DEF Moved, Basis
<1>6. augmented_bug_step(a, b, m) \subseteq Basis
  BY <1>2, <1>4, <1>5 DEF augmented_bug_step
<1>7. fd_step(a, b, m) \subseteq Basis
  BY <1>2, <1>3, <1>5 DEF fd_step
<1>8. oja_step(a, b, m) \subseteq Basis
  BY <1>2, <1>3, <1>5 DEF oja_step, Basis
<1>9. random_step(a, b) \subseteq Basis
  <2>0. Features \in Nat /\ a.rank \in Nat
    BY <1>0
  <2>1. Min({Features, a.rank}) \in 0 .. Features
    BY <2>0, MinOfTwo, Zenon
  <2> QED BY <2>1, <1>5 DEF random_step
<1>10. frozen_step(a, b, m, seen) \subseteq Basis
  BY <1>6 DEF frozen_step
<1>11. Step(a, b, m, seen) \subseteq Basis
  BY <1>0, <1>6, <1>7, <1>8, <1>9, <1>10 DEF Step
<1>12. b # NoBasis /\ a.tracker = "frozen" /\ seen >= a.freeze_after
              => Step(a, b, m, seen) = {b}
  BY <1>0 DEF Step, frozen_step
<1>13. b # NoBasis /\ a.tracker = "random" => Step(a, b, m, seen) = {b}
  BY DEF Step, random_step
<1> QED BY <1>11, <1>12, <1>13

\* The frontier told to a step covers the old one and the block.
LEMMA FrontierMoves ==
  ASSUME TypeOK, block # {}
  PROVE  /\ Max(block) \in 0 .. graduated - 1
         /\ TokensSeen(at) \in Nat /\ TokensSeen(at) >= gist[at].frontier
         /\ TokensSeen(at) >= Max(block) + 1
<1>1. gist[at].frontier \in Int /\ counter \in Int /\ graduated \in Nat
  BY DEF TypeOK, Gist
<1>2. Max(block) \in block /\ Max(block) \in 0 .. graduated - 1
  BY <1>1, MaxOfBounded DEF TypeOK
<1>3. Max(block) + 1 \in Int
  BY <1>2
<1>4. LET m == Max({gist[at].frontier, counter, Max(block) + 1})
      IN /\ m \in {gist[at].frontier, counter, Max(block) + 1}
         /\ m >= gist[at].frontier /\ m >= counter /\ m >= Max(block) + 1
  BY <1>1, <1>3, MaxOfFew, Zenon
<1> QED BY <1>1, <1>2, <1>4 DEF TokensSeen, TypeOK, Gist

\* The fp32 working copy keeps the layer's bases, coordinates and codes.
LEMMA WidenedIsGist ==
  ASSUME TypeOK, block # {}
  PROVE  /\ StepFrontier \in Nat /\ StepFrontier >= gist[at].frontier
         /\ Widened \in Gist
         /\ Widened.basis = gist[at].basis /\ Widened.c = gist[at].c
         /\ Widened.codes = gist[at].codes /\ Widened.exact = gist[at].exact
         /\ Widened.frontier = StepFrontier
<1>1. StepFrontier \in Nat /\ StepFrontier >= gist[at].frontier
  BY FrontierMoves DEF StepFrontier, TypeOK, Gist
<1>2. gist[at] \in Gist
  BY DEF TypeOK
<1> QED BY <1>1, <1>2 DEF Widened, Gist

\* StepInBasis for the step under way, at the frontier that step reads.
LEMMA StepBasesInBasis ==
  ASSUME TypeOK, block # {}, NEW s \in Streams
  PROVE  /\ StepBases(s) \subseteq Basis
         /\ gist[at].basis[s] # NoBasis /\ arm.tracker = "frozen"
              /\ StepFrontier >= arm.freeze_after => StepBases(s) = {gist[at].basis[s]}
         /\ gist[at].basis[s] # NoBasis /\ arm.tracker = "random"
              => StepBases(s) = {gist[at].basis[s]}
<1>1. IsFiniteSet(block)
  <2>1. 0 \in Int /\ graduated - 1 \in Int /\ block \in SUBSET (0 .. graduated - 1)
    BY DEF TypeOK
  <2>2. IsFiniteSet(0 .. graduated - 1)
    BY <2>1, FS_Interval
  <2> QED BY <2>1, <2>2, FS_Subset
<1>2. Cardinality(block) \in Nat \ {0}
  BY <1>1, FS_CardinalityType, FS_EmptySet
<1>3. gist[at].basis[s] \in Basis /\ arm \in Arms
  BY DEF TypeOK, Gist, Column
<1> QED BY <1>2, <1>3, WidenedIsGist, StepInBasis DEF StepBases

------------------------------------------------------------------------------
\* A fresh cache satisfies the invariant: it holds no column.
LEMMA InitHolds == Init => IInv
<1> SUFFICES ASSUME Init PROVE IInv
  OBVIOUS
<1>0. Features \in Nat \ {0} /\ NumLayers \in Nat \ {0}
  BY ConstantsAssumption
<1>1. NoBasis \in Basis /\ 1 \in Layers /\ arm \in Arms
  BY <1>0 DEF NoBasis, Basis, Layers, Init
<1>2. /\ Blank(arm) \in Gist /\ Blank(arm).exact = {} /\ Blank(arm).c = <<>>
      /\ Blank(arm).codes = <<>> /\ Blank(arm).frontier = 0
  BY <1>1, ConstantsAssumption DEF Blank, Gist, Column
<1>3. gist = [l \in Layers |-> Blank(arm)]
  BY DEF Init, Untouched
<1>4. TypeOK
  BY <1>1, <1>2, <1>3 DEF Init, TypeOK
<1>5. Current /\ FrontierAhead
  <2>1. \A x : <<>> \in Seq({x})
    OBVIOUS
  <2>2. \A l \in Layers : gist[l] = Blank(arm) /\ newest[l] = 0
    BY <1>3 DEF Init
  <2>3. Current
    BY <1>2, <2>1, <2>2, Zenon DEF Current
  <2> QED BY <1>2, <2>2, <2>3 DEF FrontierAhead
<1> QED BY <1>4, <1>5 DEF IInv

\* A block leaving the recent ring touches no gist.
LEMMA GraduateKeeps ==
  ASSUME IInv, NEW m \in 1 .. MaxBlock, Graduate(m)
  PROVE  IInv'
<1>1. m \in Nat \ {0}
  BY ConstantsAssumption
<1>2. graduated' \in Nat /\ counter' \in Nat /\ 0 .. graduated - 1 \subseteq 0 .. graduated' - 1
  BY <1>1 DEF IInv, TypeOK, Graduate
<1>3. fresh' \in SUBSET (0 .. graduated' - 1)
  BY <1>1 DEF IInv, TypeOK, Graduate
<1>4. TypeOK'
  BY <1>2, <1>3 DEF IInv, TypeOK, Graduate
<1> QED BY <1>4 DEF IInv, Current, FrontierAhead, Graduate

\* The control variables after a layer is done.
LEMMA NextLayerTypes ==
  ASSUME TypeOK, NextLayer
  PROVE  at' \in Layers /\ fresh' \in {fresh, {}} /\ block' = {} /\ pc' \in {"select", "idle"}
BY ConstantsAssumption DEF TypeOK, NextLayer, Layers

\* Choosing what leaves the exact tier keeps the invariant.
LEMMA SelectKeeps ==
  ASSUME IInv, Select
  PROVE  IInv'
<1> DEFINE pool == gist[at].exact \cup fresh
<1>1. PICK out \in SUBSET pool :
        /\ gist' = [gist EXCEPT ![at].exact = pool \ out]
        /\ IF out = {} THEN NextLayer
           ELSE block' = out /\ pc' = "step" /\ UNCHANGED <<at, fresh>>
  BY DEF Select, kSubset
<1>2. pool \in SUBSET (0 .. graduated - 1) /\ pool \in SUBSET Nat /\ at \in Layers
  <2>1. at \in Layers /\ graduated \in Nat
    BY DEF IInv, TypeOK
  <2>2. /\ \A x \in gist[at].exact : x \in 0 .. graduated - 1
        /\ \A x \in fresh : x \in 0 .. graduated - 1
    BY <2>1 DEF IInv, TypeOK
  <2>3. \A x \in pool : x \in 0 .. graduated - 1 /\ x \in Nat
    BY <2>1, <2>2
  <2> HIDE DEF pool
  <2> QED BY <2>1, <2>3
<1>3. /\ gist' \in [Layers -> Gist]
      /\ gist'[at].exact = pool \ out
      /\ \A l \in Layers \ {at} : gist'[l] = gist[l]
      /\ \A l \in Layers : /\ gist'[l].basis = gist[l].basis /\ gist'[l].c = gist[l].c
                           /\ gist'[l].codes = gist[l].codes
                           /\ gist'[l].frontier = gist[l].frontier
  <2>1. gist \in [Layers -> Gist] /\ gist[at] \in Gist /\ pool \ out \in SUBSET Nat
    BY <1>2 DEF IInv, TypeOK
  <2>2. gist' = [gist EXCEPT ![at] = [gist[at] EXCEPT !.exact = pool \ out]]
    BY <1>1
  <2>3. LET h == [gist[at] EXCEPT !.exact = pool \ out]
        IN /\ h \in Gist /\ h.exact = pool \ out /\ h.basis = gist[at].basis
           /\ h.c = gist[at].c /\ h.codes = gist[at].codes
           /\ h.frontier = gist[at].frontier
    BY <2>1 DEF Gist
  <2> HIDE DEF pool
  <2> QED BY <1>2, <2>1, <2>2, <2>3
<1>4. /\ at' \in Layers /\ fresh' \in {fresh, {}} /\ block' \in {{}, out}
      /\ pc' \in {"select", "idle", "step"} /\ (pc' = "step" => block' # {})
  BY <1>1, NextLayerTypes DEF IInv, TypeOK
<1>5. /\ arm' = arm /\ graduated' = graduated /\ counter' = counter
      /\ rankBefore' = rankBefore /\ newest' = newest /\ pc = "select"
  BY DEF Select
<1>6. \A l \in Layers : gist'[l].exact \in SUBSET (0 .. graduated' - 1)
  BY <1>1, <1>2, <1>3, <1>5 DEF IInv, TypeOK
<1>7. TypeOK'
  BY <1>1, <1>2, <1>3, <1>4, <1>5, <1>6 DEF IInv, TypeOK
<1>8. Current' /\ FrontierAhead'
  BY <1>3, <1>4, <1>5 DEF IInv, Current, FrontierAhead
<1> QED BY <1>7, <1>8 DEF IInv

\* What an update of one layer's gist leaves alone.
LEMMA LayerReplaced ==
  ASSUME TypeOK, NEW h \in Gist, gist' = [gist EXCEPT ![at] = h]
  PROVE  /\ gist' \in [Layers -> Gist] /\ gist'[at] = h
         /\ \A l \in Layers \ {at} : gist'[l] = gist[l]
BY DEF TypeOK

\* Both streams step and every held column is carried along.
LEMMA TrackStepKeeps ==
  ASSUME IInv, TrackStep
  PROVE  IInv'
<1>1. TypeOK /\ pc = "step" /\ block # {} /\ at \in Layers
  BY DEF IInv, TypeOK, TrackStep
<1>2. PICK bk \in StepBases("k"), bv \in StepBases("v") :
        gist' = [gist EXCEPT ![at] = InBasis(Widened, [k |-> bk, v |-> bv], Streams)]
  BY DEF TrackStep
<1> DEFINE to == [k |-> bk, v |-> bv]
           h == InBasis(Widened, to, Streams)
<1>3. to \in Column
  <2>1. bk \in Basis /\ bv \in Basis
    BY <1>1, StepBasesInBasis DEF Streams
  <2> QED BY <2>1 DEF Column, Streams
<1>4. gist[at].c \in Seq({gist[at].basis}) /\ gist[at].codes \in Seq({gist[at].basis})
  BY <1>1 DEF IInv, Current
<1>5. /\ h \in Gist /\ h.basis = to /\ h.c \in Seq({to}) /\ h.codes \in Seq({to})
      /\ h.exact = gist[at].exact /\ h.frontier = StepFrontier
  <2>1. /\ Widened \in Gist /\ Widened.c \in Seq({Widened.basis})
        /\ Widened.codes \in Seq({Widened.basis})
        /\ Widened.exact = gist[at].exact /\ Widened.frontier = StepFrontier
    BY <1>1, <1>4, WidenedIsGist
  <2>2. /\ \A s \in Streams \ Streams : to[s] = Widened.basis[s]
        /\ Streams \in SUBSET Streams
    OBVIOUS
  <2> HIDE DEF to
  <2> QED BY <1>3, <2>1, <2>2, InBasisKeeps
<1> HIDE DEF h, to
<1>6. /\ gist' \in [Layers -> Gist] /\ gist'[at] = h
      /\ \A l \in Layers \ {at} : gist'[l] = gist[l]
  BY <1>1, <1>2, <1>5, LayerReplaced DEF h, to
<1>7. rankBefore' \in [Streams -> Nat]
  BY <1>1, ConstantsAssumption DEF TrackStep, TypeOK, Gist, Column, Basis
<1>8. TypeOK'
  BY <1>1, <1>5, <1>6, <1>7 DEF TypeOK, TrackStep
<1>9. Current'
  BY <1>5, <1>6, <1>1 DEF IInv, Current, TrackStep
<1>10. FrontierAhead'
  <2>1. StepFrontier \in Nat /\ StepFrontier >= gist[at].frontier
    BY <1>1, WidenedIsGist
  <2>2. newest' = newest /\ newest[at] \in Nat /\ gist[at].frontier \in Nat
    BY <1>1 DEF TrackStep, TypeOK, Gist
  <2> QED BY <1>1, <1>5, <1>6, <2>1, <2>2 DEF IInv, FrontierAhead
<1> QED BY <1>8, <1>9, <1>10 DEF IInv

\* A raising step leaves columns behind only in the layer it was working on.
LEMMA StepFailsKeeps ==
  ASSUME IInv, StepFails
  PROVE  IInv'
<1>1. TypeOK /\ pc = "step" /\ block # {} /\ at \in Layers
  BY DEF IInv, TypeOK, StepFails
<1>2. Widened \in Gist /\ Widened.frontier >= gist[at].frontier
      /\ Widened.exact = gist[at].exact
  BY <1>1, WidenedIsGist
<1>3. \A bk \in StepBases("k") :
        LET h == [Widened EXCEPT !.basis["k"] = bk]
        IN h \in Gist /\ h.frontier = Widened.frontier /\ h.exact = Widened.exact
  <2> SUFFICES ASSUME NEW bk \in StepBases("k")
               PROVE  LET h == [Widened EXCEPT !.basis["k"] = bk]
                      IN h \in Gist /\ h.frontier = Widened.frontier /\ h.exact = Widened.exact
    OBVIOUS
  <2>1. bk \in Basis
    BY <1>1, StepBasesInBasis DEF Streams
  <2>2. [Widened.basis EXCEPT !["k"] = bk] \in Column
    BY <1>2, <2>1 DEF Gist, Column, Streams
  <2> HIDE DEF Column
  <2> QED BY <1>2, <2>2 DEF Gist
<1>4. \E h \in Gist : /\ gist' = [gist EXCEPT ![at] = h]
                     /\ h.frontier >= gist[at].frontier /\ h.exact = gist[at].exact
  <2>1. CASE gist' = [gist EXCEPT ![at] = Widened]
    BY <1>2, <2>1
  <2>2. CASE \E bk \in StepBases("k") :
               gist' = [gist EXCEPT ![at] = [Widened EXCEPT !.basis["k"] = bk]]
    <3>1. PICK bk \in StepBases("k") :
            gist' = [gist EXCEPT ![at] = [Widened EXCEPT !.basis["k"] = bk]]
      BY <2>2
    <3> DEFINE h == [Widened EXCEPT !.basis["k"] = bk]
    <3>2. h \in Gist /\ h.frontier = Widened.frontier /\ h.exact = Widened.exact
      BY <1>3
    <3>3. gist' = [gist EXCEPT ![at] = h]
      BY <3>1
    <3> HIDE DEF h
    <3> QED BY <1>2, <3>2, <3>3
  <2> QED BY <2>1, <2>2 DEF StepFails
<1>5. PICK h \in Gist : /\ gist' = [gist EXCEPT ![at] = h]
                      /\ h.frontier >= gist[at].frontier /\ h.exact = gist[at].exact
  BY <1>4
<1>6. /\ gist' \in [Layers -> Gist] /\ gist'[at] = h
      /\ \A l \in Layers \ {at} : gist'[l] = gist[l]
  BY <1>1, <1>5, LayerReplaced
<1>7. TypeOK'
  BY <1>1, <1>5, <1>6 DEF TypeOK, StepFails
<1>8. Current'
  BY <1>1, <1>6 DEF IInv, Current, StepFails
<1>9. FrontierAhead'
  <2>1. newest' = newest /\ newest[at] \in Nat /\ gist[at].frontier \in Nat /\ h.frontier \in Nat
    BY <1>1 DEF StepFails, TypeOK, Gist
  <2> QED BY <1>1, <1>5, <1>6, <2>1 DEF IInv, FrontierAhead
<1> QED BY <1>7, <1>8, <1>9 DEF IInv

\* The guard's repair of some streams carries the columns of those streams.
LEMMA GuardKeeps ==
  ASSUME IInv, Guard
  PROVE  IInv'
<1>1. TypeOK /\ pc = "guard" /\ block # {} /\ at \in Layers
  BY DEF IInv, TypeOK, Guard
<1> DEFINE n == gist[at].absorbs + 1
           b == gist[at].basis
           counted == [gist[at] EXCEPT !.absorbs = n, !.frontier = TokensSeen(at)]
<1>2. PICK bad \in SUBSET Streams :
        LET fixed == Forced(n) \cup (IF arm.fix THEN bad ELSE {})
        IN /\ gist' = [gist EXCEPT ![at] =
                         InBasis(counted, Reorthonormalized(b, fixed), fixed)]
           /\ pc' \in {"append", "aborted"}
  BY DEF Guard
<1> DEFINE fixed == Forced(n) \cup (IF arm.fix THEN bad ELSE {})
           to == Reorthonormalized(b, fixed)
           h == InBasis(counted, to, fixed)
<1>3. gist[at] \in Gist /\ b \in Column
  BY <1>1 DEF TypeOK, Gist
<1>4. TokensSeen(at) \in Nat /\ TokensSeen(at) >= gist[at].frontier
      /\ TokensSeen(at) >= Max(block) + 1 /\ Max(block) \in Nat
  BY <1>1, FrontierMoves DEF TypeOK
<1>5. /\ counted \in Gist /\ counted.basis = b /\ counted.c = gist[at].c
      /\ counted.codes = gist[at].codes /\ counted.exact = gist[at].exact
      /\ counted.frontier = TokensSeen(at)
  <2>1. n \in Nat
    BY <1>3 DEF Gist
  <2> HIDE DEF n
  <2> QED BY <1>3, <1>4, <2>1 DEF Gist
<1>6. fixed \in SUBSET Streams
  BY DEF Forced
<1>7. to \in Column /\ \A s \in Streams \ fixed : to[s] = b[s]
  <2>1. \A x \in Basis : [x EXCEPT !.gen = After(@)] \in Basis
    BY ConstantsAssumption DEF Basis, After
  <2> HIDE DEF fixed, b
  <2> QED BY <1>3, <2>1 DEF Reorthonormalized, Column
<1>8. counted.c \in Seq({b}) /\ counted.codes \in Seq({b})
  BY <1>1, <1>5 DEF IInv, Current
<1>9. /\ h \in Gist /\ h.basis = to /\ h.c \in Seq({to}) /\ h.codes \in Seq({to})
      /\ h.exact = gist[at].exact /\ h.frontier = TokensSeen(at)
  <2> HIDE DEF counted, to, fixed, b
  <2> QED BY <1>5, <1>6, <1>7, <1>8, InBasisKeeps
<1> HIDE DEF h, to
<1>10. /\ gist' \in [Layers -> Gist] /\ gist'[at] = h
       /\ \A l \in Layers \ {at} : gist'[l] = gist[l]
  BY <1>1, <1>2, <1>9, LayerReplaced DEF h, to
<1>11. /\ newest' = [newest EXCEPT ![at] = Max({@, Max(block) + 1})]
       /\ newest'[at] \in Nat /\ newest'[at] <= TokensSeen(at)
  <2>1. newest[at] \in Int /\ Max(block) + 1 \in Int /\ newest[at] \in Nat
        /\ newest[at] <= gist[at].frontier /\ gist[at].frontier \in Nat
    BY <1>1, <1>3, <1>4 DEF IInv, TypeOK, FrontierAhead, Gist
  <2>2. Max({newest[at], Max(block) + 1}) \in {newest[at], Max(block) + 1}
    BY <2>1, MaxOfTwo, Zenon
  <2> QED BY <1>1, <1>4, <2>1, <2>2 DEF Guard, TypeOK
<1>12. TypeOK'
  BY <1>1, <1>2, <1>9, <1>10, <1>11 DEF TypeOK, Guard
<1>13. Current'
  BY <1>1, <1>2, <1>9, <1>10 DEF IInv, Current, Guard
<1>14. FrontierAhead'
  BY <1>1, <1>9, <1>10, <1>11 DEF IInv, FrontierAhead, TypeOK
<1> QED BY <1>12, <1>13, <1>14 DEF IInv

\* The block's own coordinates are in the basis the guard left, and the budgets
\* move columns without changing them.
LEMMA AppendBlockKeeps ==
  ASSUME IInv, AppendBlock
  PROVE  IInv'
<1>1. /\ TypeOK /\ pc = "append" /\ at \in Layers /\ arm \in Arms
      /\ gist[at] \in Gist /\ gist[at].basis \in Column
  BY DEF IInv, TypeOK, AppendBlock, Gist
<1> DEFINE g == gist[at]
           b == g.basis
           n == Cardinality(block)
           own == [i \in 1 .. n |-> b]
           appended == [g EXCEPT !.c = @ \o own]
           h == [EnforceBudgets(appended) EXCEPT !.word = arm.gist]
<1>2. n \in Nat
  <2>1. 0 \in Int /\ graduated - 1 \in Int /\ block \in SUBSET (0 .. graduated - 1)
    BY <1>1 DEF TypeOK
  <2>2. IsFiniteSet(0 .. graduated - 1)
    BY <2>1, FS_Interval
  <2> QED BY <2>1, <2>2, FS_Subset, FS_CardinalityType
<1>3. g.c \in Seq({b}) /\ g.codes \in Seq({b})
  BY <1>1 DEF IInv, Current
<1>4. own \in Seq({b})
  BY <1>2
<1>5. \A s \in Seq({b}) : s \in Seq(Column)
  BY <1>1
<1>6. /\ appended \in Gist /\ appended.basis = b /\ appended.c \in Seq({b})
      /\ appended.codes = g.codes /\ appended.exact = g.exact
      /\ appended.frontier = g.frontier
  <2>1. g.c \o own \in Seq({b})
    BY <1>3, <1>4
  <2> HIDE DEF own, b
  <2> QED BY <1>1, <1>5, <2>1 DEF Gist, b
<1>7. /\ h \in Gist /\ h.basis = b /\ h.c \in Seq({b}) /\ h.codes \in Seq({b})
      /\ h.exact = g.exact /\ h.frontier = g.frontier
  <2>0. arm.coord_budget \in Nat /\ arm.quant_budget \in Nat /\ arm.gist \in {16, 32}
    BY <1>1, ConstantsAssumption
  <2>1. \A s \in Seq({b}), budget \in Nat : Surplus(s, budget) \in 0 .. Len(s)
    <3> SUFFICES ASSUME NEW s \in Seq({b}), NEW budget \in Nat
                 PROVE  Surplus(s, budget) \in 0 .. Len(s)
      OBVIOUS
    <3>1. Len(s) \in Nat /\ Len(s) - budget \in Int /\ 0 \in Int
      OBVIOUS
    <3>2. /\ Max({0, Len(s) - budget}) \in {0, Len(s) - budget}
          /\ Max({0, Len(s) - budget}) >= 0
      BY <3>1, MaxOfTwo, Zenon
    <3> QED BY <3>1, <3>2 DEF Surplus
  <2>2. \A s \in Seq({b}), i, j \in Nat : i >= 1 /\ j <= Len(s) => SubSeq(s, i, j) \in Seq({b})
    OBVIOUS
  <2> DEFINE out == Surplus(appended.c, arm.coord_budget)
             codes == IF arm.bits > 0 THEN appended.codes \o SubSeq(appended.c, 1, out)
                                      ELSE appended.codes
             c_new == SubSeq(appended.c, out + 1, Len(appended.c))
             q_new == SubSeq(codes, Surplus(codes, arm.quant_budget) + 1, Len(codes))
  <2>3. out \in 0 .. Len(appended.c) /\ Len(appended.c) \in Nat
    <3>1. appended.c \in Seq({b}) /\ arm.coord_budget \in Nat
      BY <1>6, <2>0
    <3> HIDE DEF appended, b
    <3>2. out \in 0 .. Len(appended.c)
      BY <2>1, <3>1, Zenon DEF out
    <3> QED BY <3>1, <3>2
  <2>4. c_new \in Seq({b}) /\ SubSeq(appended.c, 1, out) \in Seq({b})
    <3> HIDE DEF out, appended
    <3> QED BY <1>6, <2>2, <2>3
  <2>5. codes \in Seq({b})
    <3> HIDE DEF out, appended, b
    <3> QED BY <1>3, <1>6, <2>4
  <2>6. q_new \in Seq({b})
    <3> HIDE DEF codes, b
    <3>1. Surplus(codes, arm.quant_budget) \in 0 .. Len(codes) /\ Len(codes) \in Nat
      <4>1. Surplus(codes, arm.quant_budget) \in 0 .. Len(codes)
        BY <2>0, <2>1, <2>5, Zenon
      <4> QED BY <4>1, <2>5
    <3> QED BY <2>2, <2>5, <3>1
  <2>7. h = [[appended EXCEPT !.c = c_new, !.codes = q_new] EXCEPT !.word = arm.gist]
    BY DEF EnforceBudgets
  <2> HIDE DEF h, appended, c_new, q_new, b
  <2> QED BY <1>5, <1>6, <2>0, <2>4, <2>6, <2>7 DEF Gist
<1> HIDE DEF h
<1>8. /\ gist' = [gist EXCEPT ![at] = h] /\ NextLayer
      /\ arm' = arm /\ graduated' = graduated /\ counter' = counter /\ newest' = newest
      /\ rankBefore' = [s \in Streams |-> 0]
  BY DEF AppendBlock, h
<1>9. /\ gist' \in [Layers -> Gist] /\ gist'[at] = h
      /\ \A l \in Layers \ {at} : gist'[l] = gist[l]
  BY <1>1, <1>7, <1>8, LayerReplaced
<1>10. /\ at' \in Layers /\ fresh' \in {fresh, {}} /\ block' = {}
       /\ pc' \in {"select", "idle"}
  BY <1>1, <1>8, NextLayerTypes
<1>11. TypeOK'
  BY <1>1, <1>7, <1>8, <1>9, <1>10 DEF TypeOK
<1>12. Current'
  BY <1>1, <1>7, <1>9 DEF IInv, Current
<1>13. FrontierAhead'
  BY <1>7, <1>8, <1>9 DEF IInv, FrontierAhead
<1> QED BY <1>11, <1>12, <1>13 DEF IInv

\* The end of the first call touches no gist.
LEMMA EndPrefillKeeps ==
  ASSUME IInv, EndPrefill
  PROVE  IInv'
<1>1. counter' \in Nat
  BY ConstantsAssumption DEF IInv, TypeOK, EndPrefill
<1> QED BY <1>1 DEF IInv, TypeOK, Current, FrontierAhead, EndPrefill

\* The next sample starts from an empty cache.
LEMMA RenewKeeps ==
  ASSUME IInv, Renew
  PROVE  IInv'
<1>0. Features \in Nat \ {0} /\ NumLayers \in Nat \ {0}
  BY ConstantsAssumption
<1>1. NoBasis \in Basis /\ 1 \in Layers /\ arm \in Arms
  BY <1>0 DEF NoBasis, Basis, Layers, IInv, TypeOK
<1>2. /\ Blank(arm) \in Gist /\ Blank(arm).exact = {} /\ Blank(arm).c = <<>>
      /\ Blank(arm).codes = <<>> /\ Blank(arm).frontier = 0
  BY <1>1, ConstantsAssumption DEF Blank, Gist, Column
<1>3. \A l \in Layers : gist'[l] = Blank(arm) /\ newest'[l] = 0
  BY DEF Renew, Untouched
<1>4. TypeOK'
  BY <1>1, <1>2 DEF Renew, Untouched, TypeOK
<1>5. Current'
  <2>1. \A x : <<>> \in Seq({x})
    OBVIOUS
  <2> QED BY <1>2, <1>3, <2>1, Zenon DEF Current
<1>6. FrontierAhead'
  BY <1>2, <1>3 DEF FrontierAhead
<1> QED BY <1>4, <1>5, <1>6 DEF IInv

------------------------------------------------------------------------------
\* Every step preserves the invariant.
LEMMA NextKeeps == IInv /\ [Next]_vars => IInv'
<1> SUFFICES ASSUME IInv, [Next]_vars PROVE IInv'
  OBVIOUS
<1>1. CASE UNCHANGED vars
  BY <1>1 DEF vars, IInv, TypeOK, Current, FrontierAhead
<1>2. CASE Next
  BY <1>2, GraduateKeeps, SelectKeeps, TrackStepKeeps, StepFailsKeeps, GuardKeeps,
     AppendBlockKeeps, EndPrefillKeeps, RenewKeeps DEF Next
<1> QED BY <1>1, <1>2

\* IInv holds in every reachable state.
THEOREM Inductive == Spec => []IInv
BY InitHolds, NextKeeps, PTL DEF Spec

\* Type correctness: in every reachable state each layer's gist is well formed and
\* only graduated positions are held or absorbed.
THEOREM TypeCorrect == Spec => []TypeOK
<1>1. IInv => TypeOK
  BY DEF IInv
<1> QED BY <1>1, Inductive, PTL

\* Wherever an absorb has ended, every coordinate and every code of every layer is
\* expressed in the basis the layer holds (_absorb and _rotate_quant_tier carry
\* whatever the tracker step and the guard's repair move).
THEOREM BasisOfEveryColumn == Spec => []OneBasis
<1>1. IInv => OneBasis
  <2> SUFFICES ASSUME IInv, pc \in {"idle", "aborted"}, NEW l \in Layers,
                      NEW col \in ToSet(gist[l].c) \cup ToSet(gist[l].codes)
               PROVE  col = gist[l].basis
    BY DEF OneBasis
  <2>1. gist[l].c \in Seq({gist[l].basis}) /\ gist[l].codes \in Seq({gist[l].basis})
    BY DEF IInv, Current
  <2> QED BY <2>1 DEF ToSet
<1> QED BY <1>1, Inductive, PTL

\* A frozen arm's basis past freeze_after, and a random arm's from its first
\* absorb, moves only by the guard's repair.
THEOREM FrozenBasisStill == Spec => FrozenStill
<1> DEFINE Still == \A l \in Layers :
              Settled(l) /\ graduated' > 0 /\ gist'[l].basis # gist[l].basis
                => pc = "guard"
<1>1. IInv /\ [Next]_vars => [Still]_vars
  <2> SUFFICES ASSUME IInv, Next, NEW l \in Layers, Settled(l), graduated' > 0, pc # "guard"
               PROVE  gist'[l].basis = gist[l].basis
    OBVIOUS
  <2>0. gist \in [Layers -> Gist] /\ at \in Layers
    BY DEF IInv, TypeOK
  <2>1. CASE \E m \in 1 .. MaxBlock : Graduate(m)
    BY <2>1 DEF Graduate
  <2>2. CASE Select
    BY <2>0, <2>2 DEF Select, Gist
  <2>3. CASE TrackStep \/ StepFails
    <3>1. TypeOK /\ block # {} /\ gist[at].basis \in Column
      BY <2>0, <2>3 DEF IInv, TypeOK, TrackStep, StepFails, Gist
    <3>2. CASE l # at
      BY <2>0, <2>3, <3>2 DEF TrackStep, StepFails
    <3>3. CASE l = at
      <4>1. newest[at] \in Nat /\ newest[at] <= gist[at].frontier /\ gist[at].frontier \in Nat
            /\ StepFrontier \in Nat /\ StepFrontier >= gist[at].frontier
            /\ arm.freeze_after \in Nat
        BY <2>0, <3>1, WidenedIsGist, ConstantsAssumption DEF IInv, TypeOK, FrontierAhead, Gist
      <4>2. \A s \in Streams : gist[at].basis[s] # NoBasis
        BY <3>3 DEF Settled
      <4>3. arm.tracker = "random" \/ (arm.tracker = "frozen" /\ StepFrontier >= arm.freeze_after)
        BY <3>3, <4>1 DEF Settled
      <4>4. \A s \in Streams : StepBases(s) = {gist[at].basis[s]}
        BY <3>1, <4>2, <4>3, StepBasesInBasis
      <4>5. gist[at].basis = [k |-> gist[at].basis["k"], v |-> gist[at].basis["v"]]
        BY <3>1 DEF Column, Streams
      <4>6. /\ Widened \in Gist /\ Widened.basis = gist[at].basis
            /\ Widened.c = gist[at].c /\ Widened.codes = gist[at].codes
        BY <3>1, WidenedIsGist
      <4>7. CASE TrackStep
        <5>1. gist' = [gist EXCEPT ![at] = InBasis(Widened, gist[at].basis, Streams)]
          BY <4>4, <4>5, <4>7 DEF TrackStep, Streams
        <5>2. InBasis(Widened, gist[at].basis, Streams).basis = gist[at].basis
          BY <4>6 DEF InBasis, Gist
        <5> QED BY <2>0, <3>3, <5>1, <5>2
      <4>8. CASE StepFails
        <5>1. /\ [Widened EXCEPT !.basis["k"] = gist[at].basis["k"]].basis = gist[at].basis
          BY <3>1, <4>6 DEF Gist, Column, Streams
        <5>2. CASE gist' = [gist EXCEPT ![at] = Widened]
          BY <2>0, <3>3, <4>6, <5>2
        <5>3. CASE \E bk \in StepBases("k") :
                      gist' = [gist EXCEPT ![at] = [Widened EXCEPT !.basis["k"] = bk]]
          <6>1. PICK bk \in StepBases("k") :
                  gist' = [gist EXCEPT ![at] = [Widened EXCEPT !.basis["k"] = bk]]
            BY <5>3
          <6>2. bk = gist[at].basis["k"]
            BY <4>4 DEF Streams
          <6> QED BY <2>0, <3>3, <5>1, <6>1, <6>2
        <5> QED BY <4>8, <5>2, <5>3 DEF StepFails
      <4> QED BY <2>3, <4>7, <4>8
    <3> QED BY <3>2, <3>3
  <2>4. CASE Guard
    BY <2>4 DEF Guard
  <2>5. CASE AppendBlock
    BY <2>0, <2>5 DEF AppendBlock, EnforceBudgets, Gist
  <2>6. CASE EndPrefill
    BY <2>6 DEF EndPrefill
  <2>7. CASE Renew
    BY <2>7 DEF Renew
  <2> QED BY <2>1, <2>2, <2>3, <2>4, <2>5, <2>6, <2>7 DEF Next
<1> QED BY <1>1, Inductive, PTL DEF Spec, FrozenStill
------------------------------------------------------------------------------
(* Sums over a finite set, whatever the order their terms are taken in. *)

\* F is the function by which a sum of f over subsets of S is folded.
Summing(f, S, F) ==
  F = [T \in SUBSET S |->
         IF T = {} THEN 0 ELSE f[CHOOSE x \in T : TRUE] + F[T \ {CHOOSE x \in T : TRUE}]]

\* The terms of LiveRank.
Widths(l) == [s \in Streams |-> gist[l].basis[s].width]

\* LiveRank(l) is folded by a sum of the widths, given that one exists.
LEMMA LiveRankFold ==
  ASSUME NEW l, NEW G, Summing(Widths(l), Streams, G)
  PROVE  \E F : Summing(Widths(l), Streams, F) /\ LiveRank(l) = F[Streams]
<1> DEFINE F == CHOOSE F : F = [T \in SUBSET Streams |->
                   IF T = {} THEN 0
                   ELSE gist[l].basis[CHOOSE x \in T : TRUE].width + F[T \ {CHOOSE x \in T : TRUE}]]
<1>1. LiveRank(l) = F[Streams]
  BY DEF LiveRank, MapThenSumSet, MapThenFoldSet
<1>2. \A T \in SUBSET Streams : T # {} =>
        Widths(l)[CHOOSE x \in T : TRUE] = gist[l].basis[CHOOSE x \in T : TRUE].width
  BY DEF Widths
<1>3. G = [T \in SUBSET Streams |->
                   IF T = {} THEN 0
                   ELSE gist[l].basis[CHOOSE x \in T : TRUE].width + G[T \ {CHOOSE x \in T : TRUE}]]
  BY <1>2 DEF Summing
<1>4. F = [T \in SUBSET Streams |->
                   IF T = {} THEN 0
                   ELSE gist[l].basis[CHOOSE x \in T : TRUE].width + F[T \ {CHOOSE x \in T : TRUE}]]
  BY <1>3
<1>5. Summing(Widths(l), Streams, F)
  <2> HIDE DEF F
  <2> QED BY <1>4, <1>2 DEF Summing
<1> QED BY <1>1, <1>5

\* Subsets of at most n elements, the element a fold takes first, and the fold over
\* the subsets of at most n: sums are built up one size at a time.
Counted(S, n) == {T \in SUBSET S : Cardinality(T) <= n}
First(T) == CHOOSE x \in T : TRUE
Folds(f, S, n, F) ==
  F = [T \in Counted(S, n) |-> IF T = {} THEN 0 ELSE f[First(T)] + F[T \ {First(T)}]]

\* Terms over a finite set have a sum: otherwise there is a least size at which the
\* fold breaks, and the fold one size below extends to it.
LEMMA SumExists ==
  ASSUME NEW f, NEW S, IsFiniteSet(S)
  PROVE  \E F : Summing(f, S, F)
<1> DEFINE Missing == {n \in Nat : ~\E F : Folds(f, S, n, F)}
<1>1. \A T \in SUBSET S : /\ IsFiniteSet(T) /\ Cardinality(T) \in Nat
                          /\ Cardinality(T) <= Cardinality(S)
                          /\ T # {} => /\ First(T) \in T
                                       /\ Cardinality(T) # 0
                                       /\ Cardinality(T \ {First(T)}) = Cardinality(T) - 1
  <2> SUFFICES ASSUME NEW T \in SUBSET S
               PROVE /\ IsFiniteSet(T) /\ Cardinality(T) \in Nat
                     /\ Cardinality(T) <= Cardinality(S)
                     /\ T # {} => /\ First(T) \in T
                                  /\ Cardinality(T) # 0
                                  /\ Cardinality(T \ {First(T)}) = Cardinality(T) - 1
    OBVIOUS
  <2>1. IsFiniteSet(T) /\ Cardinality(T) \in Nat /\ Cardinality(T) <= Cardinality(S)
    BY FS_Subset, FS_CardinalityType
  <2>2. T # {} => First(T) \in T
    BY DEF First
  <2>3. T # {} => Cardinality(T) # 0
    BY <2>1, FS_EmptySet
  <2>4. T # {} => Cardinality(T \ {First(T)}) = Cardinality(T) - 1
    BY <2>1, <2>2, FS_RemoveElement
  <2> QED BY <2>1, <2>2, <2>3, <2>4
<1>2. Missing = {}
  <2> SUFFICES ASSUME Missing # {} PROVE FALSE
    OBVIOUS
  <2>1. PICK n \in Missing : \A k \in Missing : n <= k
    <3>1. Missing \in SUBSET Nat
      OBVIOUS
    <3> QED BY <3>1, LeastElement
  <2>2. n # 0
    <3> SUFFICES ASSUME n = 0 PROVE FALSE
      OBVIOUS
    <3> DEFINE F == [T \in Counted(S, 0) |-> 0]
    <3>1. \A T \in Counted(S, 0) : T = {}
      <4> SUFFICES ASSUME NEW T \in Counted(S, 0), T # {} PROVE FALSE
        OBVIOUS
      <4>1. T \in SUBSET S /\ Cardinality(T) <= 0
        BY DEF Counted
      <4>2. Cardinality(T) \in Nat /\ Cardinality(T) # 0
        BY <1>1, <4>1
      <4> QED BY <4>1, <4>2
    <3>2. Folds(f, S, 0, F)
      BY <3>1 DEF Folds
    <3> QED BY <2>1, <3>2
  <2>3. n - 1 \in Nat /\ n - 1 \notin Missing
    BY <2>1, <2>2
  <2>4. PICK G : Folds(f, S, n - 1, G)
    BY <2>3
  <2> DEFINE F == [T \in Counted(S, n) |->
                    IF T = {} THEN 0 ELSE f[First(T)] + G[T \ {First(T)}]]
  <2>5. \A T \in Counted(S, n) : T # {} => T \ {First(T)} \in Counted(S, n - 1)
    <3> SUFFICES ASSUME NEW T \in Counted(S, n), T # {}
                 PROVE  T \ {First(T)} \in Counted(S, n - 1)
      OBVIOUS
    <3>1. T \in SUBSET S /\ Cardinality(T) <= n
      BY DEF Counted
    <3>2. Cardinality(T \ {First(T)}) = Cardinality(T) - 1 /\ Cardinality(T) \in Nat
      BY <1>1, <3>1
    <3> QED BY <2>3, <3>1, <3>2 DEF Counted
  <2>6. Counted(S, n - 1) \subseteq Counted(S, n)
    <3> SUFFICES ASSUME NEW T \in Counted(S, n - 1) PROVE T \in Counted(S, n)
      OBVIOUS
    <3>1. T \in SUBSET S /\ Cardinality(T) <= n - 1
      BY DEF Counted
    <3>2. Cardinality(T) \in Nat
      BY <1>1, <3>1
    <3> QED BY <2>3, <3>1, <3>2 DEF Counted
  <2>7. \A T \in Counted(S, n - 1) :
          G[T] = IF T = {} THEN 0 ELSE f[First(T)] + G[T \ {First(T)}]
    BY <2>4 DEF Folds
  <2>8. \A T \in Counted(S, n - 1) : F[T] = G[T]
    BY <2>6, <2>7
  <2>9. \A T \in Counted(S, n) :
          F[T] = IF T = {} THEN 0 ELSE f[First(T)] + F[T \ {First(T)}]
    <3>1. \A T \in Counted(S, n) : T # {} => F[T \ {First(T)}] = G[T \ {First(T)}]
      BY <2>5, <2>8
    <3>2. \A T \in Counted(S, n) :
            F[T] = IF T = {} THEN 0 ELSE f[First(T)] + G[T \ {First(T)}]
      OBVIOUS
    <3> HIDE DEF F
    <3> QED BY <3>1, <3>2
  <2>10. F = [T \in Counted(S, n) |-> F[T]]
    OBVIOUS
  <2>11. Folds(f, S, n, F)
    <3> HIDE DEF F
    <3> QED BY <2>9, <2>10 DEF Folds
  <2> QED BY <2>1, <2>11
<1>3. Cardinality(S) \in Nat
  BY FS_CardinalityType
<1>4. PICK F : Folds(f, S, Cardinality(S), F)
  BY <1>2, <1>3
<1>5. Counted(S, Cardinality(S)) = SUBSET S
  <2>1. \A T \in SUBSET S : Cardinality(T) <= Cardinality(S)
    BY <1>1
  <2> QED BY <2>1 DEF Counted
<1>6. Summing(f, S, F)
  BY <1>4, <1>5 DEF Folds, Summing, First
<1> QED BY <1>6

\* Any element of T can be taken off the sum first.
Splits(f, F, T) == \A x \in T : F[T] = f[x] + F[T \ {x}]

\* Removing any element of a finite set takes its term off the sum.
LEMMA SumSplits ==
  ASSUME NEW f, NEW S, IsFiniteSet(S), \A x \in S : f[x] \in Int, NEW F, Summing(f, S, F),
         NEW T \in SUBSET S
  PROVE  /\ F[T] \in Int
         /\ F[{}] = 0
         /\ Splits(f, F, T)
<1> DEFINE Good(U) == F[U] \in Int /\ \A x \in U : F[U] = f[x] + F[U \ {x}]
           Bad == {n \in Nat : \E U \in SUBSET S : Cardinality(U) = n /\ ~Good(U)}
<1>0. \A U \in SUBSET S : F[U] = IF U = {} THEN 0 ELSE f[First(U)] + F[U \ {First(U)}]
  BY DEF Summing, First
<1>1. \A U \in SUBSET S : IsFiniteSet(U) /\ Cardinality(U) \in Nat
  BY FS_Subset, FS_CardinalityType
<1>2. \A U \in SUBSET S : \A x \in U : Cardinality(U \ {x}) = Cardinality(U) - 1
  BY <1>1, FS_RemoveElement
<1>3. Bad = {}
  <2> SUFFICES ASSUME Bad # {} PROVE FALSE
    OBVIOUS
  <2>1. PICK n \in Bad : \A k \in Bad : n <= k
    <3>1. Bad \in SUBSET Nat
      OBVIOUS
    <3> QED BY <3>1, LeastElement
  <2>2. PICK U \in SUBSET S : Cardinality(U) = n /\ ~Good(U)
    BY <2>1
  <2>3. \A V \in SUBSET S : Cardinality(V) < n => Good(V)
    BY <1>1, <2>1
  <2>4. U # {}
    <3> SUFFICES ASSUME U = {} PROVE FALSE
      OBVIOUS
    <3>1. F[U] = 0
      BY <1>0
    <3> QED BY <2>2, <3>1
  <2>5. First(U) \in U
    BY <2>4 DEF First
  <2>6. \A x \in U : Good(U \ {x})
    <3> SUFFICES ASSUME NEW x \in U PROVE Good(U \ {x})
      OBVIOUS
    <3>1. Cardinality(U \ {x}) = n - 1 /\ n \in Nat
      BY <1>2, <2>1, <2>2
    <3>2. U \ {x} \in SUBSET S
      OBVIOUS
    <3> HIDE DEF Good
    <3> QED BY <2>3, <3>1, <3>2
  <2> DEFINE c == First(U)
  <2>7. F[U] = f[c] + F[U \ {c}]
    BY <1>0, <2>4
  <2> HIDE DEF c
  <2>8. c \in U /\ f[c] \in Int /\ F[U \ {c}] \in Int
    BY <2>5, <2>6 DEF c
  <2>9. ASSUME NEW x \in U PROVE F[U] = f[x] + F[U \ {x}]
    <3>1. CASE x = c
      BY <2>7, <3>1
    <3>2. CASE x # c
      <4>1. x \in U \ {c} /\ c \in U \ {x}
        BY <2>8, <3>2
      <4>2. F[U \ {c}] = f[x] + F[(U \ {c}) \ {x}]
        BY <2>6, <2>8, <4>1
      <4>3. F[U \ {x}] = f[c] + F[(U \ {x}) \ {c}]
        BY <2>6, <4>1
      <4>4. (U \ {c}) \ {x} = (U \ {x}) \ {c}
        OBVIOUS
      <4>5. PICK V : V = (U \ {x}) \ {c} /\ V = (U \ {c}) \ {x}
        BY <4>4
      <4>6. F[V] \in Int
        <5>1. Cardinality(V) < n
          <6>1. Cardinality(U \ {x}) = n - 1 /\ n \in Nat
            BY <1>2, <2>1, <2>2
          <6>2. U \ {x} \in SUBSET S
            OBVIOUS
          <6>3. Cardinality(V) = n - 2
            BY <1>2, <4>1, <4>5, <6>1, <6>2
          <6> QED BY <6>1, <6>3
        <5> QED BY <2>3, <4>5, <5>1
      <4>7. f[x] \in Int
        OBVIOUS
      <4>8. F[U \ {c}] = f[x] + F[V] /\ F[U \ {x}] = f[c] + F[V]
        BY <4>2, <4>3, <4>5
      <4> QED BY <2>7, <2>8, <4>6, <4>7, <4>8
    <3> QED BY <3>1, <3>2
  <2>10. F[U] \in Int
    BY <2>7, <2>8
  <2> QED BY <2>2, <2>9, <2>10
<1>4. Good(T)
  <2>1. Cardinality(T) \in Nat
    BY <1>1
  <2> QED BY <1>3, <2>1
<1>5. F[{}] = 0
  BY <1>0
<1>6. Splits(f, F, T)
  BY <1>4 DEF Splits
<1> QED BY <1>4, <1>5, <1>6

\* The n-th term comes off the sum over the first n.
Steps(f, F, L) ==
  \A n \in 1 .. L : F[1 .. n] = f[n] + F[1 .. (n - 1)]

\* The sum over the first n layers is the n-th term and the sum before it.
LEMMA PrefixSum ==
  ASSUME NEW L \in Nat, NEW f, \A l \in 1 .. L : f[l] \in Int, NEW F, Summing(f, 1 .. L, F)
  PROVE  /\ F[1 .. 0] = 0
         /\ \A n \in 0 .. L : F[1 .. n] \in Int
         /\ Steps(f, F, L)
<1>1. IsFiniteSet(1 .. L)
  BY FS_Interval
<1>2. \A n \in 0 .. L : 1 .. n \in SUBSET (1 .. L)
  OBVIOUS
<1>3. \A n \in 0 .. L : F[1 .. n] \in Int
  BY <1>1, <1>2, SumSplits
<1>4. F[1 .. 0] = 0
  <2>1. 1 .. 0 = {}
    OBVIOUS
  <2> QED BY <1>1, <1>2, <2>1, SumSplits
<1>5. ASSUME NEW n \in 1 .. L
      PROVE  F[1 .. n] = f[n] + F[1 .. (n - 1)]
  <2>1. n \in 1 .. n /\ (1 .. n) \ {n} = 1 .. (n - 1) /\ 1 .. n \in SUBSET (1 .. L)
    BY <1>2
  <2>2. PICK T \in SUBSET (1 .. L) : T = 1 .. n
    BY <2>1
  <2>3. Splits(f, F, T)
    BY <1>1, SumSplits
  <2> QED BY <2>1, <2>2, <2>3 DEF Splits
<1> QED BY <1>3, <1>4, <1>5 DEF Steps

\* The terms f are linear in the terms r and q.
Linear(f, K, r, q, d, L) ==
  \A l \in 1 .. L : r[l] \in Int /\ q[l] \in Int /\ f[l] = K * r[l] + q[l] + d

\* Then so are their sums.
LEMMA LinearSum ==
  ASSUME NEW L \in Nat, NEW K \in Int, NEW d \in Int, NEW f, NEW r, NEW q,
         Linear(f, K, r, q, d, L),
         NEW F, NEW R, NEW Q,
         Summing(f, 1 .. L, F), Summing(r, 1 .. L, R), Summing(q, 1 .. L, Q)
  PROVE  F[1 .. L] = K * R[1 .. L] + Q[1 .. L] + d * L
<1> DEFINE Claim(n) == F[1 .. n] = K * R[1 .. n] + Q[1 .. n] + d * n
           Bad == {n \in 0 .. L : ~Claim(n)}
<1>0. \A l \in 1 .. L : /\ r[l] \in Int /\ q[l] \in Int /\ f[l] \in Int
                         /\ f[l] = K * r[l] + q[l] + d
  <2> SUFFICES ASSUME NEW l \in 1 .. L
               PROVE  /\ r[l] \in Int /\ q[l] \in Int /\ f[l] \in Int
                      /\ f[l] = K * r[l] + q[l] + d
    OBVIOUS
  <2>1. PICK x \in Int, y \in Int : x = r[l] /\ y = q[l]
    BY DEF Linear
  <2>2. f[l] = K * x + y + d
    BY <2>1 DEF Linear
  <2>3. K * x + y + d \in Int
    OBVIOUS
  <2> QED BY <2>1, <2>2, <2>3
<1>1. /\ F[1 .. 0] = 0 /\ R[1 .. 0] = 0 /\ Q[1 .. 0] = 0
      /\ \A n \in 0 .. L : F[1 .. n] \in Int /\ R[1 .. n] \in Int /\ Q[1 .. n] \in Int
      /\ \A n \in 1 .. L : /\ F[1 .. n] = f[n] + F[1 .. (n - 1)]
                           /\ R[1 .. n] = r[n] + R[1 .. (n - 1)]
                           /\ Q[1 .. n] = q[n] + Q[1 .. (n - 1)]
  <2>1. /\ F[1 .. 0] = 0
        /\ \A n \in 0 .. L : F[1 .. n] \in Int
        /\ Steps(f, F, L)
    BY <1>0, PrefixSum
  <2>2. /\ R[1 .. 0] = 0
        /\ \A n \in 0 .. L : R[1 .. n] \in Int
        /\ Steps(r, R, L)
    BY <1>0, PrefixSum
  <2>3. /\ Q[1 .. 0] = 0
        /\ \A n \in 0 .. L : Q[1 .. n] \in Int
        /\ Steps(q, Q, L)
    BY <1>0, PrefixSum
  <2> QED BY <2>1, <2>2, <2>3 DEF Steps
<1>2. Claim(0)
  BY <1>1
<1>3. ASSUME NEW n \in 1 .. L, Claim(n - 1)
      PROVE  Claim(n)
  <2>1. n - 1 \in 0 .. L /\ n \in 0 .. L /\ n \in Int
    OBVIOUS
  <2>2. PICK a \in Int, b \in Int, c \in Int :
          a = F[1 .. (n - 1)] /\ b = R[1 .. (n - 1)] /\ c = Q[1 .. (n - 1)]
    BY <1>1, <2>1
  <2>3. PICK x \in Int, y \in Int : x = r[n] /\ y = q[n]
    BY <1>0
  <2>4. a = K * b + c + d * (n - 1)
    BY <1>3, <2>2
  <2>5. K * (x + b) = K * x + K * b /\ d * n = d * (n - 1) + d
    BY <2>1
  <2>6. (K * x + y + d) + a = K * (x + b) + (y + c) + d * n
    BY <2>4, <2>5, <2>1
  <2>7. F[1 .. n] = (K * x + y + d) + a /\ R[1 .. n] = x + b /\ Q[1 .. n] = y + c
    BY <1>0, <1>1, <2>2, <2>3
  <2> QED BY <2>6, <2>7
<1>4. Bad = {}
  <2> SUFFICES ASSUME Bad # {} PROVE FALSE
    OBVIOUS
  <2> HIDE DEF Claim
  <2>1. PICK n \in Bad : \A k \in Bad : n <= k
    <3>1. Bad \in SUBSET Nat
      OBVIOUS
    <3> QED BY <3>1, LeastElement
  <2>2. n # 0
    BY <1>2, <2>1
  <2>3. n \in 1 .. L /\ n - 1 \in 0 .. L /\ n - 1 \notin Bad
    BY <2>1, <2>2
  <2> QED BY <1>3, <2>1, <2>3
<1> QED BY <1>4

\* Natural terms have a natural sum.
LEMMA NaturalSum ==
  ASSUME NEW L \in Nat, NEW f, \A l \in 1 .. L : f[l] \in Nat, NEW F, Summing(f, 1 .. L, F)
  PROVE  F[1 .. L] \in Nat
<1> DEFINE Bad == {n \in 0 .. L : F[1 .. n] \notin Nat}
<1>1. F[1 .. 0] = 0 /\ \A n \in 1 .. L : F[1 .. n] = f[n] + F[1 .. (n - 1)]
  <2>1. \A l \in 1 .. L : f[l] \in Int
    OBVIOUS
  <2> QED BY <2>1, PrefixSum DEF Steps
<1>2. Bad = {}
  <2> SUFFICES ASSUME Bad # {} PROVE FALSE
    OBVIOUS
  <2>1. PICK n \in Bad : \A k \in Bad : n <= k
    <3>1. Bad \in SUBSET Nat
      OBVIOUS
    <3> QED BY <3>1, LeastElement
  <2>2. n # 0
    BY <1>1, <2>1
  <2>3. n \in 1 .. L /\ n - 1 \in 0 .. L /\ n - 1 \notin Bad
    BY <2>1, <2>2
  <2>4. F[1 .. (n - 1)] \in Nat /\ f[n] \in Nat
    BY <2>3
  <2> QED BY <1>1, <2>1, <2>3, <2>4
<1> QED BY <1>2

\* Bounds on the terms bound the sum.
LEMMA SumBounded ==
  ASSUME NEW L \in Nat, NEW M \in Int, NEW f, \A l \in 1 .. L : f[l] \in 0 .. M,
         NEW F, Summing(f, 1 .. L, F)
  PROVE  F[1 .. L] >= 0 /\ F[1 .. L] <= M * L /\ F[1 .. L] \in Int
<1> DEFINE Claim(n) == F[1 .. n] >= 0 /\ F[1 .. n] <= M * n
           Bad == {n \in 0 .. L : ~Claim(n)}
<1>1. /\ F[1 .. 0] = 0
      /\ \A n \in 0 .. L : F[1 .. n] \in Int
      /\ \A n \in 1 .. L : F[1 .. n] = f[n] + F[1 .. (n - 1)]
  BY PrefixSum DEF Steps
<1>2. Claim(0)
  BY <1>1
<1>3. ASSUME NEW n \in 1 .. L, Claim(n - 1)
      PROVE  Claim(n)
  <2>1. n - 1 \in 0 .. L /\ n \in Int
    OBVIOUS
  <2>2. PICK a \in Int : a = F[1 .. (n - 1)]
    BY <1>1, <2>1
  <2>3. PICK x \in 0 .. M : x = f[n]
    OBVIOUS
  <2>4. M * n = M * (n - 1) + M
    BY <2>1
  <2>5. a >= 0 /\ a <= M * (n - 1)
    BY <1>3, <2>2
  <2>6. F[1 .. n] = x + a
    BY <1>1, <2>2, <2>3
  <2> QED BY <2>4, <2>5, <2>6, <2>1
<1>4. Bad = {}
  <2> SUFFICES ASSUME Bad # {} PROVE FALSE
    OBVIOUS
  <2> HIDE DEF Claim
  <2>1. PICK n \in Bad : \A k \in Bad : n <= k
    <3>1. Bad \in SUBSET Nat
      OBVIOUS
    <3> QED BY <3>1, LeastElement
  <2>2. n # 0
    BY <1>2, <2>1
  <2>3. n \in 1 .. L /\ n - 1 \in 0 .. L /\ n - 1 \notin Bad
    BY <2>1, <2>2
  <2> QED BY <1>3, <2>1, <2>3
<1> QED BY <1>1, <1>4

\* There are two streams.
LEMMA StreamsFinite == IsFiniteSet(Streams)
<1>1. IsFiniteSet({}) /\ IsFiniteSet({} \cup {"k"})
  BY FS_EmptySet, FS_AddElement
<1>2. IsFiniteSet(({} \cup {"k"}) \cup {"v"})
  BY <1>1, FS_AddElement
<1>3. ({} \cup {"k"}) \cup {"v"} = Streams
  BY DEF Streams
<1> QED BY <1>2, <1>3

\* The sum over both streams.
LEMMA StreamSum ==
  ASSUME NEW f, \A s \in Streams : f[s] \in Int, NEW F, Summing(f, Streams, F)
  PROVE  F[Streams] = f["k"] + f["v"]
<1>1. IsFiniteSet(Streams)
  BY StreamsFinite
<1>2. \A T \in SUBSET Streams : /\ F[{}] = 0
                                /\ Splits(f, F, T)
  <2> SUFFICES ASSUME NEW T \in SUBSET Streams
               PROVE  F[{}] = 0 /\ Splits(f, F, T)
    OBVIOUS
  <2> QED BY <1>1, SumSplits
<1>3. Streams \ {"k"} = {"v"} /\ {"v"} \ {"v"} = {} /\ {"v"} \in SUBSET Streams
  BY DEF Streams
<1>4. F[Streams] = f["k"] + F[{"v"}]
  BY <1>2, <1>3 DEF Streams, Splits
<1>5. F[{"v"}] = f["v"] + F[{}]
  BY <1>2, <1>3 DEF Splits
<1>6. f["k"] \in Int /\ f["v"] \in Int /\ F[{}] = 0
  BY <1>2 DEF Streams
<1> QED BY <1>4, <1>5, <1>6

------------------------------------------------------------------------------
(* Rounding up to whole words. *)

\* Rounding up to whole words adds less than a word.
LEMMA CeilBounds ==
  ASSUME NEW x \in Nat, NEW W \in Nat \ {0}
  PROVE  /\ CeilDiv(x, W) \in Nat
         /\ x <= W * CeilDiv(x, W) /\ W * CeilDiv(x, W) < x + W
<1> DEFINE y == x + W - 1
           a == y \div W
           b == y % W
<1>1. y \in Nat /\ W \in Nat \ {0}
  OBVIOUS
<1> HIDE DEF y
<1>2. a \in Nat /\ b \in 0 .. W - 1 /\ y = W * a + b
  BY <1>1
<1>3. CeilDiv(x, W) = a
  BY DEF CeilDiv, y
<1> HIDE DEF a, b
<1>4. PICK p \in Int : p = W * a
  BY <1>1, <1>2
<1>5. y = p + b
  BY <1>2, <1>4
<1>6. x <= p /\ p < x + W
  BY <1>1, <1>2, <1>5 DEF y
<1> QED BY <1>2, <1>3, <1>4, <1>6

\* Products by a positive number compare as the factors do.
LEMMA ProductOrder ==
  ASSUME NEW W \in Nat \ {0}, NEW x \in Int, NEW y \in Int, W * x < W * y
  PROVE  x < y
<1> SUFFICES ASSUME y <= x PROVE FALSE
  OBVIOUS
<1>1. PICK d \in Nat : x = y + d
  <2>1. x - y \in Nat /\ x = y + (x - y)
    OBVIOUS
  <2> QED BY <2>1
<1>2. W * x = W * y + W * d
  BY <1>1
<1>3. W * d >= 0 /\ W * d \in Int /\ W * y \in Int
  OBVIOUS
<1> QED BY <1>2, <1>3

\* A number of words a layer that hold each layer's bits, and one number of
\* words that holds the mean of them: they differ by less than a word a layer.
LEMMA RoundingBounds ==
  ASSUME NEW L \in Nat \ {0}, NEW W \in Nat \ {0}, NEW x \in Nat, NEW Q \in Int,
         x <= W * Q, W * Q <= x + (W - 1) * L
  PROVE  L * CeilDiv(x, L * W) - Q \in (1 - L) .. (L - 1)
<1>1. L * W \in Nat \ {0}
  OBVIOUS
<1>2. PICK A \in Nat : A = CeilDiv(x, L * W) /\ x <= (L * W) * A /\ (L * W) * A < x + L * W
  BY <1>1, CeilBounds
<1>3. PICK B \in Nat : B = L * A
  OBVIOUS
<1>4. (L * W) * A = W * B
  BY <1>3
<1>5. x <= W * B /\ W * B < x + L * W
  BY <1>2, <1>4
<1>6. W * L = L * W /\ (W - 1) * L = W * L - L /\ W * L \in Int
  OBVIOUS
<1>7. W * (B - Q) = W * B - W * Q /\ W * (Q - B) = W * Q - W * B
  OBVIOUS
<1>8. W * B \in Int /\ W * Q \in Int
  OBVIOUS
<1>9. W * (B - Q) < W * L
  BY <1>5, <1>6, <1>7, <1>8
<1>10. W * (Q - B) < W * L
  BY <1>5, <1>6, <1>7, <1>8
<1>11. B - Q < L /\ Q - B < L
  BY <1>9, <1>10, ProductOrder
<1> QED BY <1>2, <1>3, <1>11

\* Where all layers hold as many bits the mean is each.
LEMMA RoundingExact ==
  ASSUME NEW L \in Nat \ {0}, NEW W \in Nat \ {0}, NEW x \in Nat
  PROVE  CeilDiv(L * x, L * W) = CeilDiv(x, W)
<1>1. L * W \in Nat \ {0} /\ L * x \in Nat
  OBVIOUS
<1>2. PICK A \in Nat : /\ A = CeilDiv(L * x, L * W)
                       /\ L * x <= (L * W) * A /\ (L * W) * A < L * x + L * W
  BY <1>1, CeilBounds
<1>3. PICK B \in Nat : B = CeilDiv(x, W) /\ x <= W * B /\ W * B < x + W
  BY CeilBounds
<1>4. (L * W) * A = L * (W * A) /\ L * x + L * W = L * (x + W) /\ W * A \in Int /\ W * B \in Int
  OBVIOUS
<1>5. W * A < x + W
  <2>1. L * (W * A) < L * (x + W)
    BY <1>2, <1>4
  <2> QED BY <2>1, <1>4, ProductOrder
<1>6. x <= W * A
  <2> SUFFICES ASSUME W * A < x PROVE FALSE
    BY <1>4
  <2>1. PICK d \in Nat : x = W * A + d /\ d > 0
    <3>1. x - W * A \in Nat /\ x - W * A > 0 /\ x = W * A + (x - W * A)
      BY <1>4
    <3> QED BY <3>1
  <2>2. L * x = L * (W * A) + L * d
    BY <2>1, <1>4
  <2>3. L * d > 0 /\ L * d \in Int /\ L * (W * A) \in Int
    BY <2>1, <1>4
  <2> QED BY <1>2, <1>4, <2>2, <2>3
<1>7. W * (A - B) = W * A - W * B /\ W * (B - A) = W * B - W * A /\ W * 1 = W
  OBVIOUS
<1>8. W * (A - B) < W * 1 /\ W * (B - A) < W * 1
  BY <1>3, <1>4, <1>5, <1>6, <1>7
<1>9. A - B < 1 /\ B - A < 1
  BY <1>8, ProductOrder
<1> QED BY <1>2, <1>3, <1>9

------------------------------------------------------------------------------
(* What one layer stores. *)

\* The rank a layer tracks is the width of its two bases.
LEMMA LiveRankIs ==
  ASSUME NEW l \in Layers, gist[l].basis \in Column
  PROVE  /\ LiveRank(l) = gist[l].basis["k"].width + gist[l].basis["v"].width
         /\ LiveRank(l) \in Nat
<1>1. \A s \in Streams : Widths(l)[s] \in Nat /\ Widths(l)[s] = gist[l].basis[s].width
  BY ConstantsAssumption DEF Column, Basis, Widths
<1>2. IsFiniteSet(Streams)
  BY StreamsFinite
<1>3. PICK G : Summing(Widths(l), Streams, G)
  BY <1>2, SumExists
<1>4. PICK F : Summing(Widths(l), Streams, F) /\ LiveRank(l) = F[Streams]
  BY <1>3, LiveRankFold
<1>5. F[Streams] = Widths(l)["k"] + Widths(l)["v"]
  BY <1>1, <1>4, StreamSum
<1>6. "k" \in Streams /\ "v" \in Streams
  BY DEF Streams
<1> QED BY <1>1, <1>4, <1>5, <1>6

\* The numbers a column holds, both streams'.
Cells(cols) == [p \in (DOMAIN cols) \X Streams |-> cols[p[1]][p[2]].width]

\* Entries is folded by a sum of the cells, given that one exists.
LEMMA EntriesFold ==
  ASSUME NEW cols, NEW G, Summing(Cells(cols), (DOMAIN cols) \X Streams, G)
  PROVE  \E F : /\ Summing(Cells(cols), (DOMAIN cols) \X Streams, F)
                /\ Entries(cols) = F[(DOMAIN cols) \X Streams]
<1> DEFINE S == (DOMAIN cols) \X Streams
           Folded(F) == F = [T \in SUBSET S |->
             IF T = {} THEN 0
             ELSE cols[(CHOOSE x \in T : TRUE)[1]][(CHOOSE x \in T : TRUE)[2]].width
                    + F[T \ {CHOOSE x \in T : TRUE}]]
           E == CHOOSE F : Folded(F)
<1>1. Entries(cols) = E[S]
  BY DEF Entries, MapThenSumSet, MapThenFoldSet
<1>2. \A T \in SUBSET S : T # {} =>
        Cells(cols)[CHOOSE x \in T : TRUE]
          = cols[(CHOOSE x \in T : TRUE)[1]][(CHOOSE x \in T : TRUE)[2]].width
  BY DEF Cells
<1>3. Folded(G)
  BY <1>2 DEF Summing
<1>4. Folded(E)
  <2> HIDE DEF Folded
  <2> QED BY <1>3
<1>5. Summing(Cells(cols), S, E)
  <2> DEFINE left == [T \in SUBSET S |->
               IF T = {} THEN 0
               ELSE cols[(CHOOSE x \in T : TRUE)[1]][(CHOOSE x \in T : TRUE)[2]].width
                      + E[T \ {CHOOSE x \in T : TRUE}]]
             right == [T \in SUBSET S |->
               IF T = {} THEN 0
               ELSE Cells(cols)[CHOOSE x \in T : TRUE] + E[T \ {CHOOSE x \in T : TRUE}]]
  <2>1. E = left
    BY <1>4, Zenon
  <2> HIDE DEF E
  <2>2. left = right
    BY <1>2
  <2>3. E = right
    BY <2>1, <2>2, Zenon
  <2> QED BY <2>3, Zenon DEF Summing
<1> QED BY <1>1, <1>5

\* Columns that are all in one basis hold its two widths each.
LEMMA EntriesAre ==
  ASSUME NEW b \in Column, NEW cols \in Seq({b})
  PROVE  Entries(cols) = Len(cols) * (b["k"].width + b["v"].width)
<1> DEFINE L == Len(cols)
           S == (1 .. L) \X Streams
           f == Cells(cols)
           wk == b["k"].width
           wv == b["v"].width
<1>1. L \in Nat /\ DOMAIN cols = 1 .. L /\ \A i \in 1 .. L : cols[i] = b
  OBVIOUS
<1>2. "k" \in Streams /\ "v" \in Streams /\ Streams = {"k", "v"} /\ "k" # "v"
  BY DEF Streams
<1>3. wk \in Nat /\ wv \in Nat
  BY <1>2, ConstantsAssumption DEF Column, Basis
<1>4. \A p \in S : f[p] = cols[p[1]][p[2]].width
  BY <1>1 DEF Cells
<1>5. \A i \in 1 .. L : f[<<i, "k">>] = wk /\ f[<<i, "v">>] = wv
  BY <1>1, <1>2, <1>4
<1>6. \A p \in S : f[p] \in Int
  <2> SUFFICES ASSUME NEW p \in S PROVE f[p] \in Int
    OBVIOUS
  <2>1. p[1] \in 1 .. L /\ p[2] \in Streams
    OBVIOUS
  <2>2. f[p] = b[p[2]].width
    BY <1>1, <1>4, <2>1
  <2> QED BY <1>2, <1>3, <2>1, <2>2
<1>7. IsFiniteSet(S)
  <2>1. IsFiniteSet(1 .. L) /\ IsFiniteSet(Streams)
    BY <1>1, FS_Interval, StreamsFinite
  <2> QED BY <2>1, FS_Product
<1>8. PICK G : Summing(f, S, G)
  BY <1>7, SumExists
<1>9. PICK F : Summing(f, S, F) /\ Entries(cols) = F[S]
  BY <1>1, <1>8, EntriesFold
<1> HIDE DEF f, L
<1> DEFINE Upto(n) == (1 .. n) \X Streams
           Claim(n) == F[Upto(n)] = n * (wk + wv)
           Bad == {n \in 0 .. L : ~Claim(n)}
<1>10. \A T \in SUBSET S : F[T] \in Int /\ F[{}] = 0 /\ Splits(f, F, T)
  <2> SUFFICES ASSUME NEW T \in SUBSET S PROVE F[T] \in Int /\ F[{}] = 0 /\ Splits(f, F, T)
    OBVIOUS
  <2> HIDE DEF S
  <2> QED BY <1>6, <1>7, <1>9, SumSplits
<1>11. \A n \in 0 .. L : Upto(n) \in SUBSET S
  BY <1>1
<1>12. Claim(0)
  <2>1. Upto(0) = {}
    OBVIOUS
  <2>2. F[{}] = 0
    BY <1>10
  <2>3. 0 * (wk + wv) = 0
    BY <1>3
  <2> QED BY <2>1, <2>2, <2>3
<1>13. ASSUME NEW n \in 1 .. L, Claim(n - 1)
       PROVE  Claim(n)
  <2>1. PICK T, U, V : /\ T = Upto(n) /\ U = Upto(n) \ {<<n, "k">>} /\ V = Upto(n - 1)
    OBVIOUS
  <2>2. n \in Nat /\ n - 1 \in Nat /\ n - 1 \in 0 .. L /\ n \in 0 .. L
    BY <1>1
  <2>3. <<n, "k">> \in T /\ <<n, "v">> \in U /\ U = T \ {<<n, "k">>}
    BY <1>2, <2>1, <2>2
  <2>4. U \ {<<n, "v">>} = V
    <3>1. \A p \in U \ {<<n, "v">>} : p \in V
      <4> SUFFICES ASSUME NEW p \in U \ {<<n, "v">>} PROVE p \in V
        OBVIOUS
      <4>1. PICK i \in 1 .. n, s \in Streams : p = <<i, s>>
        BY <2>1
      <4>2. i # n
        BY <1>2, <2>1, <4>1
      <4>3. i \in 1 .. (n - 1)
        BY <2>2, <4>1, <4>2
      <4> QED BY <2>1, <4>1, <4>3
    <3>2. \A p \in V : p \in U \ {<<n, "v">>}
      <4> SUFFICES ASSUME NEW p \in V PROVE p \in U \ {<<n, "v">>}
        OBVIOUS
      <4>1. PICK i \in 1 .. (n - 1), s \in Streams : p = <<i, s>>
        BY <2>1
      <4>2. i # n /\ i \in 1 .. n
        BY <2>2, <4>1
      <4>3. p \in Upto(n) /\ p # <<n, "k">> /\ p # <<n, "v">>
        BY <4>1, <4>2
      <4> QED BY <2>1, <4>3
    <3> QED BY <3>1, <3>2
  <2>5. T \in SUBSET S /\ U \in SUBSET S /\ V \in SUBSET S
    BY <1>11, <2>1, <2>2
  <2> HIDE DEF S
  <2>6. F[T] = f[<<n, "k">>] + F[U]
    BY <1>10, <2>3, <2>5 DEF Splits
  <2>7. F[U] = f[<<n, "v">>] + F[V]
    BY <1>10, <2>3, <2>4, <2>5 DEF Splits
  <2>8. F[V] = (n - 1) * (wk + wv)
    BY <1>13, <2>1
  <2>9. f[<<n, "k">>] = wk /\ f[<<n, "v">>] = wv
    BY <1>5
  <2>10. n * (wk + wv) = (n - 1) * (wk + wv) + (wk + wv)
    BY <2>2, <1>3
  <2>11. F[T] = n * (wk + wv)
    <3>1. PICK d \in Int : d = (n - 1) * (wk + wv)
      BY <2>2, <1>3
    <3> HIDE DEF wk, wv
    <3> QED BY <1>3, <2>6, <2>7, <2>8, <2>9, <2>10, <3>1
  <2> QED BY <2>1, <2>11
<1>14. Bad = {}
  <2> SUFFICES ASSUME Bad # {} PROVE FALSE
    OBVIOUS
  <2> HIDE DEF Claim
  <2>1. PICK n \in Bad : \A k \in Bad : n <= k
    <3>1. Bad \in SUBSET Nat
      OBVIOUS
    <3> QED BY <3>1, LeastElement
  <2>2. n # 0
    BY <1>12, <2>1
  <2>3. n \in 1 .. L /\ n - 1 \in 0 .. L /\ n - 1 \notin Bad
    BY <1>1, <2>1, <2>2
  <2> QED BY <1>13, <2>1, <2>3
<1>15. Claim(L)
  BY <1>1, <1>14
<1>16. F[S] = L * (wk + wv)
  BY <1>15
<1> QED BY <1>9, <1>16 DEF L

------------------------------------------------------------------------------
(* The bill of layers that hold equally many columns and codes. *)

\* What each layer adds to the sums of the bill.
Ranks == [l \in Layers |-> LiveRank(l)]
Stores == [l \in Layers |-> Stored(l)]
GistBits == [l \in Layers |-> StoredGistBits(l)]

\* RankSum, the stored elements and the stored bits are folds of those terms.
LEMMA RankFold ==
  ASSUME NEW G, Summing(Ranks, Layers, G)
  PROVE  \E F : Summing(Ranks, Layers, F) /\ RankSum = F[Layers]
<1> DEFINE Folded(F) == F = [T \in SUBSET Layers |->
             IF T = {} THEN 0
             ELSE LiveRank(CHOOSE x \in T : TRUE) + F[T \ {CHOOSE x \in T : TRUE}]]
           E == CHOOSE F : Folded(F)
<1>1. RankSum = E[Layers]
  BY DEF RankSum, MapThenSumSet, MapThenFoldSet
<1>2. \A T \in SUBSET Layers : T # {} =>
        Ranks[CHOOSE x \in T : TRUE] = LiveRank(CHOOSE x \in T : TRUE)
  BY DEF Ranks
<1>3. Folded(G)
  BY <1>2 DEF Summing
<1>4. Folded(E)
  <2> HIDE DEF Folded
  <2> QED BY <1>3
<1>5. Summing(Ranks, Layers, E)
  <2> HIDE DEF E
  <2> QED BY <1>4, <1>2 DEF Summing
<1> QED BY <1>1, <1>5

\* The same for the elements the layers store.
LEMMA StoredFold ==
  ASSUME NEW G, Summing(Stores, Layers, G)
  PROVE  \E F : Summing(Stores, Layers, F) /\ MapThenSumSet(Stored, Layers) = F[Layers]
<1> DEFINE Folded(F) == F = [T \in SUBSET Layers |->
             IF T = {} THEN 0
             ELSE Stored(CHOOSE x \in T : TRUE) + F[T \ {CHOOSE x \in T : TRUE}]]
           E == CHOOSE F : Folded(F)
<1>1. MapThenSumSet(Stored, Layers) = E[Layers]
  BY DEF MapThenSumSet, MapThenFoldSet
<1>2. \A T \in SUBSET Layers : T # {} =>
        Stores[CHOOSE x \in T : TRUE] = Stored(CHOOSE x \in T : TRUE)
  BY DEF Stores
<1>3. Folded(G)
  BY <1>2 DEF Summing
<1>4. Folded(E)
  <2> HIDE DEF Folded
  <2> QED BY <1>3
<1>5. Summing(Stores, Layers, E)
  <2> HIDE DEF E
  <2> QED BY <1>4, <1>2 DEF Summing
<1> QED BY <1>1, <1>5

\* The same for the bits of their bases and coordinates.
LEMMA GistBitsFold ==
  ASSUME NEW G, Summing(GistBits, Layers, G)
  PROVE  \E F : Summing(GistBits, Layers, F) /\ MapThenSumSet(StoredGistBits, Layers) = F[Layers]
<1> DEFINE Folded(F) == F = [T \in SUBSET Layers |->
             IF T = {} THEN 0
             ELSE StoredGistBits(CHOOSE x \in T : TRUE) + F[T \ {CHOOSE x \in T : TRUE}]]
           E == CHOOSE F : Folded(F)
<1>1. MapThenSumSet(StoredGistBits, Layers) = E[Layers]
  BY DEF MapThenSumSet, MapThenFoldSet
<1>2. \A T \in SUBSET Layers : T # {} =>
        GistBits[CHOOSE x \in T : TRUE] = StoredGistBits(CHOOSE x \in T : TRUE)
  BY DEF GistBits
<1>3. Folded(G)
  BY <1>2 DEF Summing
<1>4. Folded(E)
  <2> HIDE DEF Folded
  <2> QED BY <1>3
<1>5. Summing(GistBits, Layers, E)
  <2> HIDE DEF E
  <2> QED BY <1>4, <1>2 DEF Summing
<1> QED BY <1>1, <1>5

\* Every layer holds n coordinates and m codes in its own basis, stored as the
\* arm bills them.
Uniform(n, m) ==
  \A l \in Layers :
    /\ gist[l].basis \in Column /\ gist[l].word = arm.gist
    /\ gist[l].c \in Seq({gist[l].basis}) /\ Len(gist[l].c) = n
    /\ gist[l].codes \in Seq({gist[l].basis}) /\ Len(gist[l].codes) = m

\* What one layer of a uniform gist stores, in its rank, columns and codes.
LEMMA LayerStores ==
  ASSUME arm \in Arms, NEW n \in Nat, NEW m \in Nat, Uniform(n, m), NEW l \in Layers
  PROVE  /\ LiveRank(l) \in Nat
         /\ Stored(l) = (Features + n + 1) * LiveRank(l)
                          + CeilDiv(m * LiveRank(l) * arm.bits, Word) + 2 * m
         /\ StoredGistBits(l) = ((Features + n) * arm.gist) * LiveRank(l)
<1>1. /\ gist[l].basis \in Column /\ gist[l].word = arm.gist
      /\ gist[l].c \in Seq({gist[l].basis}) /\ Len(gist[l].c) = n
      /\ gist[l].codes \in Seq({gist[l].basis}) /\ Len(gist[l].codes) = m
  BY DEF Uniform
<1>2. PICK r \in Nat : r = LiveRank(l)
  BY <1>1, LiveRankIs
<1>3. r = gist[l].basis["k"].width + gist[l].basis["v"].width
  BY <1>1, <1>2, LiveRankIs
<1>4. Entries(gist[l].c) = n * r /\ Entries(gist[l].codes) = m * r
  BY <1>1, <1>3, EntriesAre
<1>5. Features \in Nat /\ Word \in Nat \ {0} /\ arm.gist \in Nat /\ arm.bits \in Nat
  BY ConstantsAssumption
<1>6. PICK q : q = CeilDiv(m * r * arm.bits, Word)
  OBVIOUS
<1>7. q \in Nat
  <2>1. m * r \in Nat
    OBVIOUS
  <2>2. m * r * arm.bits \in Nat
    BY <1>5, <2>1
  <2> QED BY <1>5, <1>6, <2>2, CeilBounds
<1>8. Stored(l) = Features * r + n * r + r + q + 2 * m
  BY <1>1, <1>2, <1>4, <1>6 DEF Stored
<1>9. Features * r + n * r + r + q + 2 * m = (Features + n + 1) * r + q + 2 * m
  BY <1>5, <1>7
<1>10. StoredGistBits(l) = (Features * r + n * r) * arm.gist
  BY <1>1, <1>2, <1>4 DEF StoredGistBits
<1>11. (Features * r + n * r) * arm.gist = ((Features + n) * arm.gist) * r
  BY <1>5
<1> QED BY <1>2, <1>6, <1>8, <1>9, <1>10, <1>11

\* The words each layer's codes take.
Words(m) == [l \in Layers |-> CeilDiv(m * LiveRank(l) * arm.bits, Word)]

\* There are finitely many layers, and a first one.
LEMMA LayersAre ==
  /\ Layers = 1 .. NumLayers /\ NumLayers \in Nat \ {0} /\ 1 \in Layers
  /\ IsFiniteSet(Layers)
<1>1. Layers = 1 .. NumLayers /\ NumLayers \in Nat \ {0}
  BY ConstantsAssumption DEF Layers
<1>2. IsFiniteSet(1 .. NumLayers)
  BY <1>1, FS_Interval
<1> QED BY <1>1, <1>2

\* Terms that are all one number sum to a multiple of it.
LEMMA ConstantSum ==
  ASSUME NEW a \in Nat, NEW f, \A l \in Layers : f[l] = a, NEW F, Summing(f, Layers, F)
  PROVE  F[Layers] = a * NumLayers
<1> DEFINE L == NumLayers
           z == [l \in Layers |-> 0]
<1>1. Layers = 1 .. L /\ L \in Nat
  BY LayersAre
<1>2. PICK Z : Summing(z, Layers, Z)
  BY LayersAre, SumExists
<1>3. \A l \in 1 .. L : z[l] = 0
  BY <1>1
<1> HIDE DEF z, L
<1>4. Z[Layers] = 0
  <2>1. \A l \in 1 .. L : z[l] \in 0 .. 0
    BY <1>3
  <2>2. 0 \in Int /\ Summing(z, 1 .. L, Z)
    BY <1>1, <1>2
  <2>3. Z[1 .. L] >= 0 /\ Z[1 .. L] <= 0 * L /\ Z[1 .. L] \in Int
    BY <1>1, <2>1, <2>2, SumBounded
  <2> QED BY <1>1, <2>3
<1>5. Linear(f, 0, z, z, a, L)
  <2>1. \A l \in 1 .. L : z[l] = 0 /\ f[l] = a
    BY <1>1, <1>3
  <2> QED BY <2>1 DEF Linear
<1>6. F[1 .. L] = 0 * Z[1 .. L] + Z[1 .. L] + a * L
  <2>1. 0 \in Int /\ a \in Int /\ Summing(f, 1 .. L, F) /\ Summing(z, 1 .. L, Z)
    BY <1>1, <1>2
  <2> QED BY <1>1, <1>5, <2>1, LinearSum
<1> QED BY <1>1, <1>4, <1>6 DEF L

\* The sums of the ranks, of the words and of what is stored.
LEMMA UniformSums ==
  ASSUME arm \in Arms, NEW n \in Nat, NEW m \in Nat, Uniform(n, m)
  PROVE  \E Q \in Nat :
           /\ RankSum \in Nat
           /\ MapThenSumSet(Stored, Layers)
                = (Features + n + 1) * RankSum + Q + (2 * m) * NumLayers
           /\ MapThenSumSet(StoredGistBits, Layers) = ((Features + n) * arm.gist) * RankSum
           /\ (m * arm.bits) * RankSum <= Word * Q
           /\ Word * Q <= (m * arm.bits) * RankSum + (Word - 1) * NumLayers
           /\ m = 0 => Q = 0
           /\ (\A l \in Layers : LiveRank(l) = LiveRank(1)) =>
                /\ RankSum = LiveRank(1) * NumLayers
                /\ Q = CeilDiv((m * arm.bits) * LiveRank(1), Word) * NumLayers
<1> DEFINE L == NumLayers
           b == m * arm.bits
           r == Ranks
           q == Words(m)
           z == [l \in Layers |-> 0]
           e == [l \in Layers |-> Word * q[l] - b * r[l]]
           w == [l \in Layers |-> Word * q[l]]
<1>1. /\ Layers = 1 .. L /\ L \in Nat \ {0} /\ IsFiniteSet(Layers) /\ 1 \in Layers
      /\ Word \in Nat \ {0} /\ Features \in Nat /\ arm.bits \in Nat /\ arm.gist \in Nat
  BY LayersAre, ConstantsAssumption
<1>2. b \in Nat
  BY <1>1
<1>3. \A l \in Layers : r[l] \in Nat /\ r[l] = LiveRank(l)
  BY LayerStores DEF Ranks
<1>4. \A l \in Layers : /\ q[l] \in Nat /\ q[l] = CeilDiv(b * r[l], Word)
                        /\ b * r[l] <= Word * q[l] /\ Word * q[l] < b * r[l] + Word
  <2> SUFFICES ASSUME NEW l \in Layers
               PROVE  /\ q[l] \in Nat /\ q[l] = CeilDiv(b * r[l], Word)
                      /\ b * r[l] <= Word * q[l] /\ Word * q[l] < b * r[l] + Word
    OBVIOUS
  <2>1. PICK x \in Nat : x = r[l]
    BY <1>3
  <2>2. m * x * arm.bits = b * x /\ b * x \in Nat
    BY <1>1, <1>2
  <2>3. q[l] = CeilDiv(m * x * arm.bits, Word)
    BY <1>3, <2>1 DEF Words
  <2>4. q[l] = CeilDiv(b * x, Word)
    BY <2>2, <2>3
  <2> HIDE DEF q, b
  <2>5. /\ CeilDiv(b * x, Word) \in Nat /\ b * x <= Word * CeilDiv(b * x, Word)
        /\ Word * CeilDiv(b * x, Word) < b * x + Word
    BY <1>1, <2>2, CeilBounds
  <2> QED BY <2>1, <2>4, <2>5
<1>5. \A l \in Layers : z[l] = 0
  OBVIOUS
<1>6. \A l \in Layers : e[l] = Word * q[l] - b * r[l] /\ w[l] = Word * q[l]
  OBVIOUS
<1>7. \A l \in Layers :
        /\ Stores[l] = (Features + n + 1) * r[l] + q[l] + 2 * m
        /\ GistBits[l] = ((Features + n) * arm.gist) * r[l]
  BY LayerStores DEF Stores, GistBits, Ranks, Words
<1> HIDE DEF b, r, q, z, e, w, L
<1>8. \A l \in Layers : /\ e[l] \in 0 .. Word - 1 /\ e[l] \in Int /\ z[l] \in Int
                        /\ w[l] = b * r[l] + e[l] + 0 /\ w[l] = Word * q[l] + z[l] + 0
  <2> SUFFICES ASSUME NEW l \in Layers
               PROVE  /\ e[l] \in 0 .. Word - 1 /\ e[l] \in Int /\ z[l] \in Int
                      /\ w[l] = b * r[l] + e[l] + 0 /\ w[l] = Word * q[l] + z[l] + 0
    OBVIOUS
  <2>0. PICK i \in Nat, j \in Nat : i = r[l] /\ j = q[l]
    BY <1>3, <1>4
  <2>1. PICK x \in Int, y \in Int : x = b * i /\ y = Word * j
    <3>1. b * i \in Int /\ Word * j \in Int
      BY <1>1, <1>2
    <3> QED BY <3>1
  <2>2. x <= y /\ y < x + Word /\ e[l] = y - x /\ w[l] = y /\ z[l] = 0
    BY <1>4, <1>5, <1>6, <2>0, <2>1
  <2>3. y - x \in 0 .. Word - 1 /\ y = x + (y - x) + 0 /\ y = y + 0 + 0
    BY <1>1, <2>2
  <2> QED BY <2>0, <2>1, <2>2, <2>3
<1>9. /\ \E F : Summing(Ranks, Layers, F) /\ RankSum = F[Layers]
      /\ \E F : Summing(Stores, Layers, F) /\ MapThenSumSet(Stored, Layers) = F[Layers]
      /\ \E F : Summing(GistBits, Layers, F)
                /\ MapThenSumSet(StoredGistBits, Layers) = F[Layers]
  <2>1. PICK A : Summing(Ranks, Layers, A)
    BY <1>1, SumExists
  <2>2. PICK B : Summing(Stores, Layers, B)
    BY <1>1, SumExists
  <2>3. PICK C : Summing(GistBits, Layers, C)
    BY <1>1, SumExists
  <2>4. \E F : Summing(Ranks, Layers, F) /\ RankSum = F[Layers]
    BY <2>1, RankFold
  <2>5. \E F : Summing(Stores, Layers, F) /\ MapThenSumSet(Stored, Layers) = F[Layers]
    BY <2>2, StoredFold
  <2>6. \E F : Summing(GistBits, Layers, F) /\ MapThenSumSet(StoredGistBits, Layers) = F[Layers]
    BY <2>3, GistBitsFold
  <2> QED BY <2>4, <2>5, <2>6
<1>10. PICK R : Summing(r, 1 .. L, R) /\ RankSum = R[1 .. L]
  BY <1>1, <1>9 DEF r
<1>11. PICK T : T = MapThenSumSet(Stored, Layers)
  OBVIOUS
<1>12. PICK U : U = MapThenSumSet(StoredGistBits, Layers)
  OBVIOUS
<1>13. PICK S : Summing(Stores, 1 .. L, S) /\ T = S[1 .. L]
  BY <1>1, <1>9, <1>11
<1>14. PICK G : Summing(GistBits, 1 .. L, G) /\ U = G[1 .. L]
  BY <1>1, <1>9, <1>12
<1>15. PICK Q, E, Z, V : /\ Summing(q, 1 .. L, Q) /\ Summing(e, 1 .. L, E)
                         /\ Summing(z, 1 .. L, Z) /\ Summing(w, 1 .. L, V)
  BY <1>1, SumExists
<1>16. PICK QQ, RR, EE, ZZ, VV : /\ QQ = Q[1 .. L] /\ RR = R[1 .. L] /\ EE = E[1 .. L]
                                 /\ ZZ = Z[1 .. L] /\ VV = V[1 .. L]
  OBVIOUS
<1>17. QQ \in Nat /\ RR \in Nat
  <2>1. \A l \in 1 .. L : q[l] \in Nat
    BY <1>1, <1>4
  <2>2. \A l \in 1 .. L : r[l] \in Nat
    BY <1>1, <1>3
  <2>3. Q[1 .. L] \in Nat
    BY <1>1, <1>15, <2>1, NaturalSum
  <2>4. R[1 .. L] \in Nat
    BY <1>1, <1>10, <2>2, NaturalSum
  <2> QED BY <1>16, <2>3, <2>4
<1>18. EE >= 0 /\ EE <= (Word - 1) * L /\ EE \in Int
  <2>1. \A l \in 1 .. L : e[l] \in 0 .. (Word - 1)
    BY <1>1, <1>8
  <2>2. Word - 1 \in Int
    BY <1>1
  <2> QED BY <1>1, <1>15, <1>16, <2>1, <2>2, SumBounded
<1>19. ZZ = 0
  <2>1. \A l \in Layers : z[l] = 0
    BY <1>5
  <2>2. 0 \in Nat /\ Summing(z, Layers, Z)
    BY <1>1, <1>15
  <2>3. Z[Layers] = 0 * NumLayers
    BY <2>1, <2>2, ConstantSum
  <2> QED BY <1>1, <1>16, <2>3 DEF L
<1>20. T = (Features + n + 1) * RR + QQ + (2 * m) * L
  <2>1. Linear(Stores, Features + n + 1, r, q, 2 * m, L)
    <3>1. \A l \in 1 .. L : r[l] \in Int /\ q[l] \in Int
      BY <1>1, <1>3, <1>4
    <3>2. \A l \in 1 .. L : Stores[l] = (Features + n + 1) * r[l] + q[l] + 2 * m
      BY <1>1, <1>7, Zenon
    <3> QED BY <3>1, <3>2, Zenon DEF Linear
  <2>2. Features + n + 1 \in Int /\ 2 * m \in Int /\ L \in Nat
    BY <1>1
  <2>3. S[1 .. L] = (Features + n + 1) * R[1 .. L] + Q[1 .. L] + (2 * m) * L
    BY <1>10, <1>13, <1>15, <2>1, <2>2, LinearSum
  <2> QED BY <1>13, <1>16, <2>3
<1>21. U = ((Features + n) * arm.gist) * RR
  <2> DEFINE K == (Features + n) * arm.gist
  <2>1. K \in Int
    BY <1>1
  <2>2. \A l \in 1 .. L : GistBits[l] = K * r[l]
    BY <1>1, <1>7
  <2> HIDE DEF K
  <2>3. Linear(GistBits, K, r, z, 0, L)
    <3> SUFFICES ASSUME NEW l \in 1 .. L
                 PROVE  r[l] \in Int /\ z[l] \in Int /\ GistBits[l] = K * r[l] + z[l] + 0
      BY DEF Linear
    <3>1. r[l] \in Int /\ z[l] = 0 /\ GistBits[l] = K * r[l]
      BY <1>1, <1>3, <1>5, <2>2
    <3>2. K * r[l] \in Int
      BY <2>1, <3>1
    <3> QED BY <3>1, <3>2
  <2>4. 0 \in Int /\ L \in Nat
    BY <1>1
  <2>5. G[1 .. L] = K * R[1 .. L] + Z[1 .. L] + 0 * L
    BY <1>10, <1>14, <1>15, <2>1, <2>3, <2>4, LinearSum
  <2>6. K * RR \in Int
    BY <1>17, <2>1
  <2>7. G[1 .. L] = K * RR
    <3>1. G[1 .. L] = K * RR + 0 + 0 * L
      BY <1>16, <1>19, <2>5
    <3>2. 0 * L = 0
      BY <2>4
    <3> QED BY <2>6, <3>1, <3>2
  <2> QED BY <1>14, <2>7 DEF K
<1>22. VV = b * RR + EE /\ VV = Word * QQ
  <2>1. Linear(w, b, r, e, 0, L)
    BY <1>1, <1>3, <1>8 DEF Linear
  <2>2. Linear(w, Word, q, z, 0, L)
    BY <1>1, <1>4, <1>8 DEF Linear
  <2>3. 0 \in Int /\ b \in Int /\ Word \in Int /\ L \in Nat
    BY <1>1, <1>2
  <2>4. V[1 .. L] = b * R[1 .. L] + E[1 .. L] + 0 * L
    BY <1>10, <1>15, <2>1, <2>3, LinearSum
  <2>5. V[1 .. L] = Word * Q[1 .. L] + Z[1 .. L] + 0 * L
    BY <1>15, <2>2, <2>3, LinearSum
  <2>6. b * RR \in Int /\ Word * QQ \in Int
    BY <1>17, <2>3
  <2> QED BY <1>16, <1>18, <1>19, <2>3, <2>4, <2>5, <2>6
<1>23. b * RR <= Word * QQ /\ Word * QQ <= b * RR + (Word - 1) * L
  <2>1. b * RR \in Int /\ Word * QQ \in Int /\ (Word - 1) * L \in Int
    BY <1>1, <1>2, <1>17
  <2> QED BY <1>18, <1>22, <2>1
<1>24. m = 0 => QQ = 0
  <2> SUFFICES ASSUME m = 0 PROVE QQ = 0
    OBVIOUS
  <2>1. \A l \in Layers : q[l] = 0
    <3> SUFFICES ASSUME NEW l \in Layers PROVE q[l] = 0
      OBVIOUS
    <3>1. PICK i \in Nat, j \in Nat : i = r[l] /\ j = q[l]
      BY <1>3, <1>4
    <3>2. b = 0
      BY <1>1 DEF b
    <3>3. b * i = 0
      BY <3>2
    <3>4. Word * j < Word * 1
      BY <1>1, <1>4, <3>1, <3>3
    <3>5. j < 1
      BY <1>1, <3>4, ProductOrder
    <3> QED BY <3>1, <3>5
  <2>2. 0 \in Nat /\ Summing(q, Layers, Q)
    BY <1>1, <1>15
  <2>3. Q[Layers] = 0 * NumLayers
    BY <2>1, <2>2, ConstantSum
  <2> QED BY <1>1, <1>16, <2>3 DEF L
<1>25. ASSUME \A l \in Layers : LiveRank(l) = LiveRank(1)
       PROVE  RR = LiveRank(1) * L /\ QQ = CeilDiv(b * LiveRank(1), Word) * L
  <2>1. PICK i \in Nat : i = LiveRank(1)
    BY <1>1, <1>3
  <2>2. \A l \in Layers : r[l] = i
    BY <1>3, <1>25, <2>1
  <2>3. PICK j \in Nat : j = q[1]
    BY <1>1, <1>4
  <2>4. \A l \in Layers : q[l] = CeilDiv(b * i, Word)
    BY <1>4, <2>2
  <2>5. \A l \in Layers : q[l] = j
    BY <1>1, <2>3, <2>4
  <2>6. Summing(q, Layers, Q) /\ Summing(r, Layers, R)
    BY <1>1, <1>10, <1>15
  <2>7. Q[Layers] = j * NumLayers
    BY <2>5, <2>6, ConstantSum
  <2>8. R[Layers] = i * NumLayers
    BY <2>2, <2>6, ConstantSum
  <2>9. j = CeilDiv(b * i, Word)
    BY <1>1, <2>3, <2>4
  <2> QED BY <1>1, <1>16, <2>1, <2>7, <2>8, <2>9 DEF L
<1>26. RankSum = RR
  BY <1>10, <1>16
<1> QED BY <1>11, <1>12, <1>17, <1>20, <1>21, <1>23, <1>24, <1>25, <1>26 DEF b, L

\* Layers that hold equally many columns and codes, each in its own basis, are
\* billed what they store.
LEMMA UniformIsBilled ==
  ASSUME arm \in Arms, NEW n \in Nat, NEW m \in Nat, Uniform(n, m)
  PROVE  LET stored == MapThenSumSet(Stored, Layers)
             exact == gist[1].codes = <<>> \/ \A l \in Layers : LiveRank(l) = LiveRank(1)
         IN /\ exact => Billed = stored
            /\ Billed - stored \in (1 - NumLayers) .. (NumLayers - 1)
            /\ BilledGistBits = MapThenSumSet(StoredGistBits, Layers)
<1> DEFINE L == NumLayers
           b == m * arm.bits
<1>1. PICK T : T = MapThenSumSet(Stored, Layers)
  OBVIOUS
<1>2. PICK U : U = MapThenSumSet(StoredGistBits, Layers)
  OBVIOUS
<1>3. PICK R : R = RankSum
  OBVIOUS
<1>4. PICK Q \in Nat :
           /\ R \in Nat
           /\ T = (Features + n + 1) * R + Q + (2 * m) * L
           /\ U = ((Features + n) * arm.gist) * R
           /\ b * R <= Word * Q /\ Word * Q <= b * R + (Word - 1) * L
           /\ m = 0 => Q = 0
           /\ (\A l \in Layers : LiveRank(l) = LiveRank(1)) =>
                /\ R = LiveRank(1) * L
                /\ Q = CeilDiv(b * LiveRank(1), Word) * L
  BY <1>1, <1>2, <1>3, UniformSums
<1>5. /\ L \in Nat \ {0} /\ 1 \in Layers /\ Features \in Nat /\ Word \in Nat \ {0}
      /\ arm.gist \in Nat /\ arm.bits \in Nat
  BY LayersAre, ConstantsAssumption
<1>6. b \in Nat
  BY <1>5
<1>7. Len(gist[1].c) = n /\ Len(gist[1].codes) = m
  BY <1>5 DEF Uniform
<1>8. R * m * arm.bits = b * R /\ b * R \in Nat
  <2>1. R * m = m * R /\ m * R \in Nat
    BY <1>4
  <2>2. (m * R) * arm.bits = (m * arm.bits) * R
    BY <1>4, <1>5
  <2>3. (m * arm.bits) * R \in Nat
    BY <1>4, <1>5
  <2> QED BY <2>1, <2>2, <2>3
<1>9. PICK A : A = CeilDiv(b * R, L * Word)
  OBVIOUS
<1>10. A \in Nat
  <2>1. L * Word \in Nat \ {0}
    BY <1>5
  <2> QED BY <1>8, <1>9, <2>1, CeilBounds
<1>11. Billed = R * (Features + n) + R + L * A + L * 2 * m
  BY <1>3, <1>7, <1>8, <1>9 DEF Billed
<1>12. /\ Billed \in Int /\ T \in Int /\ Billed - T = L * A - Q
  <2>1. PICK x \in Int, y \in Int, z \in Int :
          x = R * (Features + n) /\ y = L * A /\ z = L * 2 * m
    BY <1>4, <1>5, <1>10
  <2>2. (Features + n + 1) * R = x + R
    BY <1>4, <1>5, <2>1
  <2>3. (2 * m) * L = z
    BY <1>5, <2>1
  <2>4. Billed = x + R + y + z /\ T = x + R + Q + z
    BY <1>4, <1>11, <2>1, <2>2, <2>3
  <2>5. (x + R + y + z) - (x + R + Q + z) = y - Q
    BY <1>4
  <2> QED BY <1>4, <2>1, <2>4, <2>5
<1>13. L * A - Q \in (1 - L) .. (L - 1)
  <2>1. Q \in Int
    BY <1>4
  <2> HIDE DEF b, L
  <2> QED BY <1>4, <1>5, <1>8, <1>9, <2>1, RoundingBounds
<1>14. BilledGistBits = U
  <2>1. BilledGistBits = R * (Features + n) * arm.gist
    BY <1>3, <1>7 DEF BilledGistBits
  <2>2. R * (Features + n) * arm.gist = ((Features + n) * arm.gist) * R
    BY <1>4, <1>5
  <2> QED BY <1>4, <2>1, <2>2
<1>15. ASSUME gist[1].codes = <<>>
       PROVE  L * A = Q
  <2>1. m = 0
    BY <1>7, <1>15
  <2>2. Q = 0 /\ b = 0
    BY <1>4, <1>5, <2>1
  <2>3. b * R = 0
    BY <1>4, <2>2
  <2>4. PICK W \in Nat \ {0} : W = L * Word
    BY <1>5
  <2>5. W * A < W * 1
    <3>1. W * CeilDiv(0, W) < 0 + W
      BY <2>4, CeilBounds
    <3> QED BY <1>9, <2>3, <2>4, <3>1
  <2>6. A < 1
    BY <1>10, <2>4, <2>5, ProductOrder
  <2>7. A = 0
    BY <1>10, <2>6
  <2> QED BY <1>5, <2>2, <2>7
<1>16. ASSUME \A l \in Layers : LiveRank(l) = LiveRank(1)
       PROVE  L * A = Q
  <2>1. PICK i \in Nat : i = LiveRank(1)
    BY <1>5, LayerStores
  <2>2. R = i * L /\ Q = CeilDiv(b * i, Word) * L
    BY <1>4, <1>16, <2>1
  <2>3. PICK x \in Nat : x = b * i
    <3>1. b * i \in Nat
      BY <1>6
    <3> QED BY <3>1
  <2>4. b * R = L * x
    BY <1>5, <1>6, <2>2, <2>3
  <2>5. A = CeilDiv(x, Word)
    <3> HIDE DEF L, b
    <3>1. CeilDiv(L * x, L * Word) = CeilDiv(x, Word)
      BY <1>5, RoundingExact
    <3> QED BY <1>9, <2>4, <3>1
  <2>6. Q = A * L
    BY <2>2, <2>3, <2>5
  <2> QED BY <1>5, <1>10, <2>6
<1>17. ASSUME L * A = Q
       PROVE  Billed = T
  <2>1. Billed - T = 0
    BY <1>4, <1>12, <1>17
  <2> QED BY <1>12, <2>1
<1>18. (gist[1].codes = <<>> \/ \A l \in Layers : LiveRank(l) = LiveRank(1)) => Billed = T
  BY <1>15, <1>16, <1>17
<1>19. Billed - T \in (1 - NumLayers) .. (NumLayers - 1)
  BY <1>12, <1>13
<1> QED BY <1>1, <1>2, <1>14, <1>18, <1>19

------------------------------------------------------------------------------
(* The layers go in step. *)

\* What a layer holds: tokens in the exact tier, coordinates and codes.
Holds(g, e, n, m) == Cardinality(g.exact) = e /\ Len(g.c) = n /\ Len(g.codes) = m

\* How many of e tokens and k fresh ones leave the exact tier, and the coordinates
\* and the codes there are once as many were absorbed.
Leave(a, e, k) == e + k - Min({a.hh_budget, e + k})
Over(n, budget) == Max({0, n - budget})
Spilled(a, n, o) == Over(n + o, a.coord_budget)
Coordinates(a, n, o) == IF o = 0 THEN n ELSE n + o - Spilled(a, n, o)
Coded(a, n, m, o) == IF a.bits > 0 THEN m + Spilled(a, n, o) ELSE m
Codes(a, n, m, o) == IF o = 0 THEN m
                     ELSE Coded(a, n, m, o) - Over(Coded(a, n, m, o), a.quant_budget)

\* In a round that found e tokens, n coordinates and m codes in every layer, the
\* layers to come hold them still, the layer at work has chosen what leaves its
\* exact tier, and the layers before it hold what the round makes of them.
InRound(e, n, m) ==
  \A l \in Layers :
    /\ l > at \/ (l = at /\ pc \in {"idle", "select"}) =>
         Holds(gist[l], e, n, m) /\ gist[l].exact \cap fresh = {}
    /\ l = at /\ pc \in {"step", "guard", "append"} =>
         /\ Holds(gist[l], e + Cardinality(fresh) - Leave(arm, e, Cardinality(fresh)), n, m)
         /\ Cardinality(block) = Leave(arm, e, Cardinality(fresh))
    /\ l < at =>
         Holds(gist[l], e + Cardinality(fresh) - Leave(arm, e, Cardinality(fresh)),
               Coordinates(arm, n, Leave(arm, e, Cardinality(fresh))),
               Codes(arm, n, m, Leave(arm, e, Cardinality(fresh))))

\* The layers go in step, and a store is rounded back to gist_dtype at rest.
Steady == pc \in {"idle", "select", "step", "guard", "append"}
Lockstep ==
  /\ Steady => \E e, n, m \in Nat : InRound(e, n, m)
  /\ pc = "idle" => at = 1 /\ fresh = {}
  /\ \A l \in Layers :
       gist[l].word = arm.gist \/ (l = at /\ pc \in {"guard", "append", "failed", "aborted"})

\* Counts stay counts.
LEMMA RoundCounts ==
  ASSUME NEW a \in Arms, NEW e \in Nat, NEW k \in Nat, NEW n \in Nat, NEW m \in Nat,
         NEW o \in Nat
  PROVE  /\ Leave(a, e, k) \in Nat /\ e + k - Leave(a, e, k) \in Nat
         /\ Coordinates(a, n, o) \in Nat /\ Codes(a, n, m, o) \in Nat
         /\ Spilled(a, n, o) \in 0 .. (n + o)
<1>1. a.hh_budget \in Nat /\ a.coord_budget \in Nat /\ a.quant_budget \in Nat
  BY ConstantsAssumption
<1>2. ASSUME NEW x \in Nat, NEW b \in Nat
      PROVE  Over(x, b) \in 0 .. x
  <2>1. 0 \in Int /\ x - b \in Int
    OBVIOUS
  <2>2. Max({0, x - b}) \in {0, x - b} /\ Max({0, x - b}) >= 0
    BY <2>1, MaxOfTwo, Zenon
  <2> QED BY <2>2 DEF Over
<1>3. Leave(a, e, k) \in Nat /\ e + k - Leave(a, e, k) \in Nat
  <2>1. e + k \in Nat
    OBVIOUS
  <2>2. Min({a.hh_budget, e + k}) \in 0 .. (e + k)
    BY <1>1, <2>1, MinOfTwo, Zenon
  <2> QED BY <2>1, <2>2 DEF Leave
<1>4. Spilled(a, n, o) \in 0 .. (n + o)
  <2>1. n + o \in Nat
    OBVIOUS
  <2> QED BY <1>1, <1>2, <2>1 DEF Spilled
<1>5. Coordinates(a, n, o) \in Nat
  BY <1>4 DEF Coordinates
<1>6. Coded(a, n, m, o) \in Nat
  BY <1>4 DEF Coded
<1>7. Over(Coded(a, n, m, o), a.quant_budget) \in 0 .. Coded(a, n, m, o)
  BY <1>1, <1>2, <1>6
<1>8. Codes(a, n, m, o) \in Nat
  BY <1>6, <1>7 DEF Codes
<1> QED BY <1>3, <1>4, <1>5, <1>8

\* When the layer at work is done the next one starts the round, or every layer
\* has come through it.
LEMMA RoundMoves ==
  ASSUME arm \in Arms, at \in Layers, arm' = arm, NextLayer,
         NEW e \in Nat, NEW n \in Nat, NEW m \in Nat, NEW k \in Nat, k = Cardinality(fresh),
         \A l \in Layers : l > at => Holds(gist'[l], e, n, m) /\ gist'[l].exact \cap fresh = {},
         \A l \in Layers : l <= at =>
            Holds(gist'[l], e + k - Leave(arm, e, k), Coordinates(arm, n, Leave(arm, e, k)),
                  Codes(arm, n, m, Leave(arm, e, k)))
  PROVE  /\ \E x, y, z \in Nat : InRound(x, y, z)'
         /\ pc' = "idle" => at' = 1 /\ fresh' = {}
<1>1. Layers = 1 .. NumLayers /\ NumLayers \in Nat \ {0}
  BY LayersAre
<1> DEFINE o == Leave(arm, e, k)
<1>2. o \in Nat /\ e + k - o \in Nat
  BY RoundCounts
<1>3. Coordinates(arm, n, o) \in Nat /\ Codes(arm, n, m, o) \in Nat
  BY <1>2, RoundCounts
<1>4. CASE at < NumLayers
  <2>1. at' = at + 1 /\ pc' = "select" /\ fresh' = fresh
    BY <1>4 DEF NextLayer
  <2>2. InRound(e, n, m)'
    <3> SUFFICES ASSUME NEW l \in Layers
                 PROVE  /\ l >= at' => Holds(gist'[l], e, n, m) /\ gist'[l].exact \cap fresh' = {}
                        /\ l < at' => Holds(gist'[l], e + k - o, Coordinates(arm, n, o),
                                            Codes(arm, n, m, o))
      BY <1>1, <2>1 DEF InRound
    <3>1. (l >= at' <=> l > at) /\ (l < at' <=> l <= at)
      BY <1>1, <2>1
    <3> QED BY <2>1, <3>1
  <2> QED BY <2>1, <2>2
<1>5. CASE at = NumLayers
  <2>1. at' = 1 /\ pc' = "idle" /\ fresh' = {}
    BY <1>1, <1>5 DEF NextLayer
  <2>0. PICK x \in Nat, y \in Nat, z \in Nat :
          /\ x = e + k - o /\ y = Coordinates(arm, n, o) /\ z = Codes(arm, n, m, o)
    BY <1>2, <1>3
  <2>2. \A l \in Layers : l <= at /\ l >= 1
    BY <1>1, <1>5
  <2>3. \A l \in Layers : Holds(gist'[l], x, y, z)
    BY <2>0, <2>2
  <2>4. InRound(x, y, z)'
    <3>1. \A l \in Layers : gist'[l].exact \cap fresh' = {} /\ ~(l < at')
      BY <1>1, <2>1
    <3>2. pc' = "idle" /\ ~(pc' \in {"step", "guard", "append"})
      BY <2>1
    <3> QED BY <2>3, <3>1, <3>2, Zenon DEF InRound
  <2> QED BY <2>1, <2>4
<1>6. at < NumLayers \/ at = NumLayers
  BY <1>1
<1> QED BY <1>4, <1>5, <1>6, Zenon

\* Carrying the columns of a layer to other bases leaves their number, the exact
\* tier and the word alone.
LEMMA CarriedHolds ==
  ASSUME NEW g \in Gist, NEW to, NEW moved, NEW e, NEW n, NEW m, Holds(g, e, n, m)
  PROVE  /\ Holds(InBasis(g, to, moved), e, n, m)
         /\ InBasis(g, to, moved).exact = g.exact /\ InBasis(g, to, moved).word = g.word
<1>1. \A cols \in Seq(Column) : Len(Carry(cols, g.basis, to)) = Len(cols)
  <2> SUFFICES ASSUME NEW cols \in Seq(Column)
               PROVE  Len(Carry(cols, g.basis, to)) = Len(cols)
    OBVIOUS
  <2>1. Len(cols) \in Nat /\ DOMAIN cols = 1 .. Len(cols)
    OBVIOUS
  <2> QED BY <2>1 DEF Carry
<1>2. \A cols \in Seq(Column) : Len(RotateQuantTier(cols, g.basis, to, moved)) = Len(cols)
  <2> SUFFICES ASSUME NEW cols \in Seq(Column)
               PROVE  Len(RotateQuantTier(cols, g.basis, to, moved)) = Len(cols)
    OBVIOUS
  <2>1. Len(cols) \in Nat /\ DOMAIN cols = 1 .. Len(cols)
    OBVIOUS
  <2> QED BY <2>1 DEF RotateQuantTier
<1>3. g.c \in Seq(Column) /\ g.codes \in Seq(Column)
  BY DEF Gist
<1>4. /\ InBasis(g, to, moved).c = Carry(g.c, g.basis, to)
      /\ InBasis(g, to, moved).codes = RotateQuantTier(g.codes, g.basis, to, moved)
      /\ InBasis(g, to, moved).exact = g.exact /\ InBasis(g, to, moved).word = g.word
  BY DEF InBasis, Gist
<1> HIDE DEF Column
<1> QED BY <1>1, <1>2, <1>3, <1>4, Zenon DEF Holds

\* The positions of a round are finitely many, and new to every exact tier.
LEMMA FinitePositions ==
  ASSUME TypeOK
  PROVE  /\ IsFiniteSet(fresh) /\ Cardinality(fresh) \in Nat
         /\ \A l \in Layers : IsFiniteSet(gist[l].exact)
<1>1. 0 \in Int /\ graduated - 1 \in Int
  BY DEF TypeOK
<1>2. IsFiniteSet(0 .. graduated - 1)
  BY <1>1, FS_Interval
<1>3. IsFiniteSet(fresh) /\ \A l \in Layers : IsFiniteSet(gist[l].exact)
  BY <1>2, FS_Subset DEF TypeOK
<1> QED BY <1>3, FS_CardinalityType

\* Untouched layers hold nothing.
LEMMA BlankInStep ==
  ASSUME arm \in Arms, at = 1, pc = "idle", fresh = {}, gist = Untouched(arm)
  PROVE  Lockstep
<1>1. \A l \in Layers : Holds(gist[l], 0, 0, 0) /\ gist[l].exact = {} /\ gist[l].word = arm.gist
  BY FS_EmptySet DEF Untouched, Blank, Holds
<1>2. \A l \in Layers : l >= 1
  BY LayersAre
<1>3. InRound(0, 0, 0)
  <2>1. \A l \in Layers : ~(l < at) /\ gist[l].exact \cap fresh = {}
    BY <1>1, <1>2, LayersAre
  <2>2. pc = "idle" /\ ~(pc \in {"step", "guard", "append"})
    OBVIOUS
  <2> QED BY <1>1, <2>1, <2>2, Zenon DEF InRound
<1> QED BY <1>1, <1>3 DEF Lockstep

\* A fresh cache is in step.
LEMMA InitInStep == Init => Lockstep
BY BlankInStep DEF Init

\* What graduates is new to every exact tier.
LEMMA GraduateInStep ==
  ASSUME IInv, Lockstep, NEW q \in 1 .. MaxBlock, Graduate(q)
  PROVE  Lockstep'
<1>1. /\ pc = "idle" /\ pc' = "select" /\ at = 1 /\ at' = 1 /\ gist' = gist /\ arm' = arm
      /\ fresh' = graduated .. graduated + q - 1 /\ graduated \in Nat /\ q \in Nat
  BY ConstantsAssumption DEF Graduate, Lockstep, IInv, TypeOK
<1>2. PICK e \in Nat, n \in Nat, m \in Nat : InRound(e, n, m)
  BY <1>1 DEF Lockstep, Steady
<1>3. \A l \in Layers : l >= 1
  BY LayersAre
<1>4. \A l \in Layers : Holds(gist[l], e, n, m)
  BY <1>1, <1>2, <1>3, LayersAre DEF InRound
<1>5. \A l \in Layers : gist[l].exact \cap fresh' = {}
  <2>1. \A l \in Layers : gist[l].exact \in SUBSET (0 .. graduated - 1)
    BY DEF IInv, TypeOK
  <2> QED BY <1>1, <2>1
<1>6. InRound(e, n, m)'
  <2>1. \A l \in Layers : ~(l < at')
    BY <1>1, LayersAre
  <2>2. pc' = "select" /\ ~(pc' \in {"step", "guard", "append"})
    BY <1>1
  <2> QED BY <1>1, <1>4, <1>5, <2>1, <2>2, Zenon DEF InRound
<1> QED BY <1>1, <1>6 DEF Lockstep

\* The end of the first call.
LEMMA EndPrefillInStep ==
  ASSUME Lockstep, EndPrefill
  PROVE  Lockstep'
BY DEF EndPrefill, Lockstep, Steady, InRound

\* A fresh cache.
LEMMA RenewInStep ==
  ASSUME IInv, Renew
  PROVE  Lockstep'
<1>1. /\ arm' \in Arms /\ at' = 1 /\ pc' = "idle" /\ fresh' = {}
      /\ gist' = [l \in Layers |-> Blank(arm')]
  BY DEF Renew, Untouched, IInv, TypeOK
<1>2. \A l \in Layers : Holds(gist'[l], 0, 0, 0) /\ gist'[l].exact = {}
                        /\ gist'[l].word = arm'.gist
  BY <1>1, FS_EmptySet DEF Blank, Holds
<1>3. InRound(0, 0, 0)'
  <2>1. \A l \in Layers : ~(l < at') /\ gist'[l].exact \cap fresh' = {}
    BY <1>1, <1>2, LayersAre
  <2>2. pc' = "idle" /\ ~(pc' \in {"step", "guard", "append"})
    BY <1>1
  <2> QED BY <1>2, <2>1, <2>2, Zenon DEF InRound
<1> QED BY <1>1, <1>2, <1>3 DEF Lockstep

\* Every layer lets as many tokens out of its exact tier as the round asks for.
LEMMA SelectInStep ==
  ASSUME IInv, Lockstep, Select
  PROVE  Lockstep'
<1> DEFINE pool == gist[at].exact \cup fresh
           over == Cardinality(pool) - Min({arm.hh_budget, Cardinality(pool)})
<1>1. PICK out \in kSubset(over, pool) :
        /\ gist' = [gist EXCEPT ![at].exact = pool \ out]
        /\ IF out = {} THEN NextLayer
           ELSE block' = out /\ pc' = "step" /\ UNCHANGED <<at, fresh>>
  BY DEF Select
<1>2. /\ pc = "select" /\ at \in Layers /\ arm \in Arms /\ arm' = arm /\ TypeOK
      /\ gist \in [Layers -> Gist]
  BY DEF Select, IInv, TypeOK
<1>3. PICK e \in Nat, n \in Nat, m \in Nat : InRound(e, n, m)
  BY <1>2 DEF Lockstep, Steady
<1>4. PICK k \in Nat : k = Cardinality(fresh)
  BY <1>2, FinitePositions
<1>5. PICK o \in Nat : o = Leave(arm, e, k) /\ e + k - o \in Nat
  BY <1>2, RoundCounts
<1>6. Holds(gist[at], e, n, m) /\ gist[at].exact \cap fresh = {}
  BY <1>2, <1>3 DEF InRound
<1>7. IsFiniteSet(pool) /\ Cardinality(pool) = e + k
  <2>1. IsFiniteSet(gist[at].exact) /\ IsFiniteSet(fresh)
    BY <1>2, FinitePositions
  <2>2. /\ IsFiniteSet(pool)
        /\ Cardinality(pool) = Cardinality(gist[at].exact) + Cardinality(fresh)
                                 - Cardinality(gist[at].exact \cap fresh)
    BY <2>1, FS_Union
  <2>3. Cardinality(gist[at].exact) = e /\ Cardinality(gist[at].exact \cap fresh) = 0
    BY <1>6, FS_EmptySet DEF Holds
  <2> HIDE DEF pool
  <2> QED BY <1>4, <2>2, <2>3
<1>8. over = o
  <2>1. PICK c : c = Cardinality(pool)
    OBVIOUS
  <2>2. over = c - Min({arm.hh_budget, c})
    BY <2>1
  <2>3. c = e + k
    BY <1>7, <2>1
  <2> HIDE DEF over
  <2>4. over = (e + k) - Min({arm.hh_budget, (e + k)})
    BY <2>2, <2>3, Zenon
  <2>5. Leave(arm, e, k) = e + (k - Min({arm.hh_budget, e + k}))
    BY Zenon DEF Leave
  <2>6. arm.hh_budget \in Nat /\ e + k \in Nat
    BY <1>2, ConstantsAssumption
  <2>7. PICK w \in Nat : w = Min({arm.hh_budget, e + k})
    <3>1. Min({arm.hh_budget, e + k}) \in 0 .. arm.hh_budget
      BY <2>6, MinOfTwo, Zenon
    <3> QED BY <2>6, <3>1
  <2>8. e + (k - w) = (e + k) - w
    OBVIOUS
  <2> QED BY <1>5, <2>4, <2>5, <2>7, <2>8, Zenon
<1>9. out \in SUBSET pool /\ Cardinality(out) = o
  BY <1>1, <1>8 DEF kSubset
<1>10. IsFiniteSet(out) /\ Cardinality(pool \ out) = e + k - o
  <2>1. IsFiniteSet(out)
    BY <1>7, <1>9, FS_Subset
  <2>2. Cardinality(pool \ out) = Cardinality(pool) - Cardinality(pool \cap out)
    BY <1>7, <2>1, FS_Difference
  <2>3. pool \cap out = out
    BY <1>9
  <2> QED BY <1>7, <1>9, <2>1, <2>2, <2>3
<1>11. /\ \A l \in Layers \ {at} : gist'[l] = gist[l]
       /\ \A l \in Layers : gist'[l].word = gist[l].word
       /\ Holds(gist'[at], e + k - o, n, m)
  <2> HIDE DEF pool
  <2>1. gist'[at] = [gist[at] EXCEPT !.exact = pool \ out]
    BY <1>1, <1>2
  <2>2. gist[at] \in Gist
    BY <1>2
  <2>3. /\ gist'[at].exact = pool \ out /\ gist'[at].c = gist[at].c
        /\ gist'[at].codes = gist[at].codes /\ gist'[at].word = gist[at].word
    BY <2>1, <2>2 DEF Gist
  <2>4. \A l \in Layers \ {at} : gist'[l] = gist[l]
    BY <1>1, <1>2
  <2> QED BY <1>6, <1>10, <2>3, <2>4 DEF Holds
<1>12. \A l \in Layers : gist[l].word = arm.gist
  BY <1>2 DEF Lockstep
<1>13. /\ \A l \in Layers : l > at =>
             Holds(gist'[l], e, n, m) /\ gist'[l].exact \cap fresh = {}
       /\ \A l \in Layers : l < at =>
             Holds(gist'[l], e + k - o, Coordinates(arm, n, o), Codes(arm, n, m, o))
  <2>1. \A l \in Layers : (l > at \/ l < at) => gist'[l] = gist[l]
    BY <1>11, <1>2, LayersAre
  <2> QED BY <1>3, <1>4, <1>5, <2>1 DEF InRound
<1> HIDE DEF pool, over
<1>14. CASE out = {}
  <2>1. NextLayer
    BY <1>1, <1>14
  <2>2. o = 0
    BY <1>9, <1>14, FS_EmptySet
  <2>3. Coordinates(arm, n, o) = n /\ Codes(arm, n, m, o) = m
    BY <2>2 DEF Coordinates, Codes
  <2>4. \A l \in Layers : l <= at =>
            Holds(gist'[l], e + k - o, Coordinates(arm, n, o), Codes(arm, n, m, o))
    <3> SUFFICES ASSUME NEW l \in Layers, l <= at
                 PROVE  Holds(gist'[l], e + k - o, Coordinates(arm, n, o), Codes(arm, n, m, o))
      OBVIOUS
    <3>1. l = at \/ l < at
      BY <1>2, LayersAre
    <3> QED BY <1>11, <1>13, <2>3, <3>1
  <2>5. /\ \E x, y, z \in Nat : InRound(x, y, z)'
        /\ pc' = "idle" => at' = 1 /\ fresh' = {}
    BY <1>2, <1>4, <1>5, <1>13, <2>1, <2>4, RoundMoves
  <2> QED BY <1>2, <1>11, <1>12, <2>5 DEF Lockstep
<1>15. CASE out # {}
  <2>1. block' = out /\ pc' = "step" /\ at' = at /\ fresh' = fresh
    BY <1>1, <1>15
  <2>2. InRound(e, n, m)'
    <3> SUFFICES ASSUME NEW l \in Layers
                 PROVE  /\ l > at' \/ (l = at' /\ pc' \in {"idle", "select"}) =>
                            Holds(gist'[l], e, n, m) /\ gist'[l].exact \cap fresh' = {}
                        /\ l = at' /\ pc' \in {"step", "guard", "append"} =>
                             Holds(gist'[l], e + k - o, n, m) /\ Cardinality(block') = o
                        /\ l < at' => Holds(gist'[l], e + k - o, Coordinates(arm, n, o),
                                            Codes(arm, n, m, o))
      BY <1>2, <1>4, <1>5, <2>1 DEF InRound
    <3>1. l = at' => Holds(gist'[l], e + k - o, n, m) /\ Cardinality(block') = o
      BY <1>9, <1>11, <2>1
    <3>2. ~(pc' \in {"idle", "select"})
      BY <2>1
    <3> QED BY <1>13, <2>1, <3>1, <3>2, Zenon
  <2> QED BY <1>2, <1>11, <1>12, <2>1, <2>2 DEF Lockstep
<1> QED BY <1>14, <1>15

\* Work on one layer that leaves its counts alone keeps the layers in step.
LEMMA WorkInStep ==
  ASSUME TypeOK, Lockstep, pc \in {"step", "guard"},
         pc' \in {"guard", "append", "failed", "aborted"},
         arm' = arm, at' = at, fresh' = fresh, block' = block,
         \A l \in Layers \ {at} : gist'[l] = gist[l],
         pc' \in {"guard", "append"} =>
           \A e, n, m \in Nat : Holds(gist[at], e, n, m) => Holds(gist'[at], e, n, m)
  PROVE  Lockstep'
<1>1. \A l \in Layers : l # at => gist'[l] = gist[l] /\ gist[l].word = arm.gist
  BY DEF Lockstep
<1>2. CASE pc' \in {"failed", "aborted"}
  BY <1>1, <1>2 DEF Lockstep, Steady
<1>3. CASE pc' \in {"guard", "append"}
  <2>1. PICK e \in Nat, n \in Nat, m \in Nat : InRound(e, n, m)
    BY DEF Lockstep, Steady
  <2>2. PICK k \in Nat : k = Cardinality(fresh)
    BY FinitePositions
  <2>3. PICK o \in Nat : o = Leave(arm, e, k) /\ e + k - o \in Nat
    BY <2>2, RoundCounts DEF TypeOK
  <2>4. Holds(gist[at], e + k - o, n, m) /\ Cardinality(block) = o
    BY <2>1, <2>2, <2>3 DEF InRound, TypeOK
  <2>5. Holds(gist'[at], e + k - o, n, m)
    BY <1>3, <2>3, <2>4
  <2>6. InRound(e, n, m)'
    <3> SUFFICES ASSUME NEW l \in Layers
                 PROVE  /\ l > at => Holds(gist'[l], e, n, m) /\ gist'[l].exact \cap fresh = {}
                        /\ l = at => Holds(gist'[l], e + k - o, n, m)
                        /\ l < at => Holds(gist'[l], e + k - o, Coordinates(arm, n, o),
                                           Codes(arm, n, m, o))
      BY <1>3, <2>2, <2>3, <2>4 DEF InRound
    <3>1. (l > at \/ l < at) => gist'[l] = gist[l]
      BY LayersAre DEF TypeOK
    <3> QED BY <2>1, <2>2, <2>3, <2>5, <3>1 DEF InRound
  <2> QED BY <1>1, <1>3, <2>6 DEF Lockstep
<1> QED BY <1>2, <1>3

\* Stepping the trackers carries columns, and makes and drops none.
LEMMA TrackStepInStep ==
  ASSUME IInv, Lockstep, TrackStep
  PROVE  Lockstep'
<1>1. TypeOK /\ pc = "step" /\ block # {} /\ at \in Layers /\ gist \in [Layers -> Gist]
  BY DEF IInv, TypeOK, TrackStep
<1>2. PICK to : gist' = [gist EXCEPT ![at] = InBasis(Widened, to, Streams)]
  BY DEF TrackStep
<1>3. /\ Widened \in Gist /\ Widened.c = gist[at].c /\ Widened.codes = gist[at].codes
      /\ Widened.exact = gist[at].exact
  BY <1>1, WidenedIsGist
<1>4. gist'[at] = InBasis(Widened, to, Streams) /\ \A l \in Layers \ {at} : gist'[l] = gist[l]
  BY <1>1, <1>2
<1>5. \A e, n, m \in Nat : Holds(gist[at], e, n, m) => Holds(gist'[at], e, n, m)
  <2> SUFFICES ASSUME NEW e \in Nat, NEW n \in Nat, NEW m \in Nat, Holds(gist[at], e, n, m)
               PROVE  Holds(gist'[at], e, n, m)
    OBVIOUS
  <2>1. Holds(Widened, e, n, m)
    BY <1>3 DEF Holds
  <2> QED BY <1>3, <1>4, <2>1, CarriedHolds
<1>6. pc' = "guard" /\ arm' = arm /\ at' = at /\ fresh' = fresh /\ block' = block
  BY DEF TrackStep
<1> QED BY <1>1, <1>4, <1>5, <1>6, WorkInStep

\* Once a step has raised only the layer at work is left as it was.
LEMMA StepFailsInStep ==
  ASSUME IInv, Lockstep, StepFails
  PROVE  Lockstep'
<1>1. TypeOK /\ pc = "step" /\ gist \in [Layers -> Gist]
  BY DEF IInv, TypeOK, StepFails
<1>2. \A l \in Layers \ {at} : gist'[l] = gist[l]
  BY <1>1 DEF StepFails
<1>3. pc' = "failed" /\ arm' = arm /\ at' = at /\ fresh' = fresh /\ block' = block
  BY DEF StepFails
<1> QED BY <1>1, <1>2, <1>3, WorkInStep

\* The guard's repair carries columns, and makes and drops none.
LEMMA GuardInStep ==
  ASSUME IInv, Lockstep, Guard
  PROVE  Lockstep'
<1>1. TypeOK /\ pc = "guard" /\ block # {} /\ at \in Layers /\ gist \in [Layers -> Gist]
  BY DEF IInv, TypeOK, Guard
<1> DEFINE counted == [gist[at] EXCEPT !.absorbs = gist[at].absorbs + 1,
                                       !.frontier = TokensSeen(at)]
<1>2. PICK to, fixed : /\ gist' = [gist EXCEPT ![at] = InBasis(counted, to, fixed)]
                       /\ pc' \in {"append", "aborted"}
  BY DEF Guard
<1>3. /\ counted \in Gist /\ counted.c = gist[at].c /\ counted.codes = gist[at].codes
      /\ counted.exact = gist[at].exact
  <2>1. gist[at] \in Gist /\ gist[at].absorbs + 1 \in Nat
    BY <1>1 DEF Gist
  <2>2. TokensSeen(at) \in Nat
    BY <1>1, FrontierMoves
  <2> QED BY <2>1, <2>2 DEF Gist
<1>4. gist'[at] = InBasis(counted, to, fixed) /\ \A l \in Layers \ {at} : gist'[l] = gist[l]
  BY <1>1, <1>2
<1> HIDE DEF counted
<1>5. \A e, n, m \in Nat : Holds(gist[at], e, n, m) => Holds(gist'[at], e, n, m)
  <2> SUFFICES ASSUME NEW e \in Nat, NEW n \in Nat, NEW m \in Nat, Holds(gist[at], e, n, m)
               PROVE  Holds(gist'[at], e, n, m)
    OBVIOUS
  <2>1. Holds(counted, e, n, m)
    BY <1>3 DEF Holds
  <2> QED BY <1>3, <1>4, <2>1, CarriedHolds
<1>6. arm' = arm /\ at' = at /\ fresh' = fresh /\ block' = block
  BY DEF Guard
<1> QED BY <1>1, <1>2, <1>4, <1>5, <1>6, WorkInStep

\* What a budget drops from the front of a sequence, and what is left of it.
LEMMA CutLengths ==
  ASSUME NEW S, NEW s \in Seq(S), NEW i \in 0 .. Len(s)
  PROVE  /\ SubSeq(s, 1, i) \in Seq(S) /\ Len(SubSeq(s, 1, i)) = i
         /\ SubSeq(s, i + 1, Len(s)) \in Seq(S)
         /\ Len(SubSeq(s, i + 1, Len(s))) = Len(s) - i
OBVIOUS

\* The budgets leave as many coordinates and codes as the counts say.
LEMMA BudgetsInStep ==
  ASSUME arm \in Arms, NEW g \in Gist, NEW own \in Seq(Column), NEW n \in Nat, NEW m \in Nat,
         NEW o \in Nat \ {0}, NEW e, Holds(g, e, n, m), Len(own) = o
  PROVE  LET h == EnforceBudgets([g EXCEPT !.c = @ \o own])
         IN /\ h \in Gist /\ Holds(h, e, Coordinates(arm, n, o), Codes(arm, n, m, o))
            /\ h.exact = g.exact
<1>0. arm.coord_budget \in Nat /\ arm.quant_budget \in Nat /\ arm.bits \in Nat
  BY ConstantsAssumption
<1>1. g.c \in Seq(Column) /\ g.codes \in Seq(Column) /\ Len(g.c) = n /\ Len(g.codes) = m
      /\ Cardinality(g.exact) = e
  BY DEF Gist, Holds
<1>2. PICK cs \in Seq(Column) : cs = g.c \o own /\ Len(cs) = n + o
  <2> HIDE DEF Column
  <2>1. g.c \o own \in Seq(Column) /\ Len(g.c \o own) = n + o
    BY <1>1
  <2> QED BY <2>1
<1>3. PICK out \in 0 .. Len(cs) : out = Surplus(cs, arm.coord_budget) /\ out = Spilled(arm, n, o)
  <2>1. Spilled(arm, n, o) \in 0 .. (n + o)
    BY RoundCounts
  <2>2. Surplus(cs, arm.coord_budget) = Spilled(arm, n, o)
    BY <1>2 DEF Surplus, Spilled, Over
  <2> QED BY <1>2, <2>1, <2>2
<1>4. PICK head \in Seq(Column) : head = SubSeq(cs, 1, out) /\ Len(head) = out
  <2> HIDE DEF Column
  <2>1. SubSeq(cs, 1, out) \in Seq(Column) /\ Len(SubSeq(cs, 1, out)) = out
    BY <1>3, CutLengths
  <2> QED BY <2>1, Zenon
<1>5. PICK tail \in Seq(Column) : tail = SubSeq(cs, out + 1, Len(cs)) /\ Len(tail) = n + o - out
  <2> HIDE DEF Column
  <2>1. Len(cs) - out = n + o - out
    BY <1>2, <1>3
  <2>2. /\ SubSeq(cs, out + 1, Len(cs)) \in Seq(Column)
        /\ Len(SubSeq(cs, out + 1, Len(cs))) = Len(cs) - out
    BY <1>3, CutLengths
  <2> QED BY <2>1, <2>2, Zenon
<1>6. PICK codes \in Seq(Column) :
        /\ codes = IF arm.bits > 0 THEN g.codes \o head ELSE g.codes
        /\ Len(codes) = Coded(arm, n, m, o)
  <2> HIDE DEF Column
  <2>1. CASE arm.bits > 0
    <3>1. PICK x \in Seq(Column) : x = g.codes /\ Len(x) = m
      BY <1>1
    <3>2. x \o head \in Seq(Column)
      OBVIOUS
    <3>3. Len(x \o head) = m + out
      <4>1. Len(x \o head) = Len(x) + Len(head)
        OBVIOUS
      <4> QED BY <1>4, <3>1, <4>1
    <3> QED BY <1>3, <2>1, <3>1, <3>2, <3>3 DEF Coded
  <2>2. CASE ~(arm.bits > 0)
    BY <1>1, <2>2 DEF Coded
  <2> QED BY <2>1, <2>2
<1>7. PICK drop \in 0 .. Len(codes) :
        drop = Surplus(codes, arm.quant_budget) /\ drop = Over(Len(codes), arm.quant_budget)
  <2>1. PICK w \in Nat : w = Len(codes)
    OBVIOUS
  <2>2. 0 \in Int /\ w - arm.quant_budget \in Int
    BY <1>0
  <2>3. /\ Max({0, w - arm.quant_budget}) \in {0, w - arm.quant_budget}
        /\ Max({0, w - arm.quant_budget}) >= 0
    BY <2>2, MaxOfTwo, Zenon
  <2>4. Surplus(codes, arm.quant_budget) = Over(w, arm.quant_budget)
    BY <2>1 DEF Surplus, Over
  <2>5. Over(w, arm.quant_budget) \in 0 .. w
    BY <1>0, <2>3 DEF Over
  <2> QED BY <2>1, <2>4, <2>5
<1>8. PICK kept \in Seq(Column) :
        /\ kept = SubSeq(codes, drop + 1, Len(codes))
        /\ Len(kept) = Coded(arm, n, m, o) - Over(Coded(arm, n, m, o), arm.quant_budget)
  <2> HIDE DEF Column
  <2>1. /\ SubSeq(codes, drop + 1, Len(codes)) \in Seq(Column)
        /\ Len(SubSeq(codes, drop + 1, Len(codes))) = Len(codes) - drop
    BY <1>7, CutLengths
  <2> QED BY <1>6, <1>7, <2>1, Zenon
<1>9. Len(tail) = Coordinates(arm, n, o) /\ Len(kept) = Codes(arm, n, m, o)
  BY <1>3, <1>5, <1>8 DEF Coordinates, Codes
<1> DEFINE a == [g EXCEPT !.c = @ \o own]
           h == EnforceBudgets(a)
<1>10. a.c = cs /\ a.codes = g.codes /\ a.exact = g.exact /\ a = [g EXCEPT !.c = cs]
  BY <1>2 DEF Gist
<1>11. h = [a EXCEPT !.c = tail, !.codes = kept]
  <2> HIDE DEF a
  <2> QED BY <1>3, <1>4, <1>5, <1>6, <1>7, <1>8, <1>10, Zenon DEF EnforceBudgets
<1>12. h \in Gist /\ h.c = tail /\ h.codes = kept /\ h.exact = g.exact
  <2>1. a \in Gist
    BY <1>10 DEF Gist
  <2> HIDE DEF a, h
  <2> QED BY <1>10, <1>11, <2>1 DEF Gist
<1> HIDE DEF h
<1> QED BY <1>1, <1>9, <1>12 DEF Holds, h

\* The appended block and the budgets leave what the round makes of a layer, and
\* the store is rounded back to gist_dtype.
LEMMA AppendBlockInStep ==
  ASSUME IInv, Lockstep, AppendBlock
  PROVE  Lockstep'
<1>1. /\ TypeOK /\ pc = "append" /\ at \in Layers /\ arm \in Arms /\ arm' = arm
      /\ gist[at] \in Gist /\ gist \in [Layers -> Gist] /\ NextLayer /\ block # {}
  BY DEF IInv, TypeOK, AppendBlock
<1>2. PICK e \in Nat, n \in Nat, m \in Nat : InRound(e, n, m)
  BY <1>1 DEF Lockstep, Steady
<1>3. PICK k \in Nat : k = Cardinality(fresh)
  BY <1>1, FinitePositions
<1>4. PICK o \in Nat : o = Leave(arm, e, k) /\ e + k - o \in Nat
  BY <1>1, RoundCounts
<1>5. Holds(gist[at], e + k - o, n, m) /\ Cardinality(block) = o
  BY <1>1, <1>2, <1>3, <1>4 DEF InRound
<1>6. o # 0
  <2>1. 0 \in Int /\ graduated - 1 \in Int /\ block \in SUBSET (0 .. graduated - 1)
    BY <1>1 DEF TypeOK
  <2>2. IsFiniteSet(block)
    BY <2>1, FS_Interval, FS_Subset
  <2> QED BY <1>1, <1>5, <2>2, FS_EmptySet
<1>7. PICK own \in Seq(Column) :
        own = [i \in 1 .. Cardinality(block) |-> gist[at].basis] /\ Len(own) = o
  <2>1. PICK b \in Column : b = gist[at].basis
    BY <1>1 DEF Gist
  <2> HIDE DEF Column
  <2>2. [i \in 1 .. o |-> b] \in Seq(Column) /\ Len([i \in 1 .. o |-> b]) = o
    OBVIOUS
  <2> QED BY <1>5, <2>1, <2>2, Zenon
<1>8. PICK h : /\ h = EnforceBudgets([gist[at] EXCEPT !.c = @ \o own])
               /\ h \in Gist
               /\ Holds(h, e + k - o, Coordinates(arm, n, o), Codes(arm, n, m, o))
  BY <1>1, <1>5, <1>6, <1>7, BudgetsInStep
<1>9. /\ gist'[at] = [h EXCEPT !.word = arm.gist]
      /\ \A l \in Layers \ {at} : gist'[l] = gist[l]
  BY <1>1, <1>7, <1>8 DEF AppendBlock
<1>10. /\ Holds(gist'[at], e + k - o, Coordinates(arm, n, o), Codes(arm, n, m, o))
       /\ gist'[at].word = arm.gist
  BY <1>8, <1>9 DEF Holds, Gist
<1>11. \A l \in Layers : (l > at \/ l < at) => gist'[l] = gist[l]
  BY <1>1, <1>9, LayersAre
<1>12. \A l \in Layers : l > at => Holds(gist'[l], e, n, m) /\ gist'[l].exact \cap fresh = {}
  BY <1>2, <1>11 DEF InRound
<1>13. \A l \in Layers : l <= at =>
          Holds(gist'[l], e + k - o, Coordinates(arm, n, o), Codes(arm, n, m, o))
  <2> SUFFICES ASSUME NEW l \in Layers, l <= at
               PROVE  Holds(gist'[l], e + k - o, Coordinates(arm, n, o), Codes(arm, n, m, o))
    OBVIOUS
  <2>1. l = at \/ l < at
    BY <1>1, LayersAre
  <2>2. CASE l < at
    BY <1>2, <1>3, <1>4, <1>11, <2>2 DEF InRound
  <2> QED BY <1>10, <2>1, <2>2
<1>14. /\ \E x, y, z \in Nat : InRound(x, y, z)'
       /\ pc' = "idle" => at' = 1 /\ fresh' = {}
  BY <1>1, <1>3, <1>4, <1>12, <1>13, RoundMoves
<1>15. \A l \in Layers : gist'[l].word = arm.gist
  <2>1. \A l \in Layers \ {at} : gist[l].word = arm.gist
    BY DEF Lockstep
  <2> QED BY <1>9, <1>10, <2>1
<1> QED BY <1>1, <1>14, <1>15 DEF Lockstep

\* Every step keeps the layers in step.
LEMMA NextInStep == IInv /\ Lockstep /\ [Next]_vars => Lockstep'
<1> SUFFICES ASSUME IInv, Lockstep, [Next]_vars PROVE Lockstep'
  OBVIOUS
<1>1. CASE UNCHANGED vars
  BY <1>1 DEF vars, Lockstep, Steady, InRound
<1>2. CASE Next
  BY <1>2, GraduateInStep, SelectInStep, TrackStepInStep, StepFailsInStep, GuardInStep,
     AppendBlockInStep, EndPrefillInStep, RenewInStep DEF Next
<1> QED BY <1>1, <1>2

\* The layers share nothing but the arm and the number of tokens that graduate, and
\* yet go in step: in every reachable state they hold equally many exact tokens,
\* coordinates and codes, before a round and after it.
THEOREM LayersInStep == Spec => []Lockstep
BY InitInStep, Inductive, NextInStep, PTL DEF Spec

\* The bill _footprint reads off the live layers is what they store, at the end of
\* every round: to the element when no code is held or all layers track one rank,
\* within the rounding of one code word a layer otherwise; its fp32 share exactly.
THEOREM BillIsWhole == Spec => []BilledIsStored
<1>1. IInv /\ Lockstep => BilledIsStored
  <2> SUFFICES ASSUME IInv, Lockstep, pc = "idle"
               PROVE  LET stored == MapThenSumSet(Stored, Layers)
                          exact == \/ gist[1].codes = <<>>
                                   \/ \A l \in Layers : LiveRank(l) = LiveRank(1)
                      IN /\ exact => Billed = stored
                         /\ Billed - stored \in (1 - NumLayers) .. (NumLayers - 1)
                         /\ BilledGistBits = MapThenSumSet(StoredGistBits, Layers)
    BY Zenon DEF BilledIsStored
  <2>1. PICK e \in Nat, n \in Nat, m \in Nat : InRound(e, n, m)
    BY DEF Lockstep, Steady
  <2>2. \A l \in Layers : Holds(gist[l], e, n, m) /\ gist[l].word = arm.gist
    <3>1. \A l \in Layers : l > at \/ l = at
      BY LayersAre DEF Lockstep
    <3> QED BY <2>1, <3>1 DEF InRound, Lockstep
  <2>3. Uniform(n, m)
    <3> SUFFICES ASSUME NEW l \in Layers
                 PROVE  /\ gist[l].basis \in Column /\ gist[l].word = arm.gist
                        /\ gist[l].c \in Seq({gist[l].basis}) /\ Len(gist[l].c) = n
                        /\ gist[l].codes \in Seq({gist[l].basis}) /\ Len(gist[l].codes) = m
      BY Zenon DEF Uniform
    <3>1. gist[l].basis \in Column
      BY DEF IInv, TypeOK, Gist
    <3>2. gist[l].c \in Seq({gist[l].basis}) /\ gist[l].codes \in Seq({gist[l].basis})
      BY DEF IInv, Current
    <3> QED BY <2>2, <3>1, <3>2, Zenon DEF Holds
  <2>4. arm \in Arms
    BY DEF IInv, TypeOK
  <2> QED BY <2>1, <2>3, <2>4, UniformIsBilled
<1> QED BY <1>1, Inductive, LayersInStep, PTL
==============================================================================
