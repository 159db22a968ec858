------------------------------ MODULE GistCarry ------------------------------
(***************************************************************************)
(* The low-rank gist of a bug arm over all its layers: one absorb, from the *)
(* choice of what leaves the exact tier to the budgets (cache/bug_cache.py) *)
(* over the five trackers (tracker/isvd.py), and the bill that is read off  *)
(* the live layers (eval/frontier.py, accounting.py).                       *)
(*                                                                         *)
(* A coordinate or a code only means something in the basis it was taken    *)
(* in.  A basis here is its width and a generation; a column carries the    *)
(* basis each stream's coordinates are expressed in, a rotation takes a     *)
(* column from one basis to the next, and a column a rotation does not fit  *)
(* is Lost.  What the numbers decide (admitted directions, the truncation   *)
(* under a floor, a measured error) is chosen.                              *)
(*                                                                         *)
(* Positions are counted from the first token past the sinks.  Rows, modes  *)
(* and the recent ring are StreamLayer's and KernelScope's; the diagnostic  *)
(* window of the guard is OrthGuard's.                                      *)
(***************************************************************************)
EXTENDS Integers, Sequences, FiniteSets, SequencesExt, FiniteSetsExt

CONSTANTS
    Arms,           \* [tracker, rank, floor, freeze_after, coord_budget,
                    \*  quant_budget, bits, gist, fix, abort, qr_every, hh_budget]
    Features,       \* n: rows of a basis
    NumLayers,      \* decoder layers
    Ring,           \* tokens the recent ring holds once the prompt is in
    Word,           \* bits of a billed element (32 in accounting.py)
    Generations,    \* bound: labels of a stream's bases, reused in turn; an absorb
                    \* changes a basis at most twice, so three tell any lag
    MaxBlock,       \* bound: tokens that graduate together
    MaxGraduated    \* bound: tokens that graduate in one stream

ASSUME ConstantsAssumption ==
    /\ \A a \in Arms :
         /\ a.tracker \in {"isvd", "oja", "fd", "frozen", "random"}
         /\ a.rank \in Nat \ {0} /\ a.gist \in {16, 32}
         /\ {a.floor, a.fix, a.abort} \subseteq BOOLEAN
         /\ {a.freeze_after, a.coord_budget, a.quant_budget, a.bits,
             a.qr_every, a.hh_budget} \subseteq Nat
         /\ (a.quant_budget > 0) = (a.bits > 0)
    /\ Features \in Nat \ {0} /\ NumLayers \in Nat \ {0} /\ Word \in Nat \ {0}
    /\ Ring \in Nat \ {0} /\ Generations \in Nat \ {0, 1, 2}
    /\ MaxBlock \in Nat \ {0} /\ MaxGraduated \in Nat

VARIABLES
    arm,        \* the arm under test
    gist,       \* [layer -> its basis, c, codes, word, exact, frontier, absorbs]
    graduated,  \* tokens that have left the recent ring
    counter,    \* cumulative_length: 0 until the first call returns
    pc,         \* where the absorb of layer `at` stands
    at,
    fresh,      \* positions that graduate in this round
    block,      \* positions this layer absorbs
    rankBefore, \* [stream -> r_old of the step under way]
    newest      \* history: [layer -> newest position absorbed, plus one]

vars == <<arm, gist, graduated, counter, pc, at, fresh, block, rankBefore, newest>>

Layers == 1 .. NumLayers
Streams == {"k", "v"}

NoBasis == [gen |-> 0, width |-> 0]
Lost == [gen |-> -1, width |-> 0]
After(gen) == (gen % Generations) + 1

Blank(a) == [basis |-> [s \in Streams |-> NoBasis], c |-> <<>>, codes |-> <<>>,
             word |-> a.gist, exact |-> {}, frontier |-> 0, absorbs |-> 0]

Untouched(a) == [l \in Layers |-> Blank(a)]

Init ==
    /\ arm \in Arms
    /\ gist = Untouched(arm)
    /\ graduated = 0 /\ counter = 0
    /\ pc = "idle" /\ at = 1 /\ fresh = {} /\ block = {}
    /\ rankBefore = [s \in Streams |-> 0]
    /\ newest = [l \in Layers |-> 0]

----------------------------------------------------------------------------
(* The trackers: the bases a step may return for one stream. *)

\* Widths after the residual's directions are admitted: all of a first block's,
\* then at most n - r of a block of m columns.
Augmented(w, m) == IF w = 0 THEN {Min({Features, m})}
                   ELSE w .. w + Min({m, Features - w})

\* Truncation of k singular values: to the rank, and further under a floor.
Kept(a, k) == IF a.floor THEN 1 .. Min({a.rank, k}) ELSE {Min({a.rank, k})}

Moved(b, widths) == {[gen |-> After(b.gen), width |-> w] : w \in widths}

augmented_bug_step(a, b, m) ==
    Moved(b, UNION {Kept(a, k) : k \in Augmented(b.width, m)})

fd_step(a, b, m) ==
    Moved(b, {Min({a.rank, k}) : k \in Augmented(b.width, m)})

\* Oja grows to the rank first; a basis at its rank keeps its width.
oja_step(a, b, m) ==
    Moved(b, IF b.width >= a.rank THEN {b.width}
             ELSE {Min({a.rank, k}) : k \in Augmented(b.width, m)})

\* Past freeze_after the basis comes back untouched, behind an identity rotation.
frozen_step(a, b, m, seen) ==
    IF b = NoBasis \/ seen < a.freeze_after THEN augmented_bug_step(a, b, m) ELSE {b}

random_step(a, b) ==
    IF b = NoBasis THEN Moved(b, {Min({Features, a.rank})}) ELSE {b}

Step(a, b, m, seen) ==
    CASE a.tracker = "isvd" -> augmented_bug_step(a, b, m)
      [] a.tracker = "oja" -> oja_step(a, b, m)
      [] a.tracker = "fd" -> fd_step(a, b, m)
      [] a.tracker = "frozen" -> frozen_step(a, b, m, seen)
      [] a.tracker = "random" -> random_step(a, b)

\* Mutant: the frontier is what the counter and this block say, and may dip.
TokensSeenNow(l) == Max({counter, Max(block) + 1})

\* A running maximum: a demoted token may be older than what was absorbed before.
TokensSeen(l) == Max({gist[l].frontier, counter, Max(block) + 1})

----------------------------------------------------------------------------
(* Rotations: columns carried from one pair of bases to the next. *)

Rotated(tag, from, to) == IF tag = from THEN to ELSE Lost

Carry(cols, from, to) ==
    [i \in DOMAIN cols |-> [s \in Streams |-> Rotated(cols[i][s], from[s], to[s])]]

\* Mutant: one stream's rotation is missing and the call goes through without it.
RotateQuantTierUnlessOne(cols, from, to, moved) ==
    IF moved = Streams THEN Carry(cols, from, to) ELSE cols

\* A stream whose rotation is None keeps its codes as they are.
RotateQuantTier(cols, from, to, moved) ==
    [i \in DOMAIN cols |-> [s \in Streams |->
        IF s \in moved THEN Rotated(cols[i][s], from[s], to[s]) ELSE cols[i][s]]]

\* The gist with its bases replaced and every column carried along.
InBasis(g, to, moved) ==
    [g EXCEPT !.basis = to,
              !.c = Carry(g.c, g.basis, to),
              !.codes = RotateQuantTier(g.codes, g.basis, to, moved)]

----------------------------------------------------------------------------
(* One round: `m` tokens graduate in every layer, one layer after another. *)

\* A block leaves the recent ring, during the first call or after it.
Graduate(m) ==
    /\ pc = "idle" /\ graduated + m <= MaxGraduated
    /\ graduated' = graduated + m
    /\ counter' = IF counter = 0 THEN 0 ELSE counter + m
    /\ fresh' = graduated .. graduated + m - 1
    /\ pc' = "select"
    /\ UNCHANGED <<arm, gist, at, block, rankBefore, newest>>

NextLayer ==
    /\ block' = {}
    /\ IF at < NumLayers THEN at' = at + 1 /\ pc' = "select" /\ UNCHANGED fresh
       ELSE at' = 1 /\ pc' = "idle" /\ fresh' = {}

\* The exact tier keeps its best hh_budget candidates; the others are absorbed.
Select ==
    /\ pc = "select"
    /\ LET pool == gist[at].exact \cup fresh
           over == Cardinality(pool) - Min({arm.hh_budget, Cardinality(pool)})
       IN \E out \in kSubset(over, pool) :
            /\ gist' = [gist EXCEPT ![at].exact = pool \ out]
            /\ IF out = {} THEN NextLayer
               ELSE block' = out /\ pc' = "step" /\ UNCHANGED <<at, fresh>>
    /\ UNCHANGED <<arm, graduated, counter, rankBefore, newest>>

\* Oja's decay and the freeze read the frontier before the step; the guard reads
\* it for every tracker.
StepFrontier == IF arm.tracker \in {"oja", "frozen"} THEN TokensSeen(at)
                ELSE gist[at].frontier

StepBases(s) == Step(arm, gist[at].basis[s], Cardinality(block), StepFrontier)

\* The working copy is fp32 from here to the end of the absorb.
Widened == [gist[at] EXCEPT !.word = 32, !.frontier = StepFrontier]

\* Both streams step, then the held coordinates and the codes are carried.
TrackStep ==
    /\ pc = "step"
    /\ \E bk \in StepBases("k"), bv \in StepBases("v") :
         gist' = [gist EXCEPT ![at] = InBasis(Widened, [k |-> bk, v |-> bv], Streams)]
    /\ rankBefore' = [s \in Streams |-> gist[at].basis[s].width]
    /\ pc' = "guard"
    /\ UNCHANGED <<arm, graduated, counter, at, fresh, block, newest>>

\* A step raises: K's, or V's when K's basis is already replaced and its
\* coordinates are not yet carried.  The trial records the error.
StepFails ==
    /\ pc = "step"
    /\ \/ gist' = [gist EXCEPT ![at] = Widened]
       \/ \E bk \in StepBases("k") :
            gist' = [gist EXCEPT ![at] = [Widened EXCEPT !.basis["k"] = bk]]
    /\ pc' = "failed"
    /\ UNCHANGED <<arm, graduated, counter, at, fresh, block, rankBefore, newest>>

\* Streams qr_every repairs whatever was measured.
Forced(n) ==
    IF arm.qr_every = 0 THEN {}
    ELSE {s \in Streams : \/ n % arm.qr_every = 0
                          \/ gist[at].basis[s].width # rankBefore[s]}

\* reorthonormalize: the same width, another basis.
Reorthonormalized(b, fixed) ==
    [s \in Streams |-> IF s \in fixed THEN [b[s] EXCEPT !.gen = After(@)] ELSE b[s]]

\* The guard: `bad` streams measure over orth_fix_tol.  It aborts on a basis
\* still over orth_abort_tol, which without a repair only an arm without
\* orth_fix_tol can hold.
Guard ==
    /\ pc = "guard"
    /\ LET n == gist[at].absorbs + 1
       IN \E bad \in SUBSET Streams :
            LET fixed == Forced(n) \cup (IF arm.fix THEN bad ELSE {})
                counted == [gist[at] EXCEPT !.absorbs = n, !.frontier = TokensSeen(at)]
                b == gist[at].basis
            IN /\ gist' = [gist EXCEPT ![at] =
                             InBasis(counted, Reorthonormalized(b, fixed), fixed)]
               /\ \/ pc' = "append"
                  \/ arm.abort /\ (fixed # {} \/ ~arm.fix) /\ pc' = "aborted"
    /\ newest' = [newest EXCEPT ![at] = Max({@, Max(block) + 1})]
    /\ UNCHANGED <<arm, graduated, counter, at, fresh, block, rankBefore>>

Surplus(cols, budget) == Max({0, Len(cols) - budget})

\* _enforce_budgets: the oldest coordinates over coord_budget become codes, the
\* oldest codes over quant_budget are dropped.
EnforceBudgets(g) ==
    LET out == Surplus(g.c, arm.coord_budget)
        codes == IF arm.bits > 0 THEN g.codes \o SubSeq(g.c, 1, out) ELSE g.codes
    IN [g EXCEPT !.c = SubSeq(g.c, out + 1, Len(g.c)),
                 !.codes = SubSeq(codes, Surplus(codes, arm.quant_budget) + 1, Len(codes))]

\* The block's own coordinates, taken in the basis the guard leaves; the budgets;
\* the store rounded back to gist_dtype.
AppendBlock ==
    /\ pc = "append"
    /\ LET g == gist[at]
           own == [i \in 1 .. Cardinality(block) |-> g.basis]
       IN gist' = [gist EXCEPT ![at] =
                     [EnforceBudgets([g EXCEPT !.c = @ \o own]) EXCEPT !.word = arm.gist]]
    /\ NextLayer
    /\ rankBefore' = [s \in Streams |-> 0]
    /\ UNCHANGED <<arm, graduated, counter, newest>>

\* The first call returns, and the counter takes the whole prompt.
EndPrefill ==
    /\ pc = "idle" /\ counter = 0
    /\ counter' = graduated + Ring
    /\ UNCHANGED <<arm, gist, graduated, pc, at, fresh, block, rankBefore, newest>>

\* The next sample: a fresh cache, whether this one served, failed or aborted.
Renew ==
    /\ pc \in {"idle", "failed", "aborted"} /\ graduated > 0
    /\ gist' = Untouched(arm)
    /\ graduated' = 0 /\ counter' = 0
    /\ pc' = "idle" /\ at' = 1 /\ fresh' = {} /\ block' = {}
    /\ rankBefore' = [s \in Streams |-> 0]
    /\ newest' = [l \in Layers |-> 0]
    /\ UNCHANGED arm

Next == \/ \E m \in 1 .. MaxBlock : Graduate(m)
        \/ Select \/ TrackStep \/ StepFails \/ Guard \/ AppendBlock
        \/ EndPrefill \/ Renew

Spec == Init /\ [][Next]_vars

----------------------------------------------------------------------------
(* The bill of the live layers. *)

LiveRank(l) == MapThenSumSet(LAMBDA s : gist[l].basis[s].width, Streams)

\* Mutant: the rank of the first layer, for all of them.
RankSumFirst == NumLayers * LiveRank(1)

\* 2L times the mean rank of _footprint.
RankSum == MapThenSumSet(LiveRank, Layers)

CeilDiv(a, b) == (a + b - 1) \div b

\* L times bug_footprint(...).float_equiv(), its gist terms: U, C, B, codes, norms.
Billed ==
    LET coords == Len(gist[1].c)
        coded == Len(gist[1].codes)
    IN RankSum * (Features + coords) + RankSum
       + NumLayers * CeilDiv(RankSum * coded * arm.bits, NumLayers * Word)
       + NumLayers * 2 * coded

\* L times the bits stored_bits() bills for U and C.
BilledGistBits == RankSum * (Features + Len(gist[1].c)) * arm.gist

Entries(cols) ==
    MapThenSumSet(LAMBDA p : cols[p[1]][p[2]].width, (DOMAIN cols) \X Streams)

\* stored_state_numel of one layer, its gist terms.
Stored(l) ==
    LET g == gist[l]
    IN Features * LiveRank(l) + Entries(g.c) + LiveRank(l)
       + CeilDiv(Entries(g.codes) * arm.bits, Word) + 2 * Len(g.codes)

StoredGistBits(l) == (Features * LiveRank(l) + Entries(gist[l].c)) * gist[l].word

----------------------------------------------------------------------------
(* Properties *)

\* Wherever an absorb has ended, by its guard's abort too, every coordinate and
\* every code of a stream is expressed in the basis that stream holds.  A column
\* left in an older basis has the right shape and decodes to a wrong token.
OneBasis ==
    pc \in {"idle", "aborted"} =>
        \A l \in Layers :
            \A col \in ToSet(gist[l].c) \cup ToSet(gist[l].codes) : col = gist[l].basis

\* The bill read off the live layers is what they store: to the element when no
\* code is held or all layers track one rank, and otherwise within the rounding
\* of one code word a layer; and its fp32 share is what is fp32 at rest.
BilledIsStored ==
    pc = "idle" =>
        LET stored == MapThenSumSet(Stored, Layers)
            exact == gist[1].codes = <<>> \/ \A l \in Layers : LiveRank(l) = LiveRank(1)
        IN /\ exact => Billed = stored
           /\ Billed - stored \in (1 - NumLayers) .. (NumLayers - 1)
           /\ BilledGistBits = MapThenSumSet(StoredGistBits, Layers)

\* Once a layer has absorbed past freeze_after, a frozen arm's basis moves by the
\* guard's repair only, whatever older tokens the exact tier demotes later; a
\* random arm's from its first absorb on.
Settled(l) ==
    /\ \A s \in Streams : gist[l].basis[s] # NoBasis
    /\ \/ arm.tracker = "frozen" /\ newest[l] >= arm.freeze_after
       \/ arm.tracker = "random"

FrozenStill ==
    [][\A l \in Layers :
         Settled(l) /\ graduated' > 0 /\ gist'[l].basis # gist[l].basis
            => pc = "guard"]_vars

=============================================================================
