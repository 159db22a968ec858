---------------------------- MODULE StreamLayer ----------------------------
(***************************************************************************)
(* One BugStreamingLayer (cache/bug_cache.py) token by token: which token  *)
(* each column of each tier holds, the position its reconstruction is      *)
(* rotated to, and the surprise it was filed under.  Refines TierLengths,  *)
(* which sees only the length of every tier.                               *)
(*                                                                         *)
(* A token is its true position in the stream.  The basis and the vectors  *)
(* are abstracted to what the layer decides by: a surprise score per       *)
(* column, any of 1..MaxLevel (MaxLevel is the residual 1.0).  Positions   *)
(* are computed the way the code computes them, never read off the token,  *)
(* so that a wrong one shows.                                              *)
(***************************************************************************)
EXTENDS Integers, Sequences, FiniteSets, IndexOrder

CONSTANTS Arms,       \* constructor arguments, as in TierLengths
          MaxTokens,  \* bound on the tokens one stream is given
          MaxLevel    \* surprise scores are 1..MaxLevel

ASSUME MaxLevelAssumption == MaxLevel \in Nat \ {0}

(* The arguments that choose which columns are kept.                       *)
ValidRetention(a) ==
  /\ a.retention \in {"fifo", "lowrank_surprise"}
  /\ a.hh_neighbor \in Nat
  /\ a.score_capped \in BOOLEAN                 \* score_rank < rank
  /\ a.score_capped => a.hh_budget >= 1
ASSUME RetentionAssumption == \A a \in Arms : ValidRetention(a)

VARIABLES
  arm, mode, pc, cumulative_length, left,       \* as in TierLengths
  query_length, pred, kv_length, returned, kernel_mid,
  sink,         \* sink_k:   tokens
  recent,       \* recent_k: tokens
  hh,           \* hh_k, hh_pos
  f,            \* c_k, mid_pos, mid_surprise
  q,            \* qk_codes, q_pos, q_surprise
  mid_cache,    \* _mid_k_cache: the columns reconstructed, where rotated to
  tokens_seen,  \* _tokens_seen_max
  absorbed      \* history: every column that entered the tail, in order

tail == <<f, q, tokens_seen, absorbed>>
tokens == <<sink, recent, hh, tail, mid_cache>>
control == <<arm, mode, cumulative_length, left>>
forward == <<query_length, pred, kv_length>>
answer == <<returned, kernel_mid>>
vars == <<pc, control, forward, answer, tokens>>

TL == INSTANCE TierLengths WITH
        sink_len <- Len(sink), recent_len <- Len(recent),
        hh_len <- Len(hh.col), f_len <- Len(f.col), q_len <- Len(q.col)

(* What __init__ accepts; the bound on a stream is a length.               *)
ASSUME LengthsAssumption ==
  /\ MaxTokens \in Nat
  /\ \A a \in Arms : TL!ValidArm(a)

Lesser(a, b) == IF a <= b THEN a ELSE b
lowrank_enabled == TL!lowrank_enabled
hh_enabled == TL!hh_enabled
track_positions == lowrank_enabled /\ arm.retention # "fifo"

-----------------------------------------------------------------------------
(* A tier is a record of parallel sequences, one entry per column.         *)

EmptyTier == [col |-> <<>>, pos |-> <<>>, sur |-> <<>>]
Cat(t, u) == [x \in {"col", "pos", "sur"} |-> t[x] \o u[x]]

(* The entries of s at the indices I, in order (an ascending index tensor).*)
Pick(s, I) == LET order == Ascending(I)
              IN [i \in DOMAIN order |-> s[order[i]]]

(* Column selection; an untracked array is None and stays so.              *)
Columns(t, I) == [x \in {"col", "pos", "sur"} |->
                    IF t[x] = <<>> THEN <<>> ELSE Pick(t[x], I)]

(* The first n indices of a stable argsort of score, ascending.            *)
LowestFirst(score, n) ==
  {i \in DOMAIN score :
     Cardinality({j \in DOMAIN score :
        score[j] < score[i] \/ (score[j] = score[i] /\ j < i)}) < n}

(* Mutant: one column more than the budget stays exact.                    *)
HighestFirstPlusOne(score, n) ==
  {i \in DOMAIN score :
     Cardinality({j \in DOMAIN score :
        score[j] > score[i] \/ (score[j] = score[i] /\ j < i)}) <= n}

(* The first n indices of a stable argsort of score, descending.           *)
HighestFirst(score, n) ==
  {i \in DOMAIN score :
     Cardinality({j \in DOMAIN score :
        score[j] > score[i] \/ (score[j] = score[i] /\ j < i)}) < n}

(* Mutant: an argsort that is not stable, so that ties evict the newest.   *)
EvictIndicesUnstable(t, n_out) ==
  IF arm.retention = "fifo" THEN {i \in DOMAIN t.col : i <= n_out}
  ELSE {i \in DOMAIN t.col :
          Cardinality({j \in DOMAIN t.col :
             t.sur[j] < t.sur[i] \/ (t.sur[j] = t.sur[i] /\ j > i)}) < n_out}

(* _split_indices: what n_out evictions take from a tier.                  *)
EvictIndices(t, n_out) ==
  IF arm.retention = "fifo" THEN {i \in DOMAIN t.col : i <= n_out}
                            ELSE LowestFirst(t.sur, n_out)

(* _surprise_scores: before there is a basis everything is surprising.     *)
Surprise(m) ==
  IF absorbed = <<>> \/ ~(track_positions \/ hh_enabled)
    THEN {[i \in 1..m |-> MaxLevel]}
    ELSE [1..m -> 1..MaxLevel]

(* Scored against the leading score_rank columns of the basis only, a      *)
(* residual can only be larger.                                            *)
SelectionScores(score) ==
  IF arm.score_capped /\ absorbed # <<>>
    THEN {s \in [DOMAIN score -> 1..MaxLevel] :
            \A i \in DOMAIN score : s[i] >= score[i]}
    ELSE {score}

(* _span_boost: every token inherits the best score within +-w positions.  *)
SpanBoost(score, pos, w) ==
  [i \in DOMAIN score |->
     LET near == {j \in DOMAIN score : pos[j] - pos[i] \in -w..w}
     IN CHOOSE s \in {score[j] : j \in near} : \A j \in near : s >= score[j]]

-----------------------------------------------------------------------------
(* The absorb.                                                             *)

(* _tokens_seen: a running maximum, because a demoted token can be older   *)
(* than what an earlier absorb of the same pre-fill has seen.              *)
TokensSeen(pos) ==
  CHOOSE n \in {tokens_seen, cumulative_length}
                 \cup {pos[i] + 1 : i \in DOMAIN pos} :
    /\ n >= tokens_seen
    /\ n >= cumulative_length
    /\ \A i \in DOMAIN pos : n >= pos[i] + 1

(* One block of columns into the tail, then _enforce_budgets: the fp32     *)
(* tier spills into the quantized one, which drops what exceeds it.        *)
AbsorbColumns(block) ==
  LET tracked == IF track_positions THEN block
                                    ELSE [EmptyTier EXCEPT !.col = block.col]
      f_all  == Cat(f, tracked)
      f_out  == EvictIndices(f_all, Len(f_all.col) - arm.coord_budget)
      q_all  == Cat(q, Columns(f_all, f_out))
      q_out  == EvictIndices(q_all, Len(q_all.col) - arm.quant_budget)
  IN IF block.col = <<>>
       THEN UNCHANGED tail
       ELSE /\ f' = Columns(f_all, DOMAIN f_all.col \ f_out)
            /\ q' = Columns(q_all, DOMAIN q_all.col \ q_out)
            /\ tokens_seen' = TokensSeen(block.pos)
            /\ absorbed' = absorbed \o [i \in DOMAIN block.col |->
                                 [tok |-> block.col[i], sur |-> block.sur[i]]]

(* The exact tier re-selects from itself and the block; the rest demotes.  *)
AbsorbBlockSlash(block) ==
  LET pool == [col |-> hh.col \o block.col, pos |-> hh.pos \o block.pos]
      n    == Len(pool.col)
  IN \E score \in Surprise(n) : \E sel \in SelectionScores(score) :
       LET kept   == HighestFirst(SpanBoost(sel, pool.pos, arm.hh_neighbor),
                                  Lesser(arm.hh_budget, n))
           demote == (1..n) \ kept
       IN /\ hh' = [col |-> Pick(pool.col, kept), pos |-> Pick(pool.pos, kept)]
          /\ AbsorbColumns([col |-> Pick(pool.col, demote),
                            pos |-> Pick(pool.pos, demote),
                            sur |-> Pick(score, demote)])

(* A block straight into the tail, no exact tier in between.               *)
AbsorbBlockDirect(block) ==
  \E score \in Surprise(Len(block.col)) :
    /\ AbsorbColumns([block EXCEPT !.sur = score])
    /\ UNCHANGED hh

Block(toks, start) ==
  [col |-> toks, pos |-> Arange(start, Len(toks)), sur |-> <<>>]

(* Mutant: the length is read before the slice.                            *)
GradStartUnsliced(m) == cumulative_length - Len(recent) - m

(* Mutant: the reconstruction survives the graduation.                     *)
KeepMidCache == UNCHANGED mid_cache

(* Where the graduating block starts: recent is already sliced here.       *)
GradStart(m) == cumulative_length - Len(recent') - m

(* A graduation drops the cached reconstruction of the middle.             *)
DropMidCache == mid_cache' = <<>>

AbsorbBlockIntoStream ==
  /\ pc \in {"decode", "consolidate"}
  /\ Len(recent) >= TL!AbsorbAt
  /\ recent' = SubSeq(recent, arm.absorb_block + 1, Len(recent))
  /\ DropMidCache
  /\ LET grad == Block(SubSeq(recent, 1, arm.absorb_block),
                       GradStart(arm.absorb_block))
     IN \/ ~lowrank_enabled /\ UNCHANGED <<hh, tail>>
        \/ hh_enabled /\ AbsorbBlockSlash(grad)
        \/ lowrank_enabled /\ ~hh_enabled /\ AbsorbBlockDirect(grad)
  /\ UNCHANGED <<pc, control, forward, answer, sink>>

-----------------------------------------------------------------------------
(* Reconstruction.                                                         *)

MidColumns == q.col \o f.col

(* _mid_positions: the stored positions, or (fifo, which stores none) the  *)
(* contiguous run that ends where the exact tier would begin.              *)
MidPositions ==
  IF track_positions
    THEN q.pos \o f.pos
    ELSE Arange(cumulative_length - Len(recent) - TL!MidLen, Len(MidColumns))

Reconstruction ==
  [i \in DOMAIN MidColumns |-> [tok |-> MidColumns[i], pos |-> MidPositions[i]]]

(* _ensure_mid_cache, as _decode_peek reaches it: built once per absorb.   *)
EnsureMidCache ==
  mid_cache' = IF mid_cache # <<>> THEN mid_cache ELSE Reconstruction

-----------------------------------------------------------------------------
ForwardEnds ==
  /\ pc' = "idle"
  /\ query_length' = 0
  /\ pred' = TL!NoPrediction
  /\ UNCHANGED kv_length

(* The tokens of the forward in progress.                                  *)
Prompt == Arange(cumulative_length, query_length)

Init ==
  /\ sink = <<>> /\ recent = <<>>
  /\ hh = [col |-> <<>>, pos |-> <<>>]
  /\ f = EmptyTier /\ q = EmptyTier
  /\ mid_cache = <<>> /\ tokens_seen = 0 /\ absorbed = <<>>
  /\ TL!Init

(* What touches no token is what TierLengths says it is.                   *)
MaskStep ==
  /\ UNCHANGED tokens
  /\ \/ \E n \in 1..MaxTokens : TL!GetMaskSizes(n)
     \/ TL!PostUpdateLengths
     \/ TL!ReportMaskSizes
     \/ TL!UpdateRejected

Prefill ==
  /\ pc = "ready"
  /\ cumulative_length = 0
  /\ LET t      == query_length
         n_sink == Lesser(arm.n_sink, t)
         window == Lesser(arm.recent_window, t - n_sink)
     IN /\ sink' = SubSeq(Prompt, 1, n_sink)
        /\ recent' = SubSeq(Prompt, t - window + 1, t)
        /\ left' = IF lowrank_enabled THEN t - n_sink - window ELSE 0
  /\ kernel_mid' = 0
  /\ pc' = "prefill"
  /\ UNCHANGED <<arm, mode, cumulative_length, forward, returned, hh, tail,
                 mid_cache>>

PrefillBlock ==
  /\ pc = "prefill"
  /\ left > 0
  /\ LET m     == Lesser(arm.prefill_block_size, left)
         start == query_length - Len(recent) - left
         block == Block(SubSeq(Prompt, start + 1, start + m), start)
     IN /\ left' = left - m
        /\ IF arm.seed_hh_warmup /\ hh_enabled /\ mode = "ingest"
             THEN AbsorbBlockSlash(block)
             ELSE AbsorbBlockDirect(block)
  /\ UNCHANGED <<arm, mode, pc, cumulative_length, forward, answer, sink,
                 recent, mid_cache>>

PrefillReturn ==
  /\ pc = "prefill"
  /\ left = 0
  /\ cumulative_length' = query_length
  /\ returned' = query_length
  /\ ForwardEnds
  /\ UNCHANGED <<arm, mode, left, kernel_mid, tokens>>

ScoreForward ==
  /\ pc = "ready"
  /\ cumulative_length > 0
  /\ mode = "score"
  /\ EnsureMidCache
  /\ returned' = Len(sink) + TL!HhAttendedLen + Len(mid_cache') + Len(recent)
                   + query_length
  /\ kernel_mid' = 0
  /\ ForwardEnds
  /\ UNCHANGED <<control, sink, recent, hh, tail>>

IngestChunk ==
  /\ pc = "ready"
  /\ cumulative_length > 0
  /\ mode = "ingest"
  /\ recent' = recent \o Prompt
  /\ cumulative_length' = cumulative_length + query_length
  /\ EnsureMidCache
  /\ returned' = Len(sink) + TL!HhAttendedLen + Len(mid_cache') + Len(recent')
  /\ kernel_mid' = 0
  /\ ForwardEnds
  /\ UNCHANGED <<arm, mode, left, sink, hh, tail>>

DecodeStep ==
  /\ pc = "ready"
  /\ cumulative_length > 0
  /\ mode = "normal"
  /\ query_length = 1
  /\ recent' = recent \o Prompt
  /\ cumulative_length' = cumulative_length + 1
  /\ kernel_mid' = 0
  /\ pc' = "decode"
  /\ UNCHANGED <<arm, mode, left, forward, returned, sink, hh, tail, mid_cache>>

DecodeReturn ==
  /\ pc = "decode"
  /\ Len(recent) < TL!AbsorbAt
  /\ IF arm.kernel
       THEN /\ kernel_mid' = Len(MidColumns)
            /\ returned' = Len(sink) + TL!HhAttendedLen + Len(recent)
            /\ UNCHANGED mid_cache
       ELSE /\ kernel_mid' = 0
            /\ EnsureMidCache
            /\ returned' = Len(sink) + TL!HhAttendedLen + Len(mid_cache')
                             + Len(recent)
  /\ ForwardEnds
  /\ UNCHANGED <<control, sink, recent, hh, tail>>

(* consolidate(), the mode switches of the context managers.               *)
IdleCall ==
  /\ UNCHANGED tokens
  /\ \/ TL!Consolidate
     \/ TL!ConsolidateReturn
     \/ \E m \in TL!Modes : TL!SetMode(m)

(* Mutant: the exact tier survives a reset into the next stream.           *)
ClearTiersButExact ==
  /\ sink' = <<>> /\ recent' = <<>> /\ UNCHANGED hh
  /\ f' = EmptyTier /\ q' = EmptyTier
  /\ mid_cache' = <<>> /\ tokens_seen' = 0 /\ absorbed' = <<>>

ClearTiers ==
  /\ sink' = <<>> /\ recent' = <<>>
  /\ hh' = [col |-> <<>>, pos |-> <<>>]
  /\ f' = EmptyTier /\ q' = EmptyTier
  /\ mid_cache' = <<>> /\ tokens_seen' = 0 /\ absorbed' = <<>>

Reset ==
  /\ pc = "idle"
  /\ cumulative_length > 0
  /\ mode' = "normal"
  /\ cumulative_length' = 0
  /\ ClearTiers
  /\ kv_length' = 0 /\ returned' = 0 /\ kernel_mid' = 0
  /\ UNCHANGED <<arm, pc, left, query_length, pred>>

Next ==
  \/ MaskStep
  \/ AbsorbBlockIntoStream
  \/ Prefill \/ PrefillBlock \/ PrefillReturn
  \/ ScoreForward \/ IngestChunk
  \/ DecodeStep \/ DecodeReturn
  \/ IdleCall
  \/ Reset

Spec == Init /\ [][Next]_vars

-----------------------------------------------------------------------------
Entries(s) == {s[i] : i \in DOMAIN s}
Disjoint(s) == \A i, j \in DOMAIN s : s[i] = s[j] => i = j

(* Every tier's bookkeeping arrays have one entry per column, exactly when *)
(* the configuration tracks them.                                          *)
Aligned(t) == IF track_positions
                THEN Len(t.pos) = Len(t.col) /\ Len(t.sur) = Len(t.col)
                ELSE t.pos = <<>> /\ t.sur = <<>>
TypeOK ==
  /\ TL!TypeOK
  /\ Entries(sink \o recent \o hh.col \o f.col \o q.col) \subseteq 0..MaxTokens-1
  /\ Len(hh.pos) = Len(hh.col)
  /\ Aligned(f) /\ Aligned(q)
  /\ tokens_seen \in 0..MaxTokens
  /\ Entries(absorbed) \subseteq [tok : 0..MaxTokens-1, sur : 1..MaxLevel]

(* Every column the attention sees is rotated to the position its token    *)
(* really has (the stored positions and the contiguous run alike), through *)
(* any mixture of eviction, demotion and re-selection.                     *)
PositionsTrue ==
  pc # "prefill" => MidPositions = MidColumns /\ hh.pos = hh.col

(* The cached reconstruction is never stale: it is what a rebuild would    *)
(* give now, although it is only dropped when a block graduates.           *)
MidCacheFresh == mid_cache # <<>> => mid_cache = Reconstruction

(* The tokens the tail was ever given, in the order it was given them.     *)
Given == [i \in DOMAIN absorbed |-> absorbed[i].tok]

(* No token is held twice and none is skipped: sinks are the stream's      *)
(* first tokens, the ring its last, and each of those in between went to   *)
(* the tail exactly once or sits in the exact tier.                        *)
EachTokenOnce ==
  lowrank_enabled /\ pc # "prefill" =>
    LET middle == Len(sink) .. (cumulative_length - Len(recent) - 1)
    IN /\ sink = Arange(0, Len(sink))
       /\ recent = Arange(cumulative_length - Len(recent), Len(recent))
       /\ Disjoint(Given \o hh.col)
       /\ Entries(Given \o hh.col) = middle
       /\ Disjoint(MidColumns) /\ Entries(MidColumns) \subseteq Entries(Given)

(* The two coordinate tiers together hold exactly the most surprising of   *)
(* all columns the tail was ever given, the fp32 tier the best of those,   *)
(* older ones losing ties (fifo: the newest), although every absorb only   *)
(* compares what it finds in one tier.                                     *)
Score == [i \in DOMAIN absorbed |->
            IF arm.retention = "fifo" THEN 0 ELSE absorbed[i].sur]
Best(n) == {absorbed[i].tok : i \in Top(Score, DOMAIN absorbed, n)}
RetainsBest ==
  /\ Entries(f.col) = Best(arm.coord_budget)
  /\ Entries(MidColumns) = Best(arm.coord_budget + arm.quant_budget)

(* The layer implements its length abstraction.                            *)
Lengths == TL!Spec

-----------------------------------------------------------------------------
(* The inductive invariant behind the properties above, in named parts.    *)

(* Every token below Boundary has left the ring and the pre-fill's queue.  *)
Stream == IF pc = "prefill" THEN query_length ELSE cumulative_length
Boundary == Stream - Len(recent) - left

PhaseInv ==
  /\ arm \in Arms
  /\ cumulative_length \in Nat /\ query_length \in Nat /\ left \in Nat
  /\ pc \in {"mask", "ready", "prefill"} => query_length > 0
  /\ pc = "prefill" => cumulative_length = 0
  /\ pc = "decode" => cumulative_length > 0
  /\ pc # "prefill" => left = 0
  /\ left > 0 => lowrank_enabled
  /\ cumulative_length = 0 => mid_cache = <<>>

NoTail == f = EmptyTier /\ q = EmptyTier /\ absorbed = <<>>
NoExact == hh = [col |-> <<>>, pos |-> <<>>]
EmptyInv ==
  /\ cumulative_length = 0 /\ pc # "prefill" =>
       sink = <<>> /\ recent = <<>> /\ NoExact /\ NoTail
  /\ ~lowrank_enabled => NoExact /\ NoTail
  /\ ~hh_enabled => NoExact

RingInv ==
  /\ sink \in Seq(Int) /\ recent \in Seq(Int)
  /\ sink = Arange(0, Len(sink))
  /\ recent = Arange(Stream - Len(recent), Len(recent))
  /\ Len(sink) <= Boundary

Typed(t) == t.col \in Seq(Int) /\ t.pos \in Seq(Int) /\ t.sur \in Seq(1..MaxLevel)
Truthful(t) == Aligned(t) /\ (track_positions => t.pos = t.col)
TailInv ==
  /\ Typed(f) /\ Typed(q)
  /\ Truthful(f) /\ Truthful(q)
  /\ Len(f.col) <= arm.coord_budget /\ Len(q.col) <= arm.quant_budget
  /\ absorbed \in Seq([tok : Int, sur : 1..MaxLevel])
  /\ Disjoint(MidColumns) /\ Entries(MidColumns) \subseteq Entries(Given)
ExactInv == hh.col \in Seq(Int) /\ hh.pos = hh.col

(* What has left the ring below b is in the tail's history or exact.       *)
Covered(b) ==
  lowrank_enabled =>
    /\ Disjoint(Given \o hh.col)
    /\ Entries(Given \o hh.col) = Len(sink) .. b - 1

(* Without an exact tier, first in first out leaves a run that ends at b.  *)
FifoOnly == arm.retention = "fifo" => ~hh_enabled
RunEndsAt(b) ==
  ~track_positions /\ FifoOnly =>
    MidColumns = Arange(b - Len(MidColumns), Len(MidColumns))

(* Every column of a tier is one of those absorbed, h says which; those of *)
(* equal score are in the order they were absorbed in.                     *)
Recalls(t, h) ==
  /\ \A i \in DOMAIN h :
       /\ t.col[i] = absorbed[h[i]].tok
       /\ track_positions => t.sur[i] = absorbed[h[i]].sur
  /\ \A i, j \in DOMAIN h : i < j /\ Score[h[i]] = Score[h[j]] => h[i] < h[j]

(* The fp32 tier is the top of the history, the quantized one what follows.*)
RetainInv ==
  \E hf \in [DOMAIN f.col -> DOMAIN absorbed], hq \in [DOMAIN q.col -> DOMAIN absorbed] :
    /\ Recalls(f, hf) /\ Recalls(q, hq)
    /\ Entries(hf) = Top(Score, DOMAIN absorbed, arm.coord_budget)
    /\ Entries(hq) = Top(Score, DOMAIN absorbed, arm.coord_budget + arm.quant_budget)
                       \ Entries(hf)

IInv ==
  /\ PhaseInv /\ EmptyInv /\ RingInv /\ TailInv /\ ExactInv
  /\ Covered(Boundary) /\ RunEndsAt(Boundary)
  /\ MidCacheFresh
=============================================================================
