---------------------------- MODULE TierLengths ----------------------------
(***************************************************************************)
(* The column counts of one BugStreamingLayer (cache/bug_cache.py), call   *)
(* by call.  Before every forward the model asks get_mask_sizes how many   *)
(* keys the layer WILL return; update() then runs its absorb loop and      *)
(* returns keys.  The two walk different code over the same counts, and    *)
(* the causal mask is wrong as soon as they disagree by one column.        *)
(*                                                                         *)
(* A tier is its length here.  Which token sits in which column is the     *)
(* business of StreamLayer, which implements this module.                  *)
(*                                                                         *)
(* Every loop of the code is one step per iteration: pc says which loop a  *)
(* call is in.                                                             *)
(***************************************************************************)
EXTENDS Integers

CONSTANTS Arms,      \* constructor arguments, one record per configured layer
          MaxTokens  \* bound on the tokens one stream is given

Modes == {"normal", "score", "ingest"}

(* What __init__ accepts, of the arguments that size a tier.               *)
ValidArm(a) ==
  /\ a.n_sink \in Nat
  /\ a.recent_window \in Nat \ {0}
  /\ a.absorb_block \in Nat \ {0}
  /\ a.prefill_block_size \in Nat \ {0}
  /\ a.rank \in Nat
  /\ a.coord_budget \in Nat
  /\ a.quant_budget \in Nat
  /\ a.hh_budget \in Nat
  /\ a.hh_retain \in BOOLEAN
  /\ a.seed_hh_warmup \in BOOLEAN
  /\ a.kernel \in BOOLEAN                       \* decode_attention = "kernel"
  /\ ~a.hh_retain => a.hh_budget >= 1
  /\ a.quant_budget > 0 => a.rank >= 1 /\ a.coord_budget >= 1
  /\ a.hh_budget > 0 => a.rank >= 1 /\ a.coord_budget >= 1

ASSUME ArmsAssumption == \A a \in Arms : ValidArm(a)
ASSUME MaxTokensAssumption == MaxTokens \in Nat

VARIABLES
  arm,                \* the layer's constructor arguments
  mode,               \* _mode
  pc,                 \* which call, and which of its loops, is running
  cumulative_length,
  sink_len,
  recent_len,
  hh_len,             \* exact heavy-hitter tier
  f_len,              \* fp32 coordinate tier
  q_len,              \* quantized tier
  left,               \* middle tokens _prefill has still to absorb
  query_length,       \* tokens of the forward in progress
  pred,               \* the locals of _post_update_lengths
  kv_length,          \* what get_mask_sizes reported for the last forward
  returned,           \* the keys update() returned to it
  kernel_mid          \* factored columns the kernel attends beside them

tiers == <<sink_len, recent_len, hh_len, f_len, q_len>>
forward == <<query_length, pred>>
report == <<forward, kv_length>>
answer == <<returned, kernel_mid>>
vars == <<arm, mode, pc, cumulative_length, tiers, left, report, answer>>

Lesser(a, b) == IF a <= b THEN a ELSE b

lowrank_enabled == arm.rank >= 1 /\ arm.coord_budget >= 1
hh_enabled == arm.hh_budget >= 1 /\ lowrank_enabled
AbsorbAt == arm.recent_window + arm.absorb_block

HhAttendedLen == IF arm.hh_retain THEN hh_len ELSE 0
MidLen == HhAttendedLen + q_len + f_len
AttendedLength == sink_len + MidLen + recent_len

MidCap == arm.coord_budget + arm.quant_budget
            + (IF arm.hh_retain THEN arm.hh_budget ELSE 0)

NoPrediction == [recent |-> 0, mid |-> 0, pool |-> -1]

(* The forward is over: back to idle, its locals are gone.                 *)
ForwardEnds ==
  /\ pc' = "idle"
  /\ query_length' = 0
  /\ pred' = NoPrediction

Init ==
  /\ arm \in Arms
  /\ mode = "normal"
  /\ pc = "idle"
  /\ cumulative_length = 0
  /\ sink_len = 0 /\ recent_len = 0 /\ hh_len = 0 /\ f_len = 0 /\ q_len = 0
  /\ left = 0
  /\ query_length = 0
  /\ pred = NoPrediction
  /\ kv_length = 0
  /\ returned = 0 /\ kernel_mid = 0

-----------------------------------------------------------------------------
(* get_mask_sizes: closed forms in the harness modes and before pre-fill,  *)
(* the simulated absorb loop of _post_update_lengths otherwise.            *)

GetMaskSizes(n) ==
  /\ pc = "idle"
  /\ cumulative_length + n <= MaxTokens
  /\ query_length' = n
  /\ IF mode = "normal" /\ cumulative_length > 0
       THEN /\ pred' = [recent |-> recent_len + n,
                        mid    |-> MidLen,
                        pool   |-> IF hh_enabled /\ ~arm.hh_retain
                                     THEN hh_len ELSE -1]
            /\ pc' = "mask"
            /\ UNCHANGED kv_length
       ELSE /\ kv_length' = IF mode = "normal" THEN n ELSE AttendedLength + n
            /\ pc' = "ready"
            /\ UNCHANGED pred
  /\ UNCHANGED <<arm, mode, cumulative_length, tiers, left, answer>>

(* Mutant: the invisible pool is not simulated.                            *)
PostUpdateLengthsNoPool ==
  /\ pc = "mask"
  /\ pred.recent >= AbsorbAt
  /\ pred' = [pred EXCEPT
                !.recent = @ - arm.absorb_block,
                !.mid = IF lowrank_enabled
                          THEN Lesser(MidCap, @ + arm.absorb_block) ELSE @]
  /\ UNCHANGED <<arm, mode, pc, cumulative_length, tiers, left,
                 query_length, kv_length, answer>>

(* One iteration of the predicted absorb loop.  With an invisible pool     *)
(* (hh_retain = FALSE) the visible middle grows by what the pool demotes.  *)
PostUpdateLengths ==
  /\ pc = "mask"
  /\ pred.recent >= AbsorbAt
  /\ LET pool   == Lesser(arm.hh_budget, pred.pool + arm.absorb_block)
         landed == IF pred.pool >= 0
                     THEN pred.pool + arm.absorb_block - pool
                     ELSE arm.absorb_block
     IN pred' = [recent |-> pred.recent - arm.absorb_block,
                 mid    |-> IF lowrank_enabled
                              THEN Lesser(MidCap, pred.mid + landed)
                              ELSE pred.mid,
                 pool   |-> IF lowrank_enabled /\ pred.pool >= 0
                              THEN pool ELSE pred.pool]
  /\ UNCHANGED <<arm, mode, pc, cumulative_length, tiers, left,
                 query_length, kv_length, answer>>

ReportMaskSizes ==
  /\ pc = "mask"
  /\ pred.recent < AbsorbAt
  /\ kv_length' = sink_len + pred.mid + pred.recent
  /\ pc' = "ready"
  /\ UNCHANGED <<arm, mode, cumulative_length, tiers, left,
                 query_length, pred, answer>>

-----------------------------------------------------------------------------
(* Mutant: what the fp32 tier spills overwrites the quantized tier.        *)
AbsorbColumnsOverwrite(m) ==
  LET kept == Lesser(arm.coord_budget, f_len + m)
  IN /\ f_len' = kept
     /\ q_len' = IF f_len + m > kept
                   THEN Lesser(arm.quant_budget, f_len + m - kept) ELSE q_len

(* Mutant: the quantized tier is never evicted from.                       *)
AbsorbColumnsUnbounded(m) ==
  LET kept == Lesser(arm.coord_budget, f_len + m)
  IN f_len' = kept /\ q_len' = q_len + (f_len + m - kept)

(* The absorb: m columns enter the low-rank tail; what exceeds a budget    *)
(* spills from the fp32 tier to the quantized one and from there is lost.  *)

AbsorbColumns(m) ==
  LET kept == Lesser(arm.coord_budget, f_len + m)
  IN /\ f_len' = kept
     /\ q_len' = Lesser(arm.quant_budget, q_len + (f_len + m - kept))

(* Mutant: the whole block demotes, also what the exact tier keeps.        *)
AbsorbBlockSlashTwice(m) ==
  /\ hh_len' = Lesser(arm.hh_budget, hh_len + m)
  /\ AbsorbColumns(m)

(* The exact tier keeps its budget's worth of the pool, the rest demotes.  *)
AbsorbBlockSlash(m) ==
  LET kept == Lesser(arm.hh_budget, hh_len + m)
  IN /\ hh_len' = kept
     /\ AbsorbColumns(hh_len + m - kept)

(* Mutant: with nothing to absorb into, the ring is not shortened.         *)
GraduateIfAbsorbed(m) ==
  recent_len' = IF lowrank_enabled THEN recent_len - m ELSE recent_len

(* The oldest m columns leave the ring.                                    *)
Graduate(m) == recent_len' = recent_len - m

AbsorbBlockIntoStream ==
  /\ pc \in {"decode", "consolidate"}
  /\ recent_len >= AbsorbAt
  /\ Graduate(arm.absorb_block)
  /\ \/ /\ ~lowrank_enabled
        /\ UNCHANGED <<hh_len, f_len, q_len>>
     \/ /\ hh_enabled
        /\ AbsorbBlockSlash(arm.absorb_block)
     \/ /\ lowrank_enabled /\ ~hh_enabled
        /\ AbsorbColumns(arm.absorb_block)
        /\ UNCHANGED hh_len
  /\ UNCHANGED <<arm, mode, pc, cumulative_length, sink_len, left,
                 report, answer>>

-----------------------------------------------------------------------------
(* update(): its five paths.                                               *)

(* Mutant: without a low-rank middle the whole prompt stays in the ring.   *)
PrefillKeepsPrompt ==
  /\ pc = "ready"
  /\ cumulative_length = 0
  /\ sink_len' = Lesser(arm.n_sink, query_length)
  /\ recent_len' = IF lowrank_enabled
                     THEN Lesser(arm.recent_window, query_length - sink_len')
                     ELSE query_length - sink_len'
  /\ left' = query_length - sink_len' - recent_len'
  /\ kernel_mid' = 0
  /\ pc' = "prefill"
  /\ UNCHANGED <<arm, mode, cumulative_length, hh_len, f_len, q_len,
                 report, returned>>

Prefill ==
  /\ pc = "ready"
  /\ cumulative_length = 0
  /\ sink_len' = Lesser(arm.n_sink, query_length)
  /\ recent_len' = Lesser(arm.recent_window, query_length - sink_len')
  /\ left' = IF lowrank_enabled THEN query_length - sink_len' - recent_len'
                                ELSE 0
  /\ kernel_mid' = 0
  /\ pc' = "prefill"
  /\ UNCHANGED <<arm, mode, cumulative_length, hh_len, f_len, q_len,
                 report, returned>>

PrefillBlock ==
  /\ pc = "prefill"
  /\ left > 0
  /\ LET m == Lesser(arm.prefill_block_size, left)
     IN /\ left' = left - m
        /\ IF arm.seed_hh_warmup /\ hh_enabled /\ mode = "ingest"
             THEN AbsorbBlockSlash(m)
             ELSE AbsorbColumns(m) /\ UNCHANGED hh_len
  /\ UNCHANGED <<arm, mode, pc, cumulative_length, sink_len, recent_len,
                 report, answer>>

PrefillReturn ==
  /\ pc = "prefill"
  /\ left = 0
  /\ cumulative_length' = query_length
  /\ returned' = query_length
  /\ ForwardEnds
  /\ UNCHANGED <<arm, mode, tiers, left, kv_length, kernel_mid>>

ScoreForward ==
  /\ pc = "ready"
  /\ cumulative_length > 0
  /\ mode = "score"
  /\ returned' = AttendedLength + query_length
  /\ kernel_mid' = 0
  /\ ForwardEnds
  /\ UNCHANGED <<arm, mode, cumulative_length, tiers, left, kv_length>>

IngestChunk ==
  /\ pc = "ready"
  /\ cumulative_length > 0
  /\ mode = "ingest"
  /\ recent_len' = recent_len + query_length
  /\ cumulative_length' = cumulative_length + query_length
  /\ returned' = AttendedLength + query_length
  /\ kernel_mid' = 0
  /\ ForwardEnds
  /\ UNCHANGED <<arm, mode, sink_len, hh_len, f_len, q_len, left,
                 kv_length>>

DecodeStep ==
  /\ pc = "ready"
  /\ cumulative_length > 0
  /\ mode = "normal"
  /\ query_length = 1
  /\ recent_len' = recent_len + 1
  /\ cumulative_length' = cumulative_length + 1
  /\ kernel_mid' = 0
  /\ pc' = "decode"
  /\ UNCHANGED <<arm, mode, sink_len, hh_len, f_len, q_len, left,
                 report, returned>>

(* The kernel path returns the dense tokens only and leaves the low-rank   *)
(* tail factored for the attention function.                               *)
DecodeReturn ==
  /\ pc = "decode"
  /\ recent_len < AbsorbAt
  /\ returned' = IF arm.kernel THEN sink_len + HhAttendedLen + recent_len
                               ELSE AttendedLength
  /\ kernel_mid' = IF arm.kernel THEN q_len + f_len ELSE 0
  /\ ForwardEnds
  /\ UNCHANGED <<arm, mode, cumulative_length, tiers, left, kv_length>>

(* A continued pre-fill outside ingest mode raises NotImplementedError:    *)
(* no keys are returned, so nothing is left to compare with the report.    *)
UpdateRejected ==
  /\ pc = "ready"
  /\ cumulative_length > 0
  /\ mode = "normal"
  /\ query_length # 1
  /\ kv_length' = 0 /\ returned' = 0 /\ kernel_mid' = 0
  /\ ForwardEnds
  /\ UNCHANGED <<arm, mode, cumulative_length, tiers, left>>

-----------------------------------------------------------------------------
Consolidate ==
  /\ pc = "idle"
  /\ pc' = "consolidate"
  /\ UNCHANGED <<arm, mode, cumulative_length, tiers, left, report, answer>>

ConsolidateReturn ==
  /\ pc = "consolidate"
  /\ recent_len < AbsorbAt
  /\ pc' = "idle"
  /\ UNCHANGED <<arm, mode, cumulative_length, tiers, left, report, answer>>

(* frozen_scoring / ingesting set the mode on entry and restore "normal"   *)
(* on exit, also when the block raises.                                    *)
SetMode(m) ==
  /\ pc = "idle"
  /\ mode # m
  /\ mode = "normal" \/ m = "normal"
  /\ mode' = m
  /\ UNCHANGED <<arm, pc, cumulative_length, tiers, left, report, answer>>

Reset ==
  /\ pc = "idle"
  /\ cumulative_length > 0
  /\ mode' = "normal"
  /\ cumulative_length' = 0
  /\ sink_len' = 0 /\ recent_len' = 0 /\ hh_len' = 0 /\ f_len' = 0 /\ q_len' = 0
  /\ kv_length' = 0 /\ returned' = 0 /\ kernel_mid' = 0
  /\ UNCHANGED <<arm, pc, left, query_length, pred>>

(* A call in progress: single-threaded, it always takes its next step.     *)
Running ==
  \/ PostUpdateLengths \/ ReportMaskSizes
  \/ AbsorbBlockIntoStream
  \/ Prefill \/ PrefillBlock \/ PrefillReturn
  \/ ScoreForward \/ IngestChunk
  \/ DecodeStep \/ DecodeReturn \/ UpdateRejected
  \/ ConsolidateReturn

Next ==
  \/ \E n \in 1..MaxTokens : GetMaskSizes(n)
  \/ Running
  \/ Consolidate
  \/ \E m \in Modes : SetMode(m)
  \/ Reset

Spec == Init /\ [][Next]_vars
FairSpec == Spec /\ WF_vars(Running)

-----------------------------------------------------------------------------
(* Every variable keeps its shape, and no tier outgrows its budget at any  *)
(* point of any call: the code never holds a tier above its budget between *)
(* two loop iterations (_enforce_budgets, the keep_n of the exact tier).   *)
TypeOK ==
  /\ arm \in Arms
  /\ mode \in Modes
  /\ pc \in {"idle", "mask", "ready", "prefill", "decode", "consolidate"}
  /\ cumulative_length \in 0..MaxTokens
  /\ sink_len \in 0..arm.n_sink
  /\ recent_len \in Nat
  /\ hh_len \in 0..arm.hh_budget
  /\ f_len \in 0..arm.coord_budget
  /\ q_len \in 0..arm.quant_budget
  /\ left \in Nat
  /\ query_length \in 0..MaxTokens
  /\ pred \in [recent : Nat, mid : Nat, pool : Nat \cup {-1}]
  /\ kv_length \in Nat
  /\ returned \in Nat
  /\ kernel_mid \in Nat

(* The mask is exact: whatever sequence of pre-fill, decode, scoring,      *)
(* ingest and consolidate calls came before, the length get_mask_sizes     *)
(* reported for a forward is the number of keys that forward attends: the  *)
(* keys update() returned plus, on the kernel path, the factored middle.   *)
MaskAgrees == pc = "idle" => kv_length = returned + kernel_mid

(* kv_offset = cumulative + query - kv_length places the returned block    *)
(* strictly below the query; it never goes negative, i.e. the layer never  *)
(* claims more history than it was given.                                  *)
OffsetInPast == pc = "ready" => kv_length <= cumulative_length + query_length

(* Tokens given to the layer that no tier holds any more.                  *)
Given == IF pc = "prefill" THEN query_length - left ELSE cumulative_length
Lost == Given - (sink_len + recent_len + hh_len + f_len + q_len)

(* History is dropped only by a full cache: while the fp32 tier or the     *)
(* quantized tier has a free column, every token ever given is still held. *)
NothingLostEarly ==
  lowrank_enabled /\ Lost > 0
    => f_len = arm.coord_budget /\ q_len = arm.quant_budget

(* The constant-memory claim: when a pre-fill, a decode step or a          *)
(* consolidation returns, the columns stored are bounded by the budgets,   *)
(* however long the stream (an ingest chunk alone may overfill the ring).  *)
StoredBound ==
  arm.n_sink + arm.hh_budget + arm.coord_budget + arm.quant_budget
    + arm.recent_window + arm.absorb_block - 1
BoundedOnReturn ==
  pc \in {"prefill", "decode", "consolidate"} /\ pc' = "idle"
    => (sink_len + hh_len + f_len + q_len + recent_len)' <= StoredBound
ConstantMemory == [][BoundedOnReturn]_vars

(* No call hangs: each absorb loop, and the predicted one, shrinks what    *)
(* its condition reads, so every call that starts comes back.              *)
CallsReturn == (pc # "idle") ~> (pc = "idle")
-----------------------------------------------------------------------------
(* The inductive invariant behind the properties above, in named parts.    *)

Multiple(x) == \E k \in Nat : x = k * arm.absorb_block

(* pred is what graduating d more columns makes of the tiers as they are.  *)
Predicts(d) ==
  IF ~lowrank_enabled
    THEN pred.mid = 0 /\ pred.pool = -1
    ELSE IF hh_enabled /\ ~arm.hh_retain
      THEN /\ pred.pool = Lesser(arm.hh_budget, hh_len + d)
           /\ pred.mid = Lesser(MidCap, MidLen + (hh_len + d - pred.pool))
      ELSE /\ pred.pool = -1
           /\ pred.mid = Lesser(MidCap, MidLen + d)

(* The two loops walk in step: what the real one has still to graduate to  *)
(* reach the predicted ring is a whole number of blocks.                   *)
Predicting ==
  \/ pc \in {"mask", "decode"}
  \/ pc = "ready" /\ mode = "normal" /\ cumulative_length > 0
Due == (IF pc = "decode" THEN recent_len ELSE recent_len + query_length)
         - pred.recent
PredictionInv ==
  /\ Predicting =>
       /\ Due \in Nat
       /\ Multiple(Due)
       /\ Due > 0 => pred.recent >= arm.recent_window
       /\ Predicts(Due)
       /\ pc # "mask" => /\ pred.recent < AbsorbAt
                         /\ kv_length = sink_len + pred.mid + pred.recent
  /\ pc = "ready" /\ ~Predicting =>
       kv_length = AttendedLength + query_length
  /\ pc = "prefill" => kv_length = query_length /\ kernel_mid = 0
  /\ pc \in {"idle", "consolidate"} => kv_length = returned + kernel_mid

PhaseInv ==
  /\ pc \in {"mask", "decode"} => mode = "normal" /\ cumulative_length > 0
  /\ pc \in {"mask", "ready"} => cumulative_length + query_length <= MaxTokens
  /\ pc \in {"mask", "ready"} => query_length > 0
  /\ pc = "prefill" => /\ cumulative_length = 0
                       /\ 0 < query_length
                       /\ left <= query_length
                       /\ recent_len <= arm.recent_window
  /\ cumulative_length = 0 /\ pc # "prefill" =>
       sink_len = 0 /\ recent_len = 0 /\ hh_len = 0 /\ f_len = 0 /\ q_len = 0

(* The quantized tier holds what a full fp32 tier spilled.                 *)
HistoryInv ==
  /\ q_len > 0 => f_len = arm.coord_budget
  /\ ~lowrank_enabled => hh_len = 0 /\ f_len = 0 /\ q_len = 0 /\ left = 0
  /\ ~hh_enabled => hh_len = 0
  /\ Lost \in Nat
  /\ NothingLostEarly

IInv == TypeOK /\ PhaseInv /\ HistoryInv /\ PredictionInv
=============================================================================
