------------------------------ MODULE EvalAxes ------------------------------
(***************************************************************************)
(* The drivers of the evaluation axes (perplexity, RULER, LongBench,       *)
(* latency, persistence, kernel check): for every arm of a sweep and every *)
(* sample, build a cache, prefill it, bill it, score or decode over it,    *)
(* drain its diagnostics, and leave one row, whatever raises.              *)
(*                                                                         *)
(* The caches are modelled by what the drivers can get wrong with them:    *)
(* a streaming cache refuses a continuation of more than one token and     *)
(* needs its scope; a quantized one folds its fp16 residual on its own     *)
(* clock and pads its key groups; a pruned DynamicCache may hold another   *)
(* number of tokens on another layer.  Tokens are their positions.         *)
(***************************************************************************)
EXTENDS Naturals, Sequences, FiniteSets, SequencesExt

CONSTANTS
    Arms,        \* arms a sweep may hold: records [kind, perLayer, kernel, chunkable]
    Axes,        \* axes run
    MaxArms,     \* arms of one sweep
    Contexts,    \* context lengths
    Chunks,      \* prefill chunks, 0 for single-shot
    Window,      \* tokens scored after the context (ppl)
    Query,       \* tokens of the query (ruler)
    MaxNew,      \* tokens generated after it
    NumSamples,  \* windows of an arm, examples of a LongBench trial
    Residual,    \* the quant arms' fp16 residual length R
    Group,       \* their group size
    Keep,        \* tokens an eviction press keeps on average
    MaxCrashes   \* bound: forwards that run out of memory (or raise on their own)

Kinds == {"full", "press", "bug", "shadow", "quant", "quant_faithful", "press_quant"}

ASSUME SweepAssumption ==
    /\ Arms \subseteq [kind : Kinds, perLayer : BOOLEAN, kernel : BOOLEAN, chunkable : BOOLEAN]
    /\ \A a \in Arms : (a.perLayer => a.kind = "press") /\ (a.kernel => a.kind = "bug")
    /\ Axes \subseteq {"ppl", "ruler", "longbench", "latency", "persist", "kernel_check"}
    /\ Residual \in Nat /\ Group \in Nat \ {0}
    /\ {Keep} \cup Contexts \cup Chunks \subseteq Nat
    /\ Keep > 1 /\ \A t \in Contexts : t > Keep /\ t >= Residual
    /\ {MaxArms, Window, Query, MaxNew, NumSamples} \subseteq Nat \ {0} /\ MaxCrashes \in Nat

VARIABLES
    job,       \* the sweep: axis, arms, ctx, chunk
    pc,        \* where the driver is
    at,        \* the arm under way, in 1 .. Len(job.arms)
    sample,    \* its sample
    fed,       \* tokens of the sample fed so far: the next forward's true position
    cache,     \* the sample's cache
    hooked,    \* an attach (or frozen_scoring) scope of the cache is open
    billed,    \* the arm's footprint, or NotBilled
    axisRows,  \* rows of the axis
    emitted,   \* diagnostic rows printed, in order
    made,      \* history: diagnostic rows the bug caches produced, drained or not
    crashes    \* bound: forwards that raised so far

sweepVars == <<job, pc, at, sample, fed, cache, hooked, billed, axisRows, emitted, made, crashes>>

arm == job.arms[at]
streaming == arm.kind \in {"bug", "shadow"}
quantized == arm.kind \in {"quant", "quant_faithful", "press_quant"}
NotBilled == [sample |-> 0, tokens |-> {}, top |-> {}, residual |-> 0]
Positions(from, n) == [i \in 1 .. n |-> from + i]

------------------------------------------------------------------------------
(* The caches.  `codes` is the quantized key store of `t` tokens, `fp16` layer *)
(* 0's plain tokens (a streaming cache's: all it has seen), `top` the last     *)
(* layer's, `fourD` whether the residual is a 4-D tensor.                      *)

FreshCache == [init |-> FALSE, codes |-> <<>>, t |-> 0, fp16 |-> <<>>, top |-> <<>>,
               fourD |-> FALSE, mode |-> "normal", diag |-> <<>>]

\* `_quantize` of the keys: padded to whole groups with the last token.
Quantize(c, keys) ==
    LET pad == (Group - (Len(keys) % Group)) % Group
    IN  [c EXCEPT !.init = TRUE, !.t = Len(keys),
                  !.codes = keys \o [i \in 1 .. pad |-> Last(keys)]]

\* Mutant: the padding is not sliced off.
DequantizePadded(c) == c.codes

\* `_dequantize`: the padding is sliced off.
Dequantize(c) == SubSeq(c.codes, 1, c.t)

Emptied(c) == [c EXCEPT !.fp16 = <<>>, !.fourD = FALSE]

\* `flush`: fold the residual into the store.
Flush(c) ==
    IF ~c.fourD \/ c.fp16 = <<>> THEN c ELSE Emptied(Quantize(c, Dequantize(c) \o c.fp16))

\* transformers' QuantizedLayer.update: the first call quantizes everything, a
\* later one folds when the 4-D residual is about to reach R, else appends.
QuantUpdate(c, new) ==
    IF ~c.init THEN Emptied(Quantize(c, new))
    ELSE IF c.fourD /\ Len(c.fp16) + 1 >= Residual
         THEN Emptied(Quantize(c, Dequantize(c) \o c.fp16 \o new))
         ELSE [c EXCEPT !.fp16 = @ \o new, !.fourD = TRUE]

\* Where quantize_after_prefill cuts: all but the trailing T mod R.
Cut(t) == IF Residual = 0 THEN t ELSE t - (t % Residual)

QuantizeAfterPrefill(keys) ==
    LET t == Len(keys)
        c == Quantize(FreshCache, SubSeq(keys, 1, Cut(t)))
    IN  [c EXCEPT !.fp16 = SubSeq(keys, Cut(t) + 1, t), !.fourD = Cut(t) < t]

\* The press's forward hook on its prefill forward: evict, and re-quantize the
\* survivors into a quantized cache.  PyramidKV keeps more on the lower layers.
Compress(c) ==
    LET n == Len(c.top)
        keep(k) == SubSeq(c.top, n + 1 - k, n)
        off == IF arm.perLayer THEN 1 ELSE 0
    IN  IF arm.kind = "press_quant"
        THEN LET all == Dequantize(c)
             IN  Emptied(Quantize(c, SubSeq(all, Len(all) + 1 - Keep, Len(all))))
        ELSE [c EXCEPT !.fp16 = keep(Keep + off), !.top = keep(Keep - off)]

\* A streaming cache outside ingest and scoring takes one token at a time, and
\* ShadowKV raises when no hook chose its chunks; a forward over several tokens
\* builds one mask, from layer 0's key count.
ForwardRefused(c, n) ==
    IF streaming THEN /\ c.fp16 # <<>>
                      /\ \/ c.mode = "normal" /\ n > 1
                         \/ arm.kind = "shadow" /\ ~hooked
    ELSE n > 1 /\ Len(c.fp16) # Len(c.top) /\ ~quantized

\* What one forward over the next n tokens leaves.
Update(c, n) ==
    LET new == Positions(fed, n)
        scored == c.mode = "score" /\ c.fp16 # <<>>
        dynamic == arm.kind = "quant_faithful" /\ pc = "prefill"   \* a DynamicCache
    IN  CASE streaming /\ scored -> c
          [] streaming /\ ~scored ->
               [c EXCEPT !.fp16 = @ \o new,
                         !.diag = IF arm.kind = "bug" THEN Append(@, <<at, sample, fed + n>>)
                                                      ELSE @]
          [] quantized /\ ~dynamic -> QuantUpdate(c, new)
          [] OTHER -> [c EXCEPT !.fp16 = @ \o new, !.top = @ \o new]

\* The positions layer 0 and the last layer hold.
Held(c) == IF quantized THEN Range(Dequantize(c) \o c.fp16) ELSE Range(c.fp16)
HeldTop(c) == IF quantized \/ streaming THEN Held(c) ELSE Range(c.top)

------------------------------------------------------------------------------
(* What each axis does with an arm. *)

\* What a driver does with an arm: whether it has a branch for the kind, the
\* samples it runs, whether a streaming prefill ingests, the tokens fed after the
\* prefill and how many the first forward over them takes, and whether the arm is
\* billed and drained.
Chunked(a) == a.chunkable /\ 0 < job.chunk /\ job.chunk < job.ctx

\* Mutant: only the presses' per-layer budgets are known to need single tokens.
BlockUnlessPerLayer(a) == ~a.perLayer

\* `_decode(block=...)`: one forward for the query, or one a token.
Block(a) == a.kind \notin {"bug", "shadow"} /\ ~a.perLayer

PplPlan(a) ==
    [covers |-> a.kind # "press_quant" /\ ~a.perLayer, samples |-> NumSamples,
     ingests |-> Chunked(a), after |-> Window, step |-> Window, recorded |-> TRUE]

RulerPlan(a) ==
    [covers |-> TRUE, samples |-> 1, ingests |-> Chunked(a), after |-> Query + MaxNew,
     step |-> IF Block(a) THEN Query ELSE 1, recorded |-> TRUE]

\* The prompt's last token is the query.
LongbenchPlan(a) ==
    [covers |-> a.kind \notin {"quant", "press_quant"}, samples |-> NumSamples,
     ingests |-> Chunked(a), after |-> 1 + MaxNew, step |-> 1, recorded |-> TRUE]

LatencyPlan(a) ==
    [covers |-> a.kind \in {"full", "bug", "quant"}, samples |-> 1, ingests |-> TRUE,
     after |-> MaxNew, step |-> 1, recorded |-> FALSE]

\* The full arm first: it is the byte reference.
PersistPlan(a) ==
    [covers |-> \/ a.kind = "full"
                \/ a.kind \in {"bug", "quant"} /\ \E i \in 1 .. at - 1 : job.arms[i].kind = "full",
     samples |-> 1, ingests |-> TRUE, after |-> 0, step |-> 1, recorded |-> FALSE]

\* The reconstruct twin, then the kernel arm.
KernelCheckPlan(a) ==
    [covers |-> a.kind = "bug", samples |-> 2, ingests |-> TRUE, after |-> MaxNew,
     step |-> 1, recorded |-> FALSE]

Plan(axis, a) ==
    CASE axis = "ppl" -> PplPlan(a)               [] axis = "ruler" -> RulerPlan(a)
      [] axis = "longbench" -> LongbenchPlan(a)   [] axis = "latency" -> LatencyPlan(a)
      [] axis = "persist" -> PersistPlan(a)       [] axis = "kernel_check" -> KernelCheckPlan(a)

plan == Plan(job.axis, arm)

\* kernel_check passes over the arms it is not about; the others try them all.
Skips(axis, a) == axis = "kernel_check" /\ ~a.kernel

\* Tokens the next prefill forward takes: one chunk where the kind can be chunked
\* (the axes that record nothing chunk every arm).
PrefillStep ==
    LET chunked == 0 < job.chunk /\ job.chunk < job.ctx /\ (arm.chunkable \/ ~plan.recorded)
        step == IF chunked /\ (streaming \/ arm.kind = "quant") THEN job.chunk ELSE job.ctx
    IN  IF fed + step <= job.ctx THEN step ELSE job.ctx - fed

\* The phases an attach scope covers; perplexity scores inside frozen_scoring,
\* which installs the hooks itself.
Attached(axis) == IF axis \in {"ppl", "persist"} THEN {"prefill"} ELSE {"prefill", "decode"}

\* Mutant: perplexity bills every arm after its window.
BilledAfterWindow(axis) == IF axis = "ppl" THEN {} ELSE Kinds

\* The kinds billed between the prefill and what follows.
BilledFirst(axis) == IF axis = "ppl" THEN Kinds \ {"bug", "shadow", "press_quant"} ELSE Kinds

RunStep == IF fed = job.ctx THEN plan.step ELSE 1

\* `_footprint`.
Footprint ==
    [sample |-> sample, tokens |-> Held(cache), top |-> HeldTop(cache),
     residual |-> CASE arm.kind = "quant_faithful" -> IF cache.fourD THEN Len(cache.fp16) ELSE 0
                    [] arm.kind = "quant" -> Residual     \* the configured one
                    [] OTHER -> 0]

------------------------------------------------------------------------------
Sweeps == [axis : Axes, arms : UNION {[1 .. k -> Arms] : k \in 1 .. MaxArms},
           ctx : Contexts, chunk : Chunks]

SweepInit ==
    /\ job \in Sweeps
    /\ pc = "arm" /\ at = 1 /\ sample = 1 /\ fed = 0
    /\ cache = FreshCache /\ hooked = FALSE /\ billed = NotBilled
    /\ axisRows = <<>> /\ emitted = <<>> /\ made = {} /\ crashes = 0

AxisRow(status) == [arm |-> at, status |-> status, footprint |-> billed]

\* The row is appended outside both branches of the try.
RowsWith(status) == Append(axisRows, AxisRow(status))

\* The next arm's turn, with nothing left of this one.
NextArm ==
    /\ pc' = IF at = Len(job.arms) THEN "done" ELSE "arm"
    /\ at' = IF at = Len(job.arms) THEN at ELSE at + 1
Cleared ==
    /\ sample' = 1 /\ fed' = 0 /\ cache' = FreshCache /\ hooked' = FALSE
    /\ billed' = NotBilled
    /\ UNCHANGED job

\* An arm is over: its row (the latency axis's may be an [error] line), and the
\* next arm's turn.  The persistence axis has no try: the exception ends it.
EndArm(status) ==
    /\ IF job.axis = "persist" /\ status # "ok"
       THEN pc' = "dead" /\ UNCHANGED <<axisRows, at>>
       ELSE axisRows' = RowsWith(status) /\ NextArm
    /\ Cleared

\* Mutant: the rows are emitted on the success path only.
EmittedOnSuccess(diag, raised) == IF raised THEN <<>> ELSE diag

\* `drained`: emitted in a finally, raised or not.
Emitted(diag, raised) == diag

Drain(diag, raised) ==
    emitted' = IF plan.recorded /\ arm.kind = "bug"
               THEN emitted \o Emitted(diag, raised) ELSE emitted

\* History: the rows a cache holds were produced, whoever reads them.
Produced(c) == made' = made \cup Range(c.diag)

\* A kind the axis has no branch for (a ValueError, a missing factory, a cache
\* that is no press): the error is the arm's row.
RefuseArm ==
    /\ pc = "arm" /\ ~Skips(job.axis, arm) /\ ~plan.covers
    /\ EndArm("refused")
    /\ UNCHANGED <<emitted, made, crashes>>

\* An arm the kernel check is not about leaves no row.
SkipArm ==
    /\ pc = "arm" /\ Skips(job.axis, arm)
    /\ NextArm /\ Cleared
    /\ UNCHANGED <<axisRows, emitted, made, crashes>>

\* A fresh cache from the arm's factory, its scope opened, the tokens at 0.
StartSample ==
    /\ pc = "arm" /\ ~Skips(job.axis, arm) /\ plan.covers
    /\ cache' = [FreshCache EXCEPT !.mode = IF streaming /\ plan.ingests THEN "ingest" ELSE "normal"]
    /\ fed' = 0
    /\ hooked' = (streaming /\ "prefill" \in Attached(job.axis))
    /\ pc' = "prefill"
    /\ UNCHANGED <<job, at, sample, billed, axisRows, emitted, made, crashes>>

\* One prefill forward; a chunked streaming prefill consolidates after each.
PrefillForward ==
    /\ pc = "prefill" /\ fed < job.ctx /\ ~ForwardRefused(cache, PrefillStep)
    /\ cache' = Update(cache, PrefillStep)
    /\ fed' = fed + PrefillStep
    /\ Produced(cache')
    /\ UNCHANGED <<job, pc, at, sample, hooked, billed, axisRows, emitted, crashes>>

\* The prefill's tail: press hooks, flush, the post-hoc quantization, the end
\* of the ingest block and of a prefill-only scope, the start of the scoring one.
EndPrefill ==
    /\ pc = "prefill" /\ fed = job.ctx
    /\ cache' = CASE arm.kind \in {"press", "press_quant"} -> Compress(cache)
                  [] arm.kind = "quant" -> Flush(cache)
                  [] arm.kind = "quant_faithful" -> QuantizeAfterPrefill(cache.fp16)
                  [] streaming -> [cache EXCEPT !.mode =
                                     IF job.axis = "ppl" THEN "score" ELSE "normal"]
                  [] OTHER -> cache
    /\ hooked' = (streaming /\ (job.axis = "ppl" \/ "decode" \in Attached(job.axis)))
    /\ pc' = "bill"
    /\ UNCHANGED <<job, at, sample, fed, billed, axisRows, emitted, made, crashes>>

\* The footprint of the post-prefill state, perplexity's of the first window.
Bill ==
    /\ pc = "bill"
    /\ billed' = IF /\ plan.recorded /\ arm.kind \in BilledFirst(job.axis)
                    /\ (billed = NotBilled \/ job.axis # "ppl")
                 THEN Footprint ELSE billed
    /\ pc' = "run"
    /\ UNCHANGED <<job, at, sample, fed, cache, hooked, axisRows, emitted, made, crashes>>

\* One forward of the window, the query, or the answer.
RunForward ==
    /\ pc = "run" /\ fed < job.ctx + plan.after /\ ~ForwardRefused(cache, RunStep)
    /\ cache' = Update(cache, RunStep)
    /\ fed' = fed + RunStep
    /\ Produced(cache')
    /\ UNCHANGED <<job, pc, at, sample, hooked, billed, axisRows, emitted, crashes>>

\* The sample is over: drain its cache, bill what is not billed yet, and start
\* the next sample or finish the arm.
EndSample ==
    LET fp == IF plan.recorded /\ billed = NotBilled THEN Footprint ELSE billed
    IN  /\ pc = "run" /\ fed = job.ctx + plan.after
        /\ Drain(cache.diag, FALSE)
        /\ pc' = "next" /\ billed' = fp /\ hooked' = FALSE
        /\ cache' = [cache EXCEPT !.diag = <<>>, !.mode = "normal"]
        /\ UNCHANGED <<job, at, sample, fed, axisRows, made, crashes>>

NextSample ==
    /\ pc = "next" /\ sample < plan.samples
    /\ sample' = sample + 1 /\ pc' = "arm" /\ cache' = FreshCache /\ fed' = 0
    /\ UNCHANGED <<job, at, hooked, billed, axisRows, emitted, made, crashes>>

FinishArm ==
    /\ pc = "next" /\ sample = plan.samples
    /\ EndArm("ok")
    /\ UNCHANGED <<emitted, made, crashes>>

Step == IF pc = "prefill" THEN PrefillStep ELSE RunStep
Forwarding == \/ pc = "prefill" /\ fed < job.ctx
              \/ pc = "run" /\ fed < job.ctx + plan.after

\* The cache or the model refuses the forward, it runs out of memory before the
\* layers' window is flushed, or the orthonormality guard raises, which flushes
\* it first.
ForwardFails ==
    LET refused == ForwardRefused(cache, Step)
    IN  /\ Forwarding /\ (refused \/ crashes < MaxCrashes)
        /\ \E left \in {cache} \cup (IF refused THEN {} ELSE {Update(cache, Step)}) :
             Produced(left) /\ Drain(left.diag, TRUE)
        /\ EndArm(IF refused THEN "error" ELSE "fault")
        /\ crashes' = IF refused THEN crashes ELSE crashes + 1

Finished == pc \in {"done", "dead"} /\ UNCHANGED sweepVars

SweepNext ==
    \/ RefuseArm \/ SkipArm \/ StartSample \/ PrefillForward \/ EndPrefill \/ Bill
    \/ RunForward \/ EndSample \/ NextSample \/ FinishArm \/ ForwardFails
    \/ Finished

SweepSpec == SweepInit /\ [][SweepNext]_sweepVars

------------------------------------------------------------------------------
(* Properties. *)

Context == 1 .. job.ctx

\* A footprint is the prefill's: it counts no scored or decoded token, all of the
\* context unless a press evicted, a faithful arm's true residual; and what was
\* billed is what the rest of the sample attends (run_ppl, retrieve, generate).
BilledState ==
    billed # NotBilled =>
        /\ billed.tokens \cup billed.top \subseteq Context
        /\ arm.kind \notin {"press", "press_quant"} => billed.tokens = Context
        /\ arm.kind = "quant_faithful" /\ Residual > 0 => billed.residual = job.ctx % Residual
        /\ billed.sample = sample /\ pc \in {"run", "next"} =>
             /\ Held(cache) \cap Context = billed.tokens
             /\ HeldTop(cache) \cap Context = billed.top

\* A quantized cache holds every token it was fed exactly once and in order,
\* through folds, flushes and padding (a composite arm: its survivors first); and
\* a faithful arm fed one token at a time folds on every R-th.
EachTokenHeldOnce ==
    quantized /\ pc \in {"bill", "run", "next"} =>
        LET whole == Dequantize(cache) \o cache.fp16
            first == IF arm.kind = "press_quant" THEN job.ctx - Keep ELSE 0
        IN  /\ whole = Positions(first, fed - first)
            /\ (arm.kind = "quant_faithful" /\ job.axis = "longbench" /\ Residual > 1) =>
                 Len(cache.fp16) = fed % Residual

\* Every arm the axis is about leaves one row, in order, and a driver never makes
\* a call its cache refuses: a covered arm fails only by an outside fault.
EveryArmAnswers ==
    /\ \A i \in DOMAIN axisRows : axisRows[i].status # "error"
    /\ \A i, k \in DOMAIN axisRows : i < k => axisRows[i].arm < axisRows[k].arm
    /\ {axisRows[i].arm : i \in DOMAIN axisRows} =
         {k \in 1 .. (IF pc = "done" THEN at ELSE at - 1) : ~Skips(job.axis, job.arms[k])}

\* On the axes that drain, every diagnostic row a bug cache produced has been
\* emitted by the time its sample is over, however it ended; and no row is ever
\* emitted twice, or emitted without a cache having produced it (records.drained).
Sampling == pc \in {"prefill", "bill", "run"}
DrainedOnce ==
    /\ Len(emitted) = Cardinality(Range(emitted)) /\ Range(emitted) \subseteq made
    /\ plan.recorded /\ ~Sampling => made \subseteq Range(emitted)
=============================================================================
