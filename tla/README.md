# TLA+ models of kvdlra

kvdlra keeps the KV cache of a language model in bounded memory: attention
sinks and a ring of recent tokens are stored exactly, everything in between is
absorbed block by block into a low-rank basis with a few retained columns.
Around it the repository has a competing ShadowKV cache, evaluation drivers,
and scripts that rent GPU instances, watch them and harvest their records.

What goes wrong in such code is rarely the linear algebra. It is a mask one
column too long, a column rotated to another token's position, a selection
stashed by a hook and used a step later, a reconstruction that outlives its
inputs, an instance that nobody destroys. These modules model that part: the
control of the caches and of the pod scripts, with the numbers abstracted to
what the control decides by.

Source paths below are relative to `src/` (`src/kvdlra/...` is
`src/src/kvdlra/...` in `PROJECT.json`).

## 1. The system

| component | source | state | operations |
|---|---|---|---|
| streaming layer | `src/kvdlra/cache/bug_cache.py`, `BugStreamingLayer` | mode, `cumulative_length`; five tiers: sinks, ring (`recent`), exact heavy hitters (`hh`), fp32 coordinates (`c_k`, `mid_*`), quantized coordinates (`q_*`); reconstruction cache, running maximum of tokens seen; bases, orthonormality guard, diagnostics window | `get_mask_sizes`, `update` (pre-fill, scoring, ingest, decode, rejected), `consolidate`, `reset`, row layers for batch > 1 |
| streaming container | same file, `BugStreamingCache` | one layer per decoder layer | `frozen_scoring`, `ingesting`, `consolidate`, `drain_diag`, `reset` |
| ShadowKV cache | `src/kvdlra/cache/shadow_cache.py` | sinks, ring, low-rank keys in chunks, values on the CPU, `_selected`, hooks | `get_mask_sizes`, pre-attention hook (`_plan_selection`), `update`, `attach`, `frozen_scoring`, `ingesting`, `reset` |
| kernel glue | `src/kvdlra/kernel/attention.py`, `kernel/__init__.py` | the model's attention implementation, the one registered name and the cache bound to it, the middle each layer hands over, the recorded backend | attach, detach, attend with a factored middle, choose a backend |
| trackers | `src/kvdlra/tracker` | none; a pure step `(U, B, block) -> (U', B', rot)` | isvd, Oja, Frequent Directions, frozen, random |
| KIVI, PolarQuant | `src/kvdlra/quant` | quantized store and fp16 residual; PolarQuant none | fold, flush, quantize after prefill, (de)quantize |
| accounting | `src/kvdlra/accounting.py`, `_footprint` in `eval/frontier.py` | none | closed-form element and bit counts |
| evaluation axes | `src/kvdlra/eval`: `frontier.py`, `ruler.py`, `longbench.py`, `latency.py`, `persist.py`, `kernel_check.py` | a cache per sample, the bill, rows, printed diagnostics | prefill, chunk, compress, bill, score or decode, drain, record, go on after a failure |
| gates | `src/kvdlra/eval/gate1.py`, `stats.py` | the records read | load, refuse, contrast, correct, decide |
| pod runner | `src/kvdlra/eval/runner.py` | record files on the instance | `pod.py run`: streamed and buffered records, TERM, replay |
| pod scripts | `scripts/pod.py` (`launch`), `scripts/pod/boot.sh`, `scripts/pod/watchdog.sh` | `pods.txt`, `done.txt`, `<label>.raw`, instance log, `status.txt` | launch, boot, run, self-destruct, poll, destroy, retire, harvest, expire |
| harvest and check | `scripts/pod.py` (`harvest`, `check`) | record files, manifest in `results/<pod>` | parse, dedupe, refuse to shrink, write, check |
| rest | configs, data, prompts, presses' scores, tables, figures | none worth modelling | |

### How they interact

* **Model forward.** For every forward the model first asks
  `get_mask_sizes(n)` how long the keys *will* be and builds the causal mask.
  Then, for ShadowKV, the pre-attention hook stashes a choice of chunks. Then
  `update` mutates the tiers and returns the keys. On the kernel path `update`
  returns only the dense keys and the attention function fetches the factored
  middle from whichever cache is bound to its name. Three call sites, one
  length they must agree on, mutable state in between.
* **Absorb.** A block leaves the ring, passes the exact tier, and what that
  demotes goes through the tracker's step (both bases change), the carry of
  coordinates and codes, the guard (a basis may change again), the append and
  the budgets. The bill later reads ranks and lengths off all layers.
* **Drivers and gates.** Each axis builds one cache per sample, bills it after
  the prefill, scores or decodes, drains the diagnostics in a `finally`, and
  records one row per arm. `gate1.py` reads the records of whatever pods have
  landed.
* **Modes.** `frozen_scoring` and `ingesting` set `_mode` on entry and restore
  it on exit; the same `update` then scores without storing, or stores without
  absorbing. The evaluation drivers call `consolidate` after each ingested
  chunk; nothing in the layer enforces it.
* **Pods.** `launch` creates an instance and appends its label to `pods.txt`.
  `boot.sh` on the instance installs, runs under `timeout`, prints markers and
  rows to a log, and destroys the instance a grace period later. `watchdog.sh`
  on the operator's machine polls the logs, and on a final marker destroys the
  instance, appends the label to `done.txt` and harvests. They share two files
  and a log that scrolls.

### What is hard

* the length predicted before the forward and the loop that runs in it;
* tiers that feed each other while every per-column array has to follow;
* state computed at one call and used at a later one (`_selected`,
  `_mid_k_cache`, `_tokens_seen_max`, the stored surprise);
* mixtures of modes that no driver exercises but the API allows;
* errors in the middle of an absorb, or of a batch of rows;
* three processes, two files, kills between any two commands, fetches that
  come back empty or short, destroy calls whose failure nobody sees, and four
  clocks (run budget, grace, poll budget, a machine asleep).

`PROJECT.json` lists each hazard at its line, with the properties that cover
it or the reason why none does yet.

### What makes each part correct

| part | properties |
|---|---|
| lengths of the streaming layer | the mask length is the number of keys attended (`MaskAgrees`); the block lies in the past (`OffsetInPast`); nothing is dropped while a tier has room (`NothingLostEarly`); memory is constant (`ConstantMemory`); every call returns (`CallsReturn`) |
| contents of the streaming layer | every column is rotated to its own token's position (`PositionsTrue`); no token is absorbed twice or skipped (`EachTokenOnce`); the retained set is the globally most surprising one (`RetainsBest`); the cached reconstruction is never stale (`MidCacheFresh`); the lengths are those of the first module (`Lengths`) |
| gist | every coordinate and code is expressed in the basis its stream holds (`OneBasis`); a frozen or random basis moves by repairs only (`FrozenStill`); the bill is what the layers store (`BilledIsStored`) |
| guard and diagnostics | a row reports its own window and nothing else (`WindowTruthful`); every absorb is told of once (`AbsorbsToldOnce`); a trial fails exactly when a basis stays beyond repair (`FailsIffBeyondRepair`) |
| kernel glue | an attention call attends the middle of the cache that is forwarding, as its last `update` left it (`OwnMiddle`); a closed scope leaves nothing behind (`NothingKeptAlive`); rows of a batch stay in step, through consolidates and through resets in an open block (`RowsInStep`) |
| ShadowKV | mask exact before the choice is known (`MaskAgrees`); keys and values from two stores belong to the same token (`KeysMatchValues`); nothing is evicted (`WholeStreamHeld`); a hooked forward attends its own choice (`HookedForwardsFresh`) |
| evaluation axes | the bill is the post-prefill state (`BilledState`); a KIVI cache holds each token once, through folds, flushes and padding (`EachTokenHeldOnce`); no driver makes a call its cache refuses, and every arm the axis is about leaves one row (`EveryArmAnswers`); every diagnostic row a drained cache produced is printed once, by the end of its sample (`DrainedOnce`) |
| gates | one verdict at most (`Exclusive`); what is refused or undecided leaves no trace in it (`OutsidersLeaveNoTrace`); the bf16 outcome needs both families (`Bf16OnBoth`); the correction is the closed test (`HolmIsClosed`) |
| pods | no row that the replay repeats is lost (`HarvestComplete`); no healthy listed run is expired whose bar the watchdog's budget covers (`ExpiryAfterBar`); a truthful ALL_DONE (`AllDoneIsTrue`); nothing bills for ever (`BillingStops`) |
| records | a harvest is all or nothing (`HarvestWhole`); a reading is one row (`RecordOnce`); what `check` passes was measured (`CheckTruthful`); the repeat carries every reading (`ReplayIsEnough`) |

## 2. Modules

```
TierLengths  <--- MCTierLengths, TierLengthsProofs
     ^
     |  refinement: StreamLayer => TierLengths!Spec
     |
StreamLayer  <--- MCStreamLayer, StreamLayerProofs
GistCarry    <--- MCGistCarry, GistCarryProofs
OrthGuard    <--- MCOrthGuard, OrthGuardProofs
KernelScope  <--- MCKernelScope, EvalProofs
ShadowLayer  <--- MCShadowLayer, ShadowLayerProofs
EvalAxes     <--- MCEvalAxes, EvalProofs
PodWatch     <--- MCPodWatch, PodProofs
PodRecords   <--- MCPodRecords, PodProofs
Gate1        <--- MCGate1, PodProofs

IndexOrder       extended by StreamLayer, ShadowLayer
IndexOrderProofs extended by StreamLayerProofs, GistCarryProofs, OrthGuardProofs,
                 ShadowLayerProofs, EvalProofs, PodProofs
```

EvalProofs extends KernelScope and EvalAxes, PodProofs extends PodWatch,
PodRecords and Gate1; the modules proved about together share no name, which is
why a specification is called `SweepSpec`, `RecordsSpec` or `GateSpec` where the
other modules say `Spec`.

IndexOrder is how the caches gather: an index tensor is sorted before it is
used (`Rank`, `Ascending`), a run of positions is an `Arange`, and a budget
keeps the `Top` of a stable argsort.

TierLengths, StreamLayer, GistCarry and OrthGuard look at one layer at four
depths: lengths; which token is in which column; in which basis a column is
expressed; what the guard measured. KernelScope and EvalAxes look at the same
layers from outside, as counts and as sets of tokens.

### TierLengths

One `BugStreamingLayer` seen as five numbers. An action is one call or one
iteration of a loop in it; `pc` says which.

| code | actions |
|---|---|
| `get_mask_sizes`, `_post_update_lengths` | `GetMaskSizes`, `PostUpdateLengths` (one simulated absorb), `ReportMaskSizes` |
| `update` -> `_prefill` | `Prefill`, `PrefillBlock`, `PrefillReturn` |
| `update` -> `_decode_step`, kernel or reconstruct path | `DecodeStep`, `AbsorbBlockIntoStream`, `DecodeReturn` |
| `_score_forward`, `_ingest_chunk`, the rejected call | `ScoreForward`, `IngestChunk`, `UpdateRejected` |
| `consolidate` | `Consolidate`, `AbsorbBlockIntoStream`, `ConsolidateReturn` |
| context managers, `reset` | `SetMode`, `Reset` |

`AbsorbColumns` is `_absorb_columns` with its `_enforce_budgets`: the whole
absorb is one operator, never an optional step. `AbsorbBlockSlash` is the
exact tier in front of it. The arguments `__init__` rejects are excluded by
`ValidArm`, the arguments it accepts are not.

### StreamLayer

The same layer with the columns in it. A token *is* its true position; the
`pos` arrays are computed the way the code computes them
(`GradStart`: from `cumulative_length` and the already sliced ring), so a
wrong position differs from its token. Bases and vectors are abstracted to the
surprise score of a column, any level in `1..MaxLevel`, with `MaxLevel` the
residual of an absent basis; the exact tier may select by another score
(`score_rank < rank`), which can only be larger. Everything that touches no
token is *taken from* TierLengths (`TL!GetMaskSizes`, ...); everything else is
written out and shown to implement TierLengths under the mapping
`recent_len <- Len(recent)`, and so on for the five tiers.

### OrthGuard

What happens inside one absorb that the other two modules take for granted,
and what is recorded of it. An update does some absorbs; each is `Measure`,
`Repair`, and `Settle` or `Abort` (the three parts of
`_guard_orthonormality`, with `_flush_diag_window` in the last two), the
layer's `drain_diag` and `reset` come between updates. With a batch of two the
same steps run in each row layer in turn, an abort ends the update for all of
them, and `DrainDiag` and `Reset` go through the rows first. A measurement is
a level or NaN, and both the basis the tracker returns and the repaired one may
measure anything: nothing is assumed about numerics. `qr_every` may force a
repair at its period or on a rank change. Rows are kept as what identifies
them (stream, layer, absorb count, length of the window); `seen` is a history
of the open window that the accumulators are compared with. After an abort no
update follows until a reset, as in the drivers, which drain the cache and
drop it.

### GistCarry

All layers of one bug arm, as one absorb after another. A basis is a width and
a generation; each column of `c_*` and of the quantized tier carries, per
stream, the basis its numbers are expressed in. A rotation takes a column from
the basis it was made for to the next; applied to any other column it leaves
`Lost`, which is what a wrong product of the right shape is.

| code | definitions |
|---|---|
| `_absorb_block_into_stream`, `_absorb_block_slash` | `Graduate`, `Select` (any choice of what the exact tier keeps) |
| `TRACKERS` | `Step`: `augmented_bug_step`, `oja_step`, `fd_step`, `frozen_step`, `random_step`, each the set of bases it may return |
| the step, the carry and the rotation of the quantized tier | `TrackStep`, `StepFails` (K's or V's step raises) |
| `_guard_orthonormality`, `reorthonormalize` | `Guard`, with `Forced` for `qr_every` |
| coordinates of the block, `_enforce_budgets`, `_append_quant`, `_cast_gist` | `AppendBlock`, `EnforceBudgets`, `Widened` |
| `_tokens_seen` | `TokensSeen` |
| `_tracked_rank`, `_footprint`, `bug_footprint`, `stored_state_numel` | `RankSum`, `Billed`, `Stored`, `BilledGistBits`, `StoredGistBits` |

How many directions a block adds, where a floor truncates and what the guard
measures is chosen freely within what the shapes allow. A layer's whole call
runs before the next layer's in the code; here every layer absorbs a block in
turn, which is the same because layers share nothing. The evictions are fifo:
which column goes does not matter to the basis it is in. The bill has the
gist's terms only; sinks, ring, exact tier and positions are the same in every
layer. It is compared times the number of layers, so that the mean rank, which
may be a fraction, stays an integer.

### KernelScope

`attach` sets `_attn_implementation`, binds a cache to the one registered name
and restores both in a `finally`; `Attach`, `Detach`, with scopes of several
caches open at once in a stack. A forward goes layer by layer: `UpdateLayer`
(all rows of the batch; `UpdateFails` when one raises inside an absorb of its
decode step or its pre-fill, with the rows before it ahead), then the attention
call: `AttendReturned` (the dense keys hold everything), `AttendFactored`, or
`AttendRaises` (no cache bound, ragged rows, a second backend). `Consolidate`,
`ConsolidateFails` (in any row of any layer), `SetMode` and `Reset` fall between
forwards; a reset puts the cache into normal mode, whatever block is open. A row
is three counts and the middle it hands over. `attended` is a history of what
an attention call of this very step saw.

A decode or a consolidate that raised leaves rows of different lengths, and
`OwnMiddle` still holds of what the cache can attend. A pre-fill that raised is
another matter: the rows before the culprit are filled, the others still count
as empty, and a next forward would pre-fill these again while it decodes the
others. Of such a cache (`torn`, a history) `OwnMiddle` claims nothing until it
is reset. No driver goes on with one: every sample builds its own.

### EvalAxes

A sweep is an axis, a list of arms, a context and a chunk; `Plan` is what each
axis' driver does with an arm (which arms it covers, how many samples, how many
tokens after the prefill, in blocks or one by one). The actions follow a
sample: `StartSample`, `PrefillForward`, `EndPrefill` (press hook, flush,
post-hoc quantization, end of ingest), `Bill`, `RunForward`, `EndSample`
(drain), `NextSample` or `FinishArm`; `SkipArm` (no row), `RefuseArm` and
`ForwardFails` are the other ways out. A bug cache adds a diagnostic row at each
forward, and the history `made` records it there, in the prefill, the scored or
decoded part and the forward that fails; `Drain` writes `emitted` only. It is the
ppl, ruler and longbench drivers that drain (`plan.recorded`). `ForwardRefused` is
what the caches raise on: a multi-token forward into a streaming cache, a ShadowKV decode outside `attach`,
a block over layers of different lengths. transformers' `QuantizedLayer.update`
is external (`QuantUpdate`), modelled from how `kivi_cache.py` overrides it.
persist refuses an arm before its prefill in the model, after it in the code;
the row is the same.

### Gate1

The state is `records`, what has been read so far; `Land` adds the pod of a family
with any outcome of each arm. Everything else are operators over the records,
named as in `gate1.py`: `FrozenDefects`, `RetrievalContrasts`, `PplContrasts`,
`Refused`, `Separated`, `Blocked`, `Gate1Verdict`, `Bf16Contrasts`,
`Bf16Family`, `Bf16Verdict`, with `Holm` and `McNemar` of `stats.py`. The exact
McNemar p-values are computed, over counts of discordant pairs; the outcomes of
the two one-sided tests on perplexity are inputs. `HolmIsClosed` compares
`Holm` with the closed testing procedure it abbreviates: reject a member when
every subset that contains it is rejected by Bonferroni (`HolmRank` is where a
member stands in the sorted p-values). Not modelled: contexts
other than the verdict's, errors raised on duplicate or unpaired records, the
bootstrap.

### ShadowLayer

One `ShadowKVLayer` and the hooks around it. A forward is three actions,
`GetMaskSizes`, `PlanSelection` (does nothing when no hook is registered),
and one of `Prefill`, `DecodeStep`, `ScoreForward`, `UpdateRejected`.
The landmark scores are abstracted: the hook may choose any `k_eff` chunks.
One head stands for all of them, they choose independently. `attach` and
`frozen_scoring` open and close between forwards. A decode that raises has
stored its token by then, and so it does in the model.

### PodWatch

`launch`, `boot.sh` and `watchdog.sh` as three processes. Every command of the
watchdog's loop body that changes something is an action (`NextLabel`,
`FetchLog`, `Destroy`, `Retire`, `Harvest`, `CreditCheck`, `SleepOver`,
`Expired`), so `WatchdogKilled` falls between any two. The unit of time is the
watchdog's own poll (`sleep 150`): a stage of an instance has an `age`, and
time may not pass an instance whose step is due. `Asleep` is time passing
without a poll. Rows are seen as kinds: `missing` holds, per instance, the kinds
of which some row was printed that `<label>.raw` does not have. Between two polls
any row may scroll out. A fetch of full length of a log that repeats its rows
(`RECORDS_REPLAY`) has all rows of the kinds in `Replayed`; the 5000-line
fall-back may miss any. `[diag]` rows are not in `Replayed`: the watchdog keeps
those it sees (`watchdog.sh:52`) and a harvest writes them to `diag.jsonl`
(`pod.py:676`), but the replay leaves them out on purpose (`records.py:585-595`),
so those that scroll out between two polls are lost, and no property says
otherwise.

Each instance has its own `bar`, chosen at its launch from `Bars`: the YAML's
`gpu_budget_h` (`GpuBudget`) or what `launch --max-hours` was given (`MaxHours`).
The watchdog's `BudgetIters` is computed from `GpuBudget` alone, as in the script.
Instances whose self-destruct lacks credentials, and those whose destroy call may
fail, are chosen in the initial state.

Not in the model: the `PRE_RUN` hook's own rows (they are in PodRecords),
`KEEP_ALIVE` (unset), a `BUDGET_ITERS` given in the environment, two watchdogs on
one pod at once, and whatever `launch` refuses before it rents anything. What a
harvest does is one step here and PodRecords' subject.

### PodRecords

The way of a reading from a print on the instance to a row of a file that
`check` counts. The instance: `Boot` prints what `boot.sh` prints before the
entrypoint, `RunPoint` what one point of the tape prints, failing or not (per
axis: `TrialLines`, `KernelCheckLines`, `PplLines`, `LatencyLines`),
`RunTermed` stops between any two prints of a point; both ways out repeat the
record lines (`Repeats`). The operator's side: `BeginHarvest` takes what a fetch
may hold (`Fetches`: a tail of the log, or, as the watchdog accumulates its polls
in `<label>.raw`, the beginning an earlier poll had got, a gap where lines scrolled
out, and a tail), drops exact duplicates (`Texts`), stops on an incomplete `[pplw]` group and compares
every file; a refused harvest is a step only when forced. Then one action per
file in the order of the code, the manifest, `env.txt`, `pre_run.txt` last.
`HarvestKilled` falls between two writes or inside one, which leaves the file's
beginning, its last line perhaps in halves: a file `read_jsonl` raises on, so
that neither a harvest, forced or not, nor `check` gets past it. `Launch` writes
a fresh manifest over the old one, also while a harvest of the previous instance
is under way, and leaves the record files. `CheckPasses` is `check`, one
operator per rule.

A line carries what the properties tell apart: its kind, its point, its part
number, whether it reports a failure, and its launch. The launch is in the
code's rows as `source`. While a harvest is under way the instance prints
nothing in the model; the harvest holds its text and could not see it.

## 3. Runs

| run | specification, bounds | distinct states | shows |
|---|---|---|---|
| TierLengths | `FairSpec`, five arms, 11 tokens | 60,226 | mask, budgets, early loss, constant memory, termination |
| StreamLayer | `Spec`, four arms, 8 tokens, 2 levels | 36,492 | positions, retention, once-only absorption, fresh cache, implements TierLengths |
| OrthGuard | `Spec`, three arms, 3 absorbs a stream, 2 streams, batches of 1 and 2, levels 0, 1 and NaN | 1,744,221 | windows, once-only telling, verdicts |
| GistCarry | `Spec`, seven arms over the five trackers, 3 features, 2 layers, 4 tokens in blocks of 1 or 2 | 3,520,798 | one basis, the bill, a frozen basis |
| KernelScope | `Spec`, three caches, a batch of two, two layers, two scopes, forwards of 1 or 2 tokens, one fault | 1,295,660 | own middle, nothing kept, rows in step |
| EvalAxes | `SweepSpec`, all kinds of arm in sweeps of two, six axes, 4 to 6 tokens of context, one fault | 138,367 | bill, quantized store, answers, diagnostics |
| Gate1 | `GateSpec`, three families, two read together, ten trials a cell, two odd arms a family | 104,970 | verdicts, refusals, correction |
| ShadowLayer | `Spec`, three arms, 8 tokens | 26,956 | mask, key/value alignment, whole stream, fresh choices |
| PodWatch | `Spec`, two instances, each with the YAML's bar or a longer one, one kill | 5,514,505 | complete harvest, expiry after the bar, truthful ALL_DONE |
| PodBilling | `FairSpec`, one instance, two bars, two kinds of row, two kills | 92,026 | billing stops |
| PodRecords | `RecordsSpec`, four points, one per axis, two launches, two harvests, one kill, one failure a launch | 1,355,377 | whole harvests, one row a reading, a truthful `check`, a sufficient repeat |
| ResetDiag | as OrthGuard, expected to fail | | a statement of the repository that the code does not keep (section 6) |

### Why the bounds are enough

* *Tokens.* Budgets are 1 to 3 columns, so 8 to 11 tokens fill sinks, ring,
  exact, fp32 and quantized tier, evict out of the last of them, and go through
  a reset into a second stream. One forward may bring any number of tokens, so
  a single ingest chunk makes `consolidate` loop several times. A longer stream
  repeats the full-tier states with larger numbers.
* *Arms* are the repository's own configurations scaled down: fifo, surprise
  with an exact tier, with a quantized tier and seeded warm-up,
  select-and-discard (the invisible pool), rank 0; span boost and capped score
  in StreamLayer. The theorems of section 4 hold for all valid arms.
* *Levels.* Two levels of surprise give both an order and ties. The retention
  rules only compare scores.
* *Guard.* Three absorbs under `diag_every` 2 or 3 give a full window, an open
  one, and one that ends in an abort; the second stream shows what a reset
  leaves. Two levels and NaN put a reading at, above and beyond any comparison
  with the two tolerances. The arms are the shipped guard (alone and batched),
  measure-and-abort under `qr_every`, repair without abort, and one `__init__`
  refuses.
* *Gist.* Rank 2 of 3 features lets a basis seed, grow, be truncated, and
  fill up; four tokens in blocks fill both tiers, spill and drop, and leave a
  second absorb after a freeze at three with an older token demoted. A label
  of a basis is reused after three generations: an absorb changes a basis at
  most twice, so an older column never carries the current label. `Word = 8`
  instead of 32 makes a few 4-bit codes round like thousands do.
* *Kernel scopes.* One cache serves batched kernel steps, one runs without the
  kernel, one only opens scopes: what a scope does to a neighbour needs two,
  nesting two deep needs the third. One fault in any row of any layer, in a
  decode, a pre-fill or a consolidate. At these lengths an interrupted call has
  put no block into its middle when it raises; the theorems are about any number.
* *Sweeps.* Two arms give an arm after a failed, refused or skipped one. The
  residual and the group are three and contexts 4 to 6, so that a fold falls
  before, at and after the end of the prefill, with and without padding.
* *Gates.* Two families are what every rule counts to; a third, never read
  with both, is the outsider. At ten trials the McNemar p-values fall on both
  sides of the level, corrected and not. Two arms of a family deviate at once.
* *ShadowKV arms* have a proper choice (top-k below the number of chunks),
  chunks of one, and a budget that always covers every chunk.
* *Pods.* `GpuBudget`, `Grace`, `MaxBoot` = 1 to 2 polls keep the clocks short;
  only their order matters to the properties, `BudgetIters = GpuBudget + Grace + 1`
  (or the floor) as in the script. `MaxHours = {2}` is a bar that budget does not
  cover, which some instances are launched with and others not. PodWatch has one
  kind of row, a replayed one; PodBilling has `[diag]` rows too. Two instances are
  needed for a loop that goes on to the next line, for an append mid-run and for counting lines. One
  kill already falls between any two commands; liveness is asked for two. One
  of the two instances has credentials and one a failing destroy call in
  PodWatch; PodBilling takes all four combinations.
* *Records.* One point of every axis has every shape of line; the `[pplw]`
  group has two parts, so a tail can begin inside it. Two harvests are needed
  for a shorter one after a longer one, a repaired one after a killed one, and
  one of the second launch after one of the first. An earlier poll got the first
  six lines (`Polls`): past the hook's rows and, when nothing failed, into the
  `[pplw]` group.
* `CHECK_DEADLOCK FALSE` in the pod runs, where the scripts have stopped once
  every instance is gone and every label retired, and in the guard's, where
  the bounds on absorbs and streams end a behaviour, and in Gate1, which ends
  when the last pod has been read.

### Fairness

* TierLengths: `WF(Running)`. A call is single-threaded Python; once begun, it
  takes its next step. New calls are not fair.
* PodWatch: weak fairness of each instance leaving its stages (`boot.sh` is
  sequential and the run is under `timeout`), of time passing, of the running
  watchdog's next command, and of an operator who restarts a killed watchdog
  while a label is left, as the script's header intends. Nothing is assumed
  about launches, fetches, harvests or destroy calls succeeding. That booting
  ends within `MaxBoot <= Grace` polls is an assumption: the commands before
  the entrypoint are not under `timeout`, and `BUDGET_ITERS` leaves exactly
  the grace as slack for them.

## 4. Proofs

Each proof module EXTENDS the module it is about. A theorem holds for **every**
value of the constants that meets the assumptions in the last column, so for
any stream length, budget, number of layers, instances or caches. Nothing else
is assumed: each assumption is checked by TLC on the constants of the run.

| module | theorem | property | assumptions |
|---|---|---|---|
| TierLengthsProofs | `Inductive`, `TypeCorrect` | `IInv`, `TypeOK` (which includes every tier budget) | `ArmsAssumption` (each arm is one `__init__` accepts), `MaxTokensAssumption` |
| | `MaskCorrect` | `[]MaskAgrees` | |
| | `OffsetCorrect` | `[]OffsetInPast` | |
| | `HistoryKept` | `[]NothingLostEarly` | |
| | `MemoryBounded` | `ConstantMemory` | |
| StreamLayerProofs | `Inductive` | `IInv` | `MaxLevelAssumption` (there is a level of surprise), `RetentionAssumption`, `LengthsAssumption` (valid arms, as above) |
| | `NoTokenTwice` | `[]EachTokenOnce` | |
| | `RotatedTruly` | `[](FifoOnly => PositionsTrue)` | |
| | `CacheNeverStale` | `[]MidCacheFresh` | |
| | `BestRetained` | `[]RetainsBest` | |
| | `RefinesTierLengths` | `Lengths`: StreamLayer implements `TierLengths!Spec` | |
| | `LayerMask`, `LayerHistory`, `LayerMemory` | `TL!MaskAgrees`, `TL!NothingLostEarly`, `TL!ConstantMemory` of StreamLayer | |
| GistCarryProofs | `Inductive`, `TypeCorrect` | `IInv`, `TypeOK` | `ConstantsAssumption` (as `__init__` and `TRACKERS` have it) |
| | `BasisOfEveryColumn` | `[]OneBasis` | |
| | `FrozenBasisStill` | `FrozenStill` | |
| | `LayersInStep` | `Lockstep` | |
| | `BillIsWhole` | `[]BilledIsStored` | |
| OrthGuardProofs | `Inductive`, `TypeCorrect` | `IInv`, `TypeOK` | `BoundsAssumption`, `ArmsAssumption` (tolerances are numbers or absent) |
| | `WindowCorrect` | `[]WindowTruthful` | |
| | `GuardCorrect` | `FailsIffBeyondRepair` | |
| | `RowsInductive` | `RowsInv` | |
| | `AbsorbsTold` | `[]AbsorbsToldOnce` | |
| EvalProofs | `Inductive` | `IInv` | `ConstantsAssumption` (shapes of the constants) |
| | `OwnMiddleAttended` | `[]OwnMiddle` | |
| | `NothingLeftBehind` | `[]NothingKeptAlive` | |
| | `RowsStayInStep` | `[]RowsInStep` | |
| | `SweepInductive` | `SweepInv` | `SweepAssumption` (the arms are of the kinds the drivers know; a context is longer than what a press keeps and at least a residual long) |
| | `FootprintIsThePrefills` | `[]BilledState` | |
| | `TokensHeldOnce` | `[]EachTokenHeldOnce` | |
| | `ArmsAllAnswer` | `[]EveryArmAnswers` | |
| | `RowsDrainedOnce` | `[]DrainedOnce` | |
| ShadowLayerProofs | `Inductive`, `TypeCorrect` | `IInv`, `TypeOK` | `ArmsAssumption` (window, chunk and top-k positive), `BoundAssumption` |
| | `MaskCorrect` | `[]MaskAgrees` | |
| | `GatherAligned` | `[]KeysMatchValues` | |
| | `SelectionFresh` | `[]HookedForwardsFresh` | |
| | `NothingEvicted` | `[]WholeStreamHeld` | |
| PodProofs | `Inductive`, `TypeCorrect` | `IInv`, `TypeOK` | `TimesAssumption` (`MaxBoot <= Grace`: section 3), `RowsAssumption` (the replay repeats kinds of row that are printed), `InstancesAssumption` |
| | `HarvestsAreComplete` | `HarvestComplete` | |
| | `ExpiryIsAfterBar` | `ExpiryAfterBar` | |
| | `AllDoneMeansAll` | `AllDoneIsTrue` | |
| | `RecordsInductive` | `RecordsInv` | `TapeAssumption` (a tape is a list of axes; a group has parts) |
| | `HarvestIsWhole` | `[]HarvestWhole` | |
| | `RecordsOnce` | `[]RecordOnce` | |
| | `ChecksTellTheTruth` | `[]CheckTruthful` | |
| | `RepeatIsEnough` | `[]ReplayIsEnough` | |
| | `GateTypeCorrect` | `GateTypeOK` | `GateAssumption` (finitely many families and tasks, two registered, up to ten pairs of trials) |
| | `HolmIsClosure` | `[]HolmIsClosed` | |
| | `BranchesExclusive` | `[]Exclusive` | |
| | `Bf16RestsOnBoth` | `[]Bf16OnBoth` | |
| | `OutsidersAreOutside` | `[]OutsidersLeaveNoTrace` | |

`IndexOrderProofs` has no theorem of its own. It is the lemmas on index tensors
the others cite: what `Ascending` of a set of indices is (each index once, in
order), that gathering by two halves of a split loses and repeats nothing, how
runs of positions concatenate and slice, and what a stable argsort leaves.

Each proof of an `Inductive` theorem is laid out alike: `Init => IInv`; one
lemma per action, or per action and conjunct of `IInv` it disturbs; a lemma that
joins them; the properties from `IInv`. Most of the lemmas before them are about
one operator of the model. The invariants of TierLengths and StreamLayer stand
in those modules, beside the properties (in StreamLayer with `RetainInv`); the
others open their proof module, and those of a further part of it (`Lockstep`,
`RowsInv`, `SweepInv`, `RecordsInv`) stand before that part. TLC evaluated each on the
bounds of section 3 before it was proved; no run repeats it.

### TierLengths

`MaskAgrees` speaks of the end of a forward and says nothing of its middle, so
it is not inductive. What carries it is `PredictionInv`: the predicted loop
and the real loop walk in step. Let `Due` be the number of columns the real
loop has still to graduate before its ring is as short as the predicted one.
Then `Due` is a whole number of absorb blocks, and `Predicts(Due)` holds: the
predicted middle and the predicted pool are what graduating `Due` more columns
makes of the tiers as they are. A predicted iteration raises `Due` by a block,
a real one lowers it by a block, and each preserves `Predicts`; the lemmas on
nested minima say that absorbing `a` columns and then `b` is absorbing
`a + b`, with one, two or three tiers. When both rings are below the threshold
and their difference is a multiple of a block, it is zero, and the prediction
is the length. `HistoryInv` says why nothing is lost early (the quantized tier
holds only what a full fp32 tier spilled), `PhaseInv` which tiers are empty
when.

### StreamLayer

`EachTokenOnce` does not know which token graduates next, so it says nothing of
a step. `Boundary` is where the ring begins (during a pre-fill, where the tokens
left to absorb begin), and three conjuncts hang on it. `RingInv`: sinks and ring
are the runs of tokens at both ends, so a graduating block is the run from
`Boundary` on, whatever path it took. `Covered(Boundary)`: what the tail was
ever given and what the exact tier holds are, each once, the tokens between the
sinks and `Boundary`. `RunEndsAt(Boundary)`: a fifo middle without an exact tier
is the contiguous run that ends there, which is why rotating it to one is
right. An absorb then splits tiers without loss or repetition (`PickSplit`: the
columns picked and the rest, in order, are the columns), moves `Boundary` by
the block, and restores all three. `TailInv` keeps columns, positions and
surprises aligned and within budget. `EmptyInv` and `PhaseInv` say which tiers
are empty when; `MidCacheFresh` is its own invariant once a graduation, the one
step that moves the middle, is known to drop the cache.

`RotatedTruly` leaves out one kind of arm, fifo behind an exact tier: there the
code is wrong (section 6), `PositionsTrue` is false, and nothing is claimed.

`BestRetained` is about a sequence of greedy evictions. Each absorb drops the
least surprising of what one tier and a block hold; why is the result the best
of all tokens ever seen, with ties broken as one argsort over the whole history
would? `RetainInv` names every stored column by its index in the history of
absorbed columns, in order among columns of equal score, and says that the
fp32 tier names `Top(coord_budget)` of the history and the quantized tier
`Top(coord_budget + quant_budget)` without it. Two lemmas on a stable argsort
carry it over an absorb: the top `n` of a top `n` and some newcomers is the
top `n` of everything (`TopOfTop`), and the same for what the first tier spills
into the second (`TopOfRest`). Names are needed because equal columns are told
apart by age only; that a gather keeps stored order is what makes the local
tie-break the global one.

`RefinesTierLengths` maps each action to the TierLengths action of the same
name, under the mapping that forgets which token a column holds; each step has
a length lemma. What is proved of TierLengths thereby holds of the layer that
stores tokens. `LayerMask`, `LayerHistory` and `LayerMemory` draw that
conclusion inside the prover, from the theorems of TierLengthsProofs under the
same mapping.

### GistCarry

`OneBasis` at the end of an absorb needs to be known of every layer at every
moment. `Current` says it: in each layer all columns and all codes are in the
basis held, save in the one layer whose V step has just raised. A tracker
step and its carry are one action, as in `_absorb_columns`, so there is no other
exception. `FrozenStill` follows from `FrontierAhead` (no token
absorbed is newer than what the layer counts as seen): a demoted block may be
older than the threshold, but the step reads the frontier, which never dips.

`BilledIsStored` compares a bill that reads the first layer's lengths with what
every layer stores, so the layers must hold equally many columns although each
chooses for itself which tokens leave its exact tier. `Lockstep` says how they
do: a round starts with the same counts in every layer, what leaves is a number
that depends on the arm and those counts only (`Leave`), and the layers before
the one at work hold what the round makes of the counts (`Coordinates`,
`Codes`). What graduates is new to every exact tier, so that the pool has as
many tokens as both together. A store is rounded back to `gist_dtype` except
during its own absorb.

With `Current`, each layer's columns then have the widths of its basis
(`Uniform`), and both sides of the bill are sums over the layers. A fold over a
set takes its elements in the order CHOOSE gives: `SumExists` shows that the
recursion has a solution, `SumSplits` that any element may be taken off first,
and `LinearSum`, over `1 .. n`, that the sum of a linear form is the form of the
sums; all three argue from a least counterexample. What remains is rounding
(`RoundingBounds`): each layer's words exceed its bits by less than a word, the
mean's words times the layers by less than a word a layer, so the two differ by
less than a word a layer. Where all layers track one rank the mean is each
(`RoundingExact`).

### OrthGuard

`Counted` ties the open window to its history: as many rows as samples, no more
than the absorbs since the last flush, and one of them is the absorb under way.
`AllTruthful` is the property for every layer at every step, not at flushes
only. For `GuardCorrect`, `Unmarked` and `Untouched` say that the absorb under
way is marked repaired exactly from `Repair` on and that what reaches `Settle`
without a mark was within the repair tolerance.

`AbsorbsToldOnce` is about all rows of all streams together, which are handed
out at drains nobody aligns with the windows. `RowsInv` says it layer by layer,
at every moment: `EachTold`, what was handed out followed by what a layer still
holds tells of the absorbs before its open window, each once; `OwnRows`, a list
holds only rows of its own layer for the stream under way, and only the layer
itself, not its row layers, keeps rows of an earlier one. Telling of `1 .. k` once
is covering it (`Covers`) with rows that overlap nowhere (`Apart`), and both add
up over a concatenation. A drain concatenates the lists of all layers at once,
and for one layer and stream all but one of them are silent: `FlattenSays`
concludes that the whole says what that one says. `FlattenSeq` is a recursive
function, so it is first shown that there is one (`JoinExists`); then the claim
is refuted at the shortest prefix where it fails. Such least counterexamples
take the place of an induction wherever a fold has to be unfolded.

### KernelScope

`Scoped` reads the stack of scopes: each open scope saved the implementation
that the scopes under it amount to, so closing one restores it, in any nesting
and after a raise. `Handed` is `OwnMiddle` before the attention call: what
the update has just returned or handed over is the middle of the rows. `Stepwise`
gives each cache that no forward left midway one triple of counts: the layers its
forward has not reached have those counts in every row, the others what one
update makes of them. `Together` (modes, and no row
empty beside a filled one) is what the rows' own branches need to agree; of a
layer (`Level`) it may fail only after a pre-fill that raised, in a cache that is
in `torn`, and `Handed` is claimed of the others. That the ring and the middle of
a row add up through any number of absorbed blocks, also those an interrupted call
got through, is `RecentFacts`, `InterruptedTyped` and `UpdateInterruptedTyped`.

### EvalAxes

Every property here is about a moment (the bill, the end of a sample, a drain),
and the invariant has one conjunct per stretch of a sample. `Prefilled`: until
the prefill ends a cache holds what it was fed, in one forward unless its arm
takes chunks. `Decoded`: from then on it holds what survived the prefill
(`Dropped`, by arm) followed by what was fed since, in order, in the codes and the
fp16 residual together, whichever forward folded or flushed. `Footprinted`: what
was billed is the survivors of the prefill, also while later tokens come in.
`Emitting`: what was produced in samples that are over has been emitted, what was
produced in the sample under way is exactly what its cache holds, and none of that
has been emitted; so a drain at the end of the sample closes the gap, on the
success path and on the failure path alike. `EveryArmAnswers` is
part of `SweepInv`, and the rest is stated per kind of arm because of it: that no
forward is refused (`NoRefusal`) takes that a streaming cache scores or ingests
when a block comes, that a ShadowKV decode is hooked, and that no block goes to
layers a press left of different lengths.

### ShadowLayer

`Stored` says that sinks, chunks and ring are one run, and the values another of
the same length: `WholeStreamHeld` and `KeysMatchValues` are arithmetic on
offsets from there. `Promised` carries the mask from `get_mask_sizes` past the
hook to `update`: the promised length depends on the number of chunks chosen, not
on which, and no step between changes that number. `Planned`: inside `attach` no
decode is reached without the hook.

### PodWatch

`Ages` bounds every stage of an instance, `Clock` relates the polls made to
the ages: a listed instance that still boots is at least as old as the polls
slept, one that runs is at most `MaxBoot` younger. The budget exceeds the sum for
every bar the YAML's budget or the floor covers, so a poll loop that expires finds
no such instance in either stage (`BudgetCoversStages`); for a longer bar
(`Outbid`) the sum is too large, and `ExpiryAfterBar` excepts it. `Listing` keeps
`pods.txt` and `done.txt` free of duplicates and the second within the first:
equal counts then are equal sets (a pigeonhole on finite sets). `Fetched`: a
full fetch that saw ALL_DONE saw the repeat of all rows of the kinds in `Replayed`,
and the instance prints no more, so what was complete stays complete up to the
harvest.

### PodRecords

A file can be stale, cut, or of another launch, so nothing can be said of it at
an arbitrary moment. `RecordsInv` says it of the two texts that matter instead.
`Printed`: every line of the log agrees with what became of the point it reports,
and once the repeat has begun, the lines from there on are every line of the
log that is repeated. `Harvesting`: in a harvest that overrides no refusal,
every file is either still to be written or already exactly what the text at
hand says (`Pending` or `Fresh`); a file that would neither be written nor agree is
one the comparison has refused. `Settled` is what remains when it ends. The
properties are then about one text: `RecordOnce` because dropping duplicates
leaves a text injective and each reading prints one line, `CheckTruthful`
because every rule of `check` asks for a line which only a measured point prints,
`ReplayIsEnough` because every line a harvest picks is one that is repeated.

### Gate1

The properties are of one state, a set of records; what needs an argument is
arithmetic on families of p-values. `HolmIsClosure`: Holm's adjusted value of `x`
is the maximum of `(m - rank) p` over the members up to `x`, so it is low exactly
when each of these is. For the member `y` the factor is the size of
`NoSmaller(S, y)`, the members with at least its p. If some product is not low,
that set is one that contains `x` and that Bonferroni accepts. If all are, any
subset containing `x` has a smallest member `y`, at most `x`, and lies within
`NoSmaller(S, y)`, so Bonferroni rejects it. `OutsidersAreOutside` compares the
verdict of all records with that of fewer: `SamePod` (what is read of a family is
unchanged), `SameContrasts` (so are its corrected contrasts), `SameReadings`
joins them, and each operator of the verdict is shown to look at no more than
these. `BranchesExclusive`: a separated family is a blocked one
(`SeparatedIsBlocked`), so A/B and C exclude each other.

### What the proofs found

Splitting `Next` into cases needs the alternatives of a definition to be read
one by one. Two definitions had CASE arms that overlapped (in EvalAxes and
KernelScope), where the code has `if` and `elif`; TLC takes the first true arm
and never said so. Both are now exclusive. `PositionsTrue` could not be proved
for fifo behind an exact tier, for the reason section 6 gives.

### Only model-checked

* *Liveness*: `CallsReturn`, `BillingStops`. Fairness and ENABLED are beyond
  the prover.

Every invariant and every safety property of the passing runs is a theorem.

## 5. Not modelled, and why

* *Numerics*: the SVDs inside the trackers and their fall-backs, kernels,
  quantizers, test statistics, the bootstrap. Real matrices.
* *`kernel_compare`*, the block sizes of the Triton kernel, prompts, the scoring
  of generated text, timings.
* *Workspace and bytes on disk*: `workspace_numel`, `shadow_footprint` and the
  other closed forms of `accounting.py` have no state to disagree with.
* *`launch`'s refusals, `prepare`, hashes and pins* of the pod scripts; a second
  watchdog on one pod; the credit floor's lost harvests, which are by design.
* *Layers*: a cache's layers share nothing but the mode; one stands for all,
  except in GistCarry and KernelScope, where the bill and the backend join them.
* *Configuration, tables, figures*: loading and reporting.

## 6. Where code and text disagree

**ResetDiag** is a run of its own, expected to be violated (`bug_cache.py`,
`reset`). Diagnostics are "not cleared by `reset()`: a drained-once contract
must not lose a finished stream's measurements". The open window of a batch-1
layer is zeroed unflushed; those of row layers are flushed.

The others were met while modelling and have no run.

* `_mid_positions` (`bug_cache.py:1501`). `retention="fifo"` with
  `hh_budget > 0` is accepted. Fifo layers store no positions and rotate the
  middle to a contiguous run, but behind an exact tier the middle holds what
  that tier demoted, which is neither contiguous nor ordered. StreamLayer with
  such an arm violates `PositionsTrue`.
* `_selected_chunks` (`shadow_cache.py:219`). A forward without hook "raises
  whenever the selection actually matters"; after a hooked step it attends that
  step's chunks, because nothing clears `_selected` when the hooks go.
* `watchdog.sh:5`. An instance may be appended mid-run, "no restart needed";
  polls are counted from the watchdog's start, so a late one is destroyed
  before its bar. `ExpiryAfterBar` excepts those.
* `watchdog.sh:20` and `:39`. The budget is "the pod's own bar (gpu_budget_h, the
  `timeout` boot.sh enforces)" plus the grace, because a watchdog "that expires
  before the pod's own bar destroys a healthy run". The bar `boot.sh` enforces is
  `MAX_HOURS`, which `launch --max-hours` sets for an instance (`pod.py:299`,
  `:1045`), while `watchdog.sh:41` reads the YAML's `gpu_budget_h` only. Launched
  with `--max-hours 60` for a YAML of 10 h, an instance is expired at the floor of
  600 polls, after 25 h, running and listed. `ExpiryAfterBar` excepts instances whose
  bar neither the YAML's budget nor the floor covers (`Outbid`), and no others;
  without the exception PodWatch violates it.
* `watchdog.sh:9`. `done.txt` holds "labels already harvested+destroyed"; the
  label is written before the harvest, and whatever the destroy call returned.
* `frontier.py:374`. The mean rank is said to be "exactly the mean of the
  per-layer `stored_state_numel()`". With a floor *and* codes it is so up to the
  rounding of the code words: each layer rounds its own codes up, the bill
  rounds those of the mean rank. `BilledIsStored` states both cases. No shipped
  arm has both.
* `_rotate_quant_tier` (`bug_cache.py:1290`). An identity rotation "would still
  dequantize and re-code the tier, i.e. spend a re-coding event on nothing",
  which is why the guard passes `None`. `frozen_step` and `random_step` return
  an identity, and `_absorb_columns` passes it on: with `quant_bits` such an arm
  would re-code its tier at every absorb. No shipped arm has both.
* The comment on the exact tier's selection (`bug_cache.py:791`) says "ties fall
  back to recency"; a stable descending argsort keeps the oldest, and so does
  the model.
* `parse_error_lines` is "how a harvest of the log agrees with the run that
  wrote it": two prompts of one kernel check that fail with the same message
  print the same `[error]` line, which the harvest's dedupe counts once and the
  run twice. `check` fails either way.
* The pre-registration says an error on a secondary arm removes that arm's
  secondary members and nothing else. It also shrinks the secondary Holm
  family, and with it the adjusted p of `fd`, which outcome C reads.

## 7. Plan

Done: the ten modules, and the proofs of section 4 for all of them. Of the code,
`scripts/tables.py` (reporting), `launch`'s refusals and the loading of
configurations have rules worth stating, but no behaviour over time.

## 8. Running

```
tlc -workers 2 -config StreamLayer.cfg MCStreamLayer
tlapm TierLengthsProofs.tla
tlapm StreamLayerProofs.tla
```

A definition whose comment begins with "Mutant:" is a plausible wrong version
of the definition below it. `PROJECT.json` pairs each with the property that
tells them apart; no specification uses them.
