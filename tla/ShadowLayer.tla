---------------------------- MODULE ShadowLayer ----------------------------
(***************************************************************************)
(* One ShadowKVLayer (cache/shadow_cache.py) under its pre-attention hook. *)
(* A forward is three calls in this order: get_mask_sizes, the hook (when  *)
(* attach() or frozen_scoring() has registered it), which scores the query *)
(* against the chunk landmarks and stashes the chosen chunks, and update,  *)
(* which attends [sink | chosen chunks | recent].                          *)
(*                                                                         *)
(* A token is its true position.  The landmark scores are abstracted: the  *)
(* hook may choose any k_eff chunks.  One KV head stands for all of them:  *)
(* heads choose independently and never meet.                              *)
(***************************************************************************)
EXTENDS Integers, Sequences, FiniteSets, IndexOrder

CONSTANTS Arms,      \* constructor arguments: n_sink, recent_window, chunk, top_k
          MaxTokens  \* bound on the tokens one stream is given

ASSUME ArmsAssumption ==
  \A a \in Arms : /\ a.n_sink \in Nat
                  /\ a.recent_window \in Nat \ {0}
                  /\ a.chunk \in Nat \ {0}
                  /\ a.top_k \in Nat \ {0}
ASSUME BoundAssumption == MaxTokens \in Nat

VARIABLES
  arm,
  mode,               \* _mode: "normal", "score", "ingest"
  attached,           \* inside attach(): its hooks are registered
  pc,                 \* which call of a forward comes next
  query_length,
  kv_length,          \* what get_mask_sizes reported
  planned,            \* history: the hook ran in this forward
  cumulative_length,
  n_sink, n_chunks,
  sink, recent,       \* sink_k, recent_k: tokens
  middle,             \* mid_coeff: the token of every low-rank key
  value_cpu,          \* the token of every offloaded value
  selected,           \* _selected: chunk ids
  result              \* what update() did, and with which choice of chunks

store == <<cumulative_length, n_sink, n_chunks, sink, recent, middle, value_cpu>>
vars == <<arm, mode, attached, pc, query_length, kv_length, planned, store,
          selected, result>>

Lesser(a, b) == IF a <= b THEN a ELSE b
NoChunks == {-1}     \* _selected is None

k_eff == Lesser(arm.top_k, n_chunks)
n_selected == k_eff * arm.chunk

(* Mutant: the mask reports the whole middle, not the selected chunks.     *)
attended_length_whole == n_sink + Len(middle) + Len(recent)

attended_length == n_sink + n_selected + Len(recent)

(* attach() and frozen_scoring() register the same pre-forward hook.       *)
Hooked == attached \/ mode = "score"

Window == Arange(cumulative_length, query_length)

Nothing == [outcome |-> "none", keys |-> <<>>, values |-> <<>>,
            fresh |-> TRUE, hooked |-> TRUE]

Init ==
  /\ arm \in Arms
  /\ mode = "normal" /\ attached = FALSE
  /\ pc = "idle" /\ query_length = 0 /\ kv_length = 0 /\ planned = FALSE
  /\ cumulative_length = 0 /\ n_sink = 0 /\ n_chunks = 0
  /\ sink = <<>> /\ recent = <<>> /\ middle = <<>> /\ value_cpu = <<>>
  /\ selected = NoChunks
  /\ result = Nothing

-----------------------------------------------------------------------------
GetMaskSizes(n) ==
  /\ pc = "idle"
  /\ cumulative_length + n <= MaxTokens
  /\ query_length' = n
  /\ kv_length' = IF mode # "score" /\ cumulative_length = 0
                    THEN n ELSE attended_length + n
  /\ planned' = FALSE
  /\ pc' = "hook"
  /\ UNCHANGED <<arm, mode, attached, store, selected, result>>

(* Mutant: the hook leaves a selection alone that is already there.        *)
PlanSelectionOnce ==
  /\ pc = "hook"
  /\ pc' = "update"
  /\ IF Hooked /\ cumulative_length > 0 /\ selected = NoChunks
       THEN /\ \E S \in SUBSET (0..n_chunks-1) :
                 Cardinality(S) = k_eff /\ selected' = S
            /\ planned' = TRUE
       ELSE UNCHANGED <<selected, planned>>
  /\ UNCHANGED <<arm, mode, attached, query_length, kv_length, store, result>>

(* The hook: the top-k chunks of this query, in chronological order.  It   *)
(* does nothing before a pre-fill, and nothing at all when unregistered.   *)
PlanSelection ==
  /\ pc = "hook"
  /\ pc' = "update"
  /\ IF Hooked /\ cumulative_length > 0
       THEN /\ \E S \in SUBSET (0..n_chunks-1) :
                 Cardinality(S) = k_eff /\ selected' = S
            /\ planned' = TRUE
       ELSE UNCHANGED <<selected, planned>>
  /\ UNCHANGED <<arm, mode, attached, query_length, kv_length, store, result>>

-----------------------------------------------------------------------------
(* _selected_chunks: the stash when its width fits, every chunk when there *)
(* is nothing to choose, otherwise an error.                               *)
Refused == /\ n_selected > 0
           /\ selected = NoChunks \/ Cardinality(selected) # k_eff
           /\ k_eff < n_chunks
Chosen == IF selected # NoChunks /\ Cardinality(selected) = k_eff
            THEN selected ELSE 0..n_chunks-1

(* The index of every reconstructed key in the middle, chunk by chunk.     *)
ChosenIndices ==
  LET order == Ascending(Chosen)
  IN [i \in 1..n_selected |->
        order[((i - 1) \div arm.chunk) + 1] * arm.chunk + ((i - 1) % arm.chunk)]

(* Mutant: values are fetched by middle index, without the sink offset.    *)
ChosenValuesUnshifted(vals) ==
  [i \in 1..n_selected |-> vals[ChosenIndices[i] + 1]]

(* The value of a reconstructed key is fetched by its position.            *)
ChosenValues(vals) ==
  [i \in 1..n_selected |-> vals[ChosenIndices[i] + n_sink + 1]]

(* _assemble over the ring and the value store as the caller left them.    *)
Keys(ring) == sink \o [i \in 1..n_selected |-> middle[ChosenIndices[i] + 1]] \o ring
Values(ring, vals) ==
  SubSeq(vals, 1, n_sink) \o ChosenValues(vals)
    \o SubSeq(vals, Len(vals) - Len(ring) + 1, Len(vals))

Answer(outcome, keys, values) ==
  result' = [outcome |-> outcome, keys |-> keys, values |-> values,
             fresh |-> planned \/ outcome = "prefill" \/ k_eff = n_chunks,
             hooked |-> Hooked]
ForwardEnds ==
  /\ pc' = "idle"
  /\ query_length' = 0
  /\ planned' = FALSE
  /\ UNCHANGED <<arm, mode, attached, kv_length, selected>>

(* Mutant: the remainder that fills no chunk is not folded into the ring.  *)
MidLenUntrimmed(t, s) == t - s - arm.recent_window

(* The middle, trimmed to whole chunks; what is left over joins the ring.  *)
MidLen(t, s) == ((t - s - arm.recent_window) \div arm.chunk) * arm.chunk

Prefill ==
  /\ pc = "update"
  /\ cumulative_length = 0
  /\ LET t == query_length
         s == Lesser(arm.n_sink, t)
         m == IF t - s - arm.recent_window <= 0 THEN 0 ELSE MidLen(t, s)
     IN /\ n_sink' = s
        /\ n_chunks' = m \div arm.chunk
        /\ sink' = SubSeq(Window, 1, s)
        /\ middle' = SubSeq(Window, s + 1, s + (m \div arm.chunk) * arm.chunk)
        /\ recent' = SubSeq(Window, s + m + 1, t)
  /\ value_cpu' = Window
  /\ cumulative_length' = query_length
  /\ Answer("prefill", Window, Window)
  /\ ForwardEnds

(* The token joins the ring and the value store before the selection is    *)
(* looked up: a refused step has stored its token all the same.            *)
DecodeStep ==
  /\ pc = "update"
  /\ cumulative_length > 0 /\ mode = "normal" /\ query_length = 1
  /\ recent' = recent \o Window
  /\ value_cpu' = value_cpu \o Window
  /\ cumulative_length' = cumulative_length + 1
  /\ IF Refused THEN Answer("raised", <<>>, <<>>)
                ELSE Answer("decode", Keys(recent'), Values(recent', value_cpu'))
  /\ ForwardEnds
  /\ UNCHANGED <<n_sink, n_chunks, sink, middle>>

ScoreForward ==
  /\ pc = "update"
  /\ cumulative_length > 0 /\ mode = "score"
  /\ IF Refused THEN Answer("raised", <<>>, <<>>)
                ELSE Answer("score", Keys(recent) \o Window,
                            Values(recent, value_cpu) \o Window)
  /\ ForwardEnds
  /\ UNCHANGED store

(* A second ingest chunk and a continued pre-fill raise before any change. *)
UpdateRejected ==
  /\ pc = "update"
  /\ cumulative_length > 0
  /\ mode = "ingest" \/ (mode = "normal" /\ query_length # 1)
  /\ Answer("raised", <<>>, <<>>)
  /\ ForwardEnds
  /\ UNCHANGED store

-----------------------------------------------------------------------------
(* The context managers.                                                   *)
Attach ==
  /\ pc = "idle"
  /\ attached' = ~attached
  /\ UNCHANGED <<arm, mode, pc, query_length, kv_length, planned, store,
                 selected, result>>

SetMode(m) ==
  /\ pc = "idle"
  /\ mode # m /\ (mode = "normal" \/ m = "normal")
  /\ mode' = m
  /\ UNCHANGED <<arm, attached, pc, query_length, kv_length, planned, store,
                 selected, result>>

DropSelection == selected' = NoChunks

Reset ==
  /\ pc = "idle"
  /\ cumulative_length > 0
  /\ cumulative_length' = 0 /\ n_sink' = 0 /\ n_chunks' = 0
  /\ sink' = <<>> /\ recent' = <<>> /\ middle' = <<>> /\ value_cpu' = <<>>
  /\ DropSelection
  /\ result' = Nothing
  /\ UNCHANGED <<arm, mode, attached, pc, query_length, kv_length, planned>>

Next ==
  \/ \E n \in 1..MaxTokens : GetMaskSizes(n)
  \/ PlanSelection
  \/ Prefill \/ DecodeStep \/ ScoreForward \/ UpdateRejected
  \/ Attach
  \/ \E m \in {"normal", "score", "ingest"} : SetMode(m)
  \/ Reset

Spec == Init /\ [][Next]_vars

-----------------------------------------------------------------------------
(* Every variable keeps its shape; the stores have one entry per token and *)
(* a stashed selection names only chunks that exist.                       *)
TypeOK ==
  /\ arm \in Arms
  /\ mode \in {"normal", "score", "ingest"}
  /\ attached \in BOOLEAN /\ planned \in BOOLEAN
  /\ pc \in {"idle", "hook", "update"}
  /\ cumulative_length \in 0..MaxTokens /\ query_length \in 0..MaxTokens
  /\ Len(sink) = n_sink /\ n_sink <= arm.n_sink
  /\ Len(middle) = n_chunks * arm.chunk
  /\ Len(value_cpu) = cumulative_length
  /\ selected = NoChunks \/ selected \subseteq 0..n_chunks-1
  /\ result.outcome \in {"none", "prefill", "decode", "score", "raised"}

(* The reported mask length is the number of keys attended, although it is *)
(* reported before the hook has chosen anything.                           *)
MaskAgrees ==
  pc = "idle" /\ result.outcome \in {"prefill", "decode", "score"} =>
    Len(result.keys) = kv_length /\ Len(result.values) = kv_length

(* Keys come from three places and values from another store, indexed by   *)
(* position: slot by slot they belong to the same token, in chronological  *)
(* order, each token at most once.                                         *)
KeysMatchValues ==
  /\ result.keys = result.values
  /\ \A i, j \in DOMAIN result.keys : i < j => result.keys[i] < result.keys[j]

(* Nothing is ever evicted: sinks, chunks and ring partition the stream.   *)
WholeStreamHeld == sink \o middle \o recent = Arange(0, cumulative_length)

(* A decode or scoring forward under a registered hook attends the chunks  *)
(* its own query chose, never those of an earlier step or stream.          *)
HookedForwardsFresh ==
  result.outcome \in {"decode", "score"} /\ result.hooked => result.fresh
=============================================================================
