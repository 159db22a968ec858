----------------------------- MODULE KernelScope -----------------------------
(***************************************************************************)
(* The factored-attention glue (kernel/attention.py) around the layers of  *)
(* several caches that share one model, at any batch size.                 *)
(*                                                                         *)
(* The attention function is registered under one name for the whole       *)
(* process and bound to one cache; a forward of any cache looks it up by   *)
(* that name.  A layer's `update` hands it the middle through two          *)
(* attributes, which the next `update` clears.  So what a decode step      *)
(* attends depends on which scopes are open, on which were closed, and on  *)
(* the last call of whichever cache is bound.                              *)
(*                                                                         *)
(* Abstracted: a row's tokens are three counts (seen, in the ring, in the  *)
(* low-rank middle); sinks and the exact tier travel with the ring.  The   *)
(* live rank is chosen at each absorb (min_sv_frac), within a set.         *)
(***************************************************************************)
EXTENDS Naturals, Sequences, FiniteSets, SequencesExt

CONSTANTS
    Caches,         \* caches that run over the one model
    Kernel,         \* those with decode_attention = "kernel"
    Batch,          \* [Caches -> rows of its one batch]
    NumLayers,      \* decoder layers
    RecentWindow,   \* recent_window
    AbsorbBlock,    \* absorb_block
    Ranks,          \* live ranks an absorb may leave
    TritonRanks,    \* those the Triton kernel accepts (a power of two >= 16)
    MaxTokens,      \* bound: [Caches -> tokens one stream sees]
    MaxScopes,      \* bound: scopes open at once
    MaxForward,     \* bound: tokens of one forward
    MaxFaults       \* bound: calls that raise in the middle of an absorb

ASSUME ConstantsAssumption ==
    /\ Kernel \subseteq Caches
    /\ Batch \in [Caches -> Nat \ {0}]
    /\ NumLayers \in Nat \ {0}
    /\ RecentWindow \in Nat /\ AbsorbBlock \in Nat \ {0}
    /\ TritonRanks \subseteq Ranks /\ Ranks \subseteq Nat \ {0}
    /\ MaxTokens \in [Caches -> Nat] /\ MaxScopes \in Nat /\ MaxFaults \in Nat
    /\ MaxForward \in Nat \ {0}

VARIABLES
    impl,       \* model.config._attn_implementation
    bound,      \* the cache bound under KERNEL_ATTN, or Unbound
    scopes,     \* open attach scopes, the innermost last
    mode,       \* [Caches -> _mode of the parent layers]
    rows,       \* [Caches -> [layer -> its row layers, the layer itself at batch 1]]
    backend,    \* [Caches -> kernel_backend]
    forward,    \* the forward under way
    faults,     \* how many calls have raised in an absorb
    failed,     \* history: caches with a forward or consolidate that raised, since reset
    torn,       \* history: those of them whose prefill raised
    attended    \* history: how an attention call in this very step saw the middles

vars == <<impl, bound, scopes, mode, rows, backend, forward, faults, failed, torn,
          attended>>
scopeVars == <<impl, bound, scopes>>

Layers == 1 .. NumLayers
Modes == {"normal", "ingest", "score"}
Unbound == "unbound"
NoBackend == "none"
Idle == [by |-> Unbound, q |-> 0, layer |-> 0, out |-> <<>>]

------------------------------------------------------------------------------
(* One row layer. *)

NoMiddle == [cols |-> 0, rank |-> 0]

FreshRow(m) == [mode |-> m, len |-> 0, ring |-> 0, mid |-> 0, rank |-> 0,
                step |-> FALSE, kmid |-> NoMiddle]

\* `while self._recent_len() >= self.recent_window + self.absorb_block`: the
\* blocks that leave the ring, with the rank the last absorb leaves.
Blocks(row) == IF row.ring < RecentWindow + AbsorbBlock
               THEN 0 ELSE (row.ring - RecentWindow) \div AbsorbBlock

Graduate(row, rank) ==
    [row EXCEPT !.ring = @ - Blocks(row) * AbsorbBlock,
                !.mid = @ + Blocks(row) * AbsorbBlock,
                !.rank = IF Blocks(row) = 0 THEN @ ELSE rank]

\* The basis has moved and the block has left the ring when an absorb raises;
\* `k` blocks were in the middle by then (a rank without a middle says nothing).
Interrupted(row, k, rank) ==
    [row EXCEPT !.ring = @ - (k + 1) * AbsorbBlock, !.mid = @ + k * AbsorbBlock,
                !.rank = IF row.mid + k = 0 THEN @ ELSE rank]

\* The tokens a prefill of q leaves in the ring; the others are absorbed over
\* whatever the middle holds (an interrupted prefill's leavings).
Recent(q) == IF q < RecentWindow THEN q ELSE RecentWindow

Prefill(row, q, rank) ==
    [row EXCEPT !.len = q, !.ring = Recent(q), !.mid = @ + q - Recent(q),
                !.rank = IF q = Recent(q) THEN @ ELSE rank]

\* The length is set last: a prefill that raised is prefilled again.
InterruptedPrefill(row, q, k, rank) ==
    [row EXCEPT !.ring = Recent(q), !.mid = @ + k,
                !.rank = IF row.mid + k = 0 THEN @ ELSE rank]

\* A kernel cache keeps the middle of this very step for the attention function.
Fed(row) == [row EXCEPT !.len = @ + 1, !.ring = @ + 1]
DecodeStep(row, rank, kernel) ==
    LET fed == Graduate(Fed(row), rank)
    IN  [fed EXCEPT !.step = kernel,
                    !.kmid = IF kernel /\ fed.mid > 0
                             THEN [cols |-> fed.mid, rank |-> fed.rank] ELSE NoMiddle]

\* Mutant: a window scored after a kernel step leaves the step's flag standing.
ForgetUnlessScoring(row) == IF row.mode = "score" THEN row ELSE [row EXCEPT !.step = FALSE]

\* `update` forgets the previous kernel step before it does anything else (the
\* middle it kept is read only while the flag stands).
Forget(row) == [row EXCEPT !.step = FALSE, !.kmid = NoMiddle]

Rejects(row, q) == row.len > 0 /\ row.mode = "normal" /\ q # 1

UpdateRow(row, q, rank, kernel) ==
    LET old == Forget(row)
    IN  CASE Rejects(row, q)                     -> old
          [] row.len = 0                         -> Prefill(old, q, rank)
          [] row.len > 0 /\ row.mode = "score"   -> old
          [] row.len > 0 /\ row.mode = "ingest"  -> [old EXCEPT !.len = @ + q, !.ring = @ + q]
          [] OTHER                               -> DecodeStep(old, rank, kernel)

\* The middle columns among the keys `update` returns: a kernel cache's decode
\* step returns the dense part only, a prefill the prompt.
OutOf(old, new, kernel) ==
    IF old.len = 0 THEN new.mid - old.mid
    ELSE IF old.mode = "normal" /\ kernel THEN 0 ELSE new.mid

\* The keys `update` returns; a scored window stands beside the retained ones.
Returned(old, new, q, kernel) ==
    new.ring + OutOf(old, new, kernel) + (IF old.len > 0 /\ old.mode = "score" THEN q ELSE 0)

\* What an update over q tokens may leave when the orthonormality guard raises
\* in one of its absorbs: none in scoring and ingesting.
UpdateInterrupted(row, q) ==
    LET old == Forget(row)
    IN  IF row.len = 0
        THEN {InterruptedPrefill(old, q, k, rank) :
                k \in {n \in 0 .. q : n < q - Recent(q)}, rank \in Ranks}
        ELSE IF row.mode = "normal" /\ q = 1
        THEN {Interrupted(Fed(old), k, rank) :
                k \in {n \in 0 .. row.ring : n < Blocks(Fed(row))}, rank \in Ranks}
        ELSE {}

\* The rows a layer updates: built at the first batched update, in the mode
\* the parent is in.
RowsOf(c, l) ==
    IF rows[c][l] = <<>>
    THEN [r \in 1 .. Batch[c] |-> FreshRow(mode[c])] ELSE rows[c][l]

\* `_reset_state` puts the layer in normal mode, whatever block is open.
NewRows(c) == IF Batch[c] = 1 THEN <<FreshRow("normal")>> ELSE <<>>

Uniform(s, F(_)) == \A i, j \in DOMAIN s : F(s[i]) = F(s[j])

------------------------------------------------------------------------------
(* The attention function. *)

\* kernel_middles: one middle a row, or none when the last update of some row
\* was not a kernel step.
HasMiddles(c, l) == rows[c][l] # <<>> /\ \A r \in DOMAIN rows[c][l] : rows[c][l][r].step

Kept(c, l) == SelectSeq([r \in DOMAIN rows[c][l] |-> rows[c][l][r].kmid],
                        LAMBDA m : m.cols > 0)

\* Rows that disagree on having a middle, and `FactoredMiddle.cat` of
\* different ranks or lengths.
Ragged(c, l) ==
    /\ HasMiddles(c, l)
    /\ \/ Len(Kept(c, l)) \notin {0, Len(rows[c][l])}
       \/ ~Uniform(Kept(c, l), LAMBDA m : m)

\* `select_backend` with "auto" on a CUDA bf16 call: the shapes decide.
SelectBackend(c, l) ==
    IF \A i \in DOMAIN Kept(c, l) : Kept(c, l)[i].rank \in TritonRanks
    THEN "triton" ELSE "reference"

\* One cache, one backend.
BackendAllowed(c, l) == backend[c] \in {NoBackend, SelectBackend(c, l)}

------------------------------------------------------------------------------
\* What a step that is no attention call has seen.
NothingSeen == [own |-> TRUE, inScope |-> FALSE]

Init ==
    /\ impl = "sdpa" /\ bound = Unbound /\ scopes = <<>>
    /\ mode = [c \in Caches |-> "normal"]
    /\ rows = [c \in Caches |-> [l \in Layers |-> NewRows(c)]]
    /\ backend = [c \in Caches |-> NoBackend]
    /\ forward = Idle /\ faults = 0 /\ failed = {} /\ torn = {}
    /\ attended = NothingSeen

\* `attach`: a no-op for a reconstruct cache, else rebind and switch.
Attach(c) ==
    /\ forward = Idle /\ Len(scopes) < MaxScopes
    /\ scopes' = Append(scopes, [cache |-> c, previous |-> impl])
    /\ IF c \in Kernel THEN impl' = "kernel" /\ bound' = c ELSE UNCHANGED <<impl, bound>>
    /\ UNCHANGED <<mode, rows, backend, forward, faults, failed, torn>>
    /\ attended' = NothingSeen

\* Mutant: the exit does not rebind the name to the stub.
BoundKept(c) == bound

\* Where the name points after a scope is left.
BoundAfter(c) == IF c \in Kernel THEN Unbound ELSE bound

\* The `finally` of the innermost scope: restore the implementation, rebind the
\* name to the stub.  An exception passes here too.
Detach ==
    LET top == Last(scopes)
    IN  /\ forward = Idle /\ scopes # <<>>
        /\ scopes' = Front(scopes)
        /\ impl' = IF top.cache \in Kernel THEN top.previous ELSE impl
        /\ bound' = BoundAfter(top.cache)
        /\ UNCHANGED <<mode, rows, backend, forward, faults, failed, torn>>
        /\ attended' = NothingSeen

\* `_set_mode` reaches the rows that exist.
ModeOfRow(row, m) == [row EXCEPT !.mode = m]

SetMode(c, m) ==
    /\ forward = Idle /\ mode[c] # m /\ "normal" \in {mode[c], m}
    /\ MaxTokens[c] > 1
    /\ mode' = [mode EXCEPT ![c] = m]
    /\ rows' = [rows EXCEPT ![c] = [l \in Layers |->
                 [r \in DOMAIN rows[c][l] |->
                    IF Batch[c] = 1 THEN [rows[c][l][r] EXCEPT !.mode = m]
                    ELSE ModeOfRow(rows[c][l][r], m)]]]
    /\ UNCHANGED <<scopeVars, backend, forward, faults, failed, torn>>
    /\ attended' = NothingSeen

\* Mutant: the first row stands for all of them.
ConsolidateFirstRow(rs, rank) ==
    [r \in DOMAIN rs |-> IF r = 1 THEN Graduate(rs[r], rank[r]) ELSE rs[r]]

\* `consolidate`: every row layer of every layer runs its deferred absorbs.
ConsolidateRows(rs, rank) == [r \in DOMAIN rs |-> Graduate(rs[r], rank[r])]

Consolidate(c) ==
    /\ forward = Idle
    /\ \E rank \in [1 .. Batch[c] -> Ranks] :
         rows' = [rows EXCEPT ![c] = [l \in Layers |-> ConsolidateRows(rows[c][l], rank)]]
    /\ rows' # rows
    /\ UNCHANGED <<scopeVars, mode, backend, forward, faults, failed, torn>>
    /\ attended' = NothingSeen

\* The guard raises in row r of layer l: the layers and rows before it have run
\* their absorbs, the others have not.
ConsolidateFails(c, l, r) ==
    /\ forward = Idle /\ faults < MaxFaults
    /\ r \in DOMAIN rows[c][l]
    /\ \E k \in {n \in 0 .. rows[c][l][r].ring : n < Blocks(rows[c][l][r])},
          rank \in [1 .. Batch[c] -> Ranks] :
         rows' = [rows EXCEPT ![c] = [i \in Layers |->
                   CASE i < l -> ConsolidateRows(rows[c][i], rank)
                     [] i = l -> [j \in DOMAIN rows[c][i] |->
                                   CASE j < r -> Graduate(rows[c][i][j], rank[j])
                                     [] j = r -> Interrupted(rows[c][i][j], k, rank[j])
                                     [] j > r -> rows[c][i][j]]
                     [] i > l -> rows[c][i]]]
    /\ faults' = faults + 1 /\ failed' = failed \cup {c}
    /\ UNCHANGED <<scopeVars, mode, backend, forward, torn>>
    /\ attended' = NothingSeen

\* `reset` of every layer: rows are dropped and the mode is normal again, the
\* recorded backend stays.
Reset(c) ==
    /\ forward = Idle
    /\ rows' = [rows EXCEPT ![c] = [l \in Layers |-> NewRows(c)]]
    /\ mode' = [mode EXCEPT ![c] = "normal"]
    /\ rows' # rows \/ mode' # mode
    /\ failed' = failed \ {c} /\ torn' = torn \ {c}
    /\ UNCHANGED <<scopeVars, backend, forward, faults>>
    /\ attended' = NothingSeen

------------------------------------------------------------------------------
(* A forward: for each layer `update`, then the attention function. *)

StartForward(c, q) ==
    /\ forward = Idle
    /\ MaxTokens[c] > 0
    /\ \A row \in UNION {Range(rows[c][l]) : l \in Layers} :
         \/ row.len + q <= MaxTokens[c]
         \/ MaxTokens[c] > 1 /\ (Rejects(row, q) \/ (row.len > 0 /\ mode[c] = "score"))
    /\ forward' = [by |-> c, q |-> q, layer |-> 1, out |-> <<>>]
    /\ UNCHANGED <<scopeVars, mode, rows, backend, faults, failed, torn>>
    /\ attended' = NothingSeen

\* Every row through the batch-1 path; the returned lengths must agree.
UpdateLayer ==
    LET c == forward.by   l == forward.layer   old == RowsOf(c, l)
    IN  /\ forward # Idle /\ forward.out = <<>>
        /\ ~Rejects(old[1], forward.q)
        /\ \E rank \in [1 .. Batch[c] -> Ranks] :
             LET new == [r \in 1 .. Batch[c] |->
                           UpdateRow(old[r], forward.q, rank[r], c \in Kernel)]
                 out == [r \in 1 .. Batch[c] |-> OutOf(old[r], new[r], c \in Kernel)]
                 returned == [r \in 1 .. Batch[c] |->
                                Returned(old[r], new[r], forward.q, c \in Kernel)]
             IN  /\ rows' = [rows EXCEPT ![c][l] = new]
                 /\ IF Uniform(returned, LAMBDA n : n)
                    THEN /\ forward' = [forward EXCEPT !.out = out]
                         /\ UNCHANGED failed
                    ELSE /\ forward' = Idle
                         /\ failed' = failed \cup {c}
        /\ UNCHANGED <<scopeVars, mode, backend, faults, torn>>
        /\ attended' = NothingSeen

\* A continuation of more than one token outside ingest and scoring: the first
\* row raises (a prefill that raised has filled the rows before it).
UpdateRejected ==
    LET c == forward.by   l == forward.layer
    IN  /\ forward # Idle /\ forward.out = <<>>
        /\ Rejects(RowsOf(c, l)[1], forward.q)
        /\ rows' = [rows EXCEPT ![c][l][1] = Forget(@)]
        /\ forward' = Idle
        /\ UNCHANGED <<scopeVars, mode, backend, faults, failed, torn>>
        /\ attended' = NothingSeen

\* The guard raises in row r's absorb: earlier rows have the tokens, later ones
\* have not.
UpdateFails(r) ==
    LET c == forward.by   l == forward.layer   old == RowsOf(c, l)
    IN  /\ forward # Idle /\ forward.out = <<>> /\ faults < MaxFaults
        /\ ~Rejects(old[1], forward.q)
        /\ \E left \in UpdateInterrupted(old[r], forward.q), rank \in [1 .. Batch[c] -> Ranks] :
             rows' = [rows EXCEPT ![c][l] = [i \in 1 .. Batch[c] |->
                        CASE i < r -> UpdateRow(old[i], forward.q, rank[i], c \in Kernel)
                          [] i = r -> left
                          [] i > r -> old[i]]]
        /\ forward' = Idle /\ faults' = faults + 1 /\ failed' = failed \cup {c}
        /\ torn' = IF old[r].len = 0 THEN torn \cup {c} ELSE torn
        /\ UNCHANGED <<scopeVars, mode, backend>>
        /\ attended' = NothingSeen

\* The next layer's turn, or the end of the forward.
Advance == IF forward.layer = NumLayers THEN Idle
           ELSE [forward EXCEPT !.layer = @ + 1, !.out = <<>>]

\* History: how much of its own middle each row of the forward's cache saw, the
\* middle handed over by cache b (if any) beside the keys update returned.
Saw(b) ==
    LET c == forward.by   l == forward.layer
        factored(r) == IF b = Unbound THEN 0 ELSE rows[c][l][r].kmid.cols
    IN  [own |-> /\ b \in {Unbound, c}
                 /\ \A r \in DOMAIN rows[c][l] :
                      forward.out[r] + factored(r) = rows[c][l][r].mid,
         inScope |-> {scopes[i].cache : i \in DOMAIN scopes} = {c} /\ c \notin torn]

\* Plain attention over the keys update returned: no kernel, a window or chunk
\* of several tokens, or a bound cache whose last update was no kernel step.
Delegates ==
    \/ impl = "sdpa"
    \/ bound # Unbound /\ (~HasMiddles(bound, forward.layer) \/ forward.q # 1)

AttendReturned ==
    /\ forward # Idle /\ forward.out # <<>> /\ Delegates
    /\ attended' = Saw(Unbound)
    /\ forward' = Advance
    /\ UNCHANGED <<scopeVars, mode, rows, backend, faults, failed, torn>>

\* The bound cache's middle, whichever cache the forward is of.
AttendFactored ==
    LET b == bound   l == forward.layer
    IN  /\ forward # Idle /\ forward.out # <<>> /\ ~Delegates /\ b # Unbound
        /\ ~Ragged(b, l) /\ BackendAllowed(b, l)
        /\ backend' = [backend EXCEPT ![b] = IF @ = NoBackend THEN SelectBackend(b, l) ELSE @]
        /\ attended' = Saw(b)
        /\ forward' = Advance
        /\ UNCHANGED <<scopeVars, mode, rows, faults, failed, torn>>

\* The stub, ragged rows, or another backend than the recorded one.
AttendRaises ==
    LET b == bound   l == forward.layer
        answers == b # Unbound /\ ~Ragged(b, l) /\ BackendAllowed(b, l)
    IN  /\ forward # Idle /\ forward.out # <<>> /\ ~Delegates /\ ~answers
        /\ forward' = Idle
        /\ failed' = failed \cup {forward.by}
        /\ UNCHANGED <<scopeVars, mode, rows, backend, faults, torn>>
        /\ attended' = NothingSeen

Next ==
    \/ \E c \in Caches :
         \/ Attach(c) \/ Consolidate(c) \/ Reset(c)
         \/ \E m \in Modes : SetMode(c, m)
         \/ \E q \in 1 .. MaxForward : StartForward(c, q)
         \/ \E l \in Layers, r \in 1 .. Batch[c] : ConsolidateFails(c, l, r)
    \/ Detach \/ UpdateLayer \/ UpdateRejected \/ AttendReturned \/ AttendFactored
    \/ AttendRaises
    \/ \E r \in 1 .. (IF forward = Idle THEN 0 ELSE Batch[forward.by]) : UpdateFails(r)

Spec == Init /\ [][Next]_vars

------------------------------------------------------------------------------
(* Properties. *)

\* While a cache's scope is the only one open, its forwards attend each column
\* of their own rows' middle once: the factored middle of this very step, or
\* the returned keys, never both, none, or another cache's (attach_kernel,
\* kernel_middles, and the flag every update clears).  Also after an absorb of a
\* decode step or a consolidate raised; not after a prefill did, until a reset.
OwnMiddle == attended.inScope => attended.own

\* A cache is reachable through the registered name only while a scope of its
\* own is open, and once no kernel cache's scope is open the model attends as
\* before: whatever was nested or raised ("never keeps a finished cache ...
\* alive", kernel/attention.py).
NothingKeptAlive ==
    LET open == {scopes[i].cache : i \in DOMAIN scopes}
    IN  /\ bound # Unbound => bound \in open
        /\ open \cap Kernel = {} => impl = "sdpa"

\* Between forwards all rows of all layers are at the same token, unless a
\* forward or a consolidate raised midway since the last reset: no mixture of
\* modes, refused calls, consolidations and resets, inside an open block too,
\* lets one row or layer run ahead (_update_rows).
RowsInStep ==
    forward = Idle => \A c \in Caches \ failed :
        LET all == UNION {Range(rows[c][l]) : l \in Layers}
        IN  /\ Cardinality({<<row.len, row.ring, row.mid>> : row \in all}) <= 1
            /\ Uniform(rows[c], Len)
==============================================================================
