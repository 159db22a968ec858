----------------------------- MODULE OrthGuard -----------------------------
(***************************************************************************)
(* The orthonormality guard of a BugStreamingLayer (cache/bug_cache.py)    *)
(* and the diagnostic rows it leaves: every absorb measures the basis the  *)
(* tracker returned, repairs it, fails the trial when the repair is not    *)
(* enough, and folds what it saw into a window that becomes a row every    *)
(* diag_every absorbs, before an abort, and when the rows are drained.  A  *)
(* batched layer owns one layer per row, each with a guard and rows of its *)
(* own, and drains and resets through them.                                *)
(*                                                                         *)
(* A measurement is a level: how far the basis is from orthonormal, or     *)
(* NaN.  The effective rank is folded by min beside it and is left out.    *)
(***************************************************************************)
EXTENDS Integers, Sequences, FiniteSets, SequencesExt

CONSTANTS Arms,        \* orth_fix_tol, orth_abort_tol, qr_every, diag_every
          Worst,       \* measurements are 0..Worst and NaN
          MaxBatch,
          MaxAbsorbs,  \* bound on the absorbs of a layer in one stream
          MaxStreams   \* bound on the streams of a cache

None == -1
NaN == -2
Readings == (0..Worst) \cup {NaN}
Streams == {"k", "v"}

ASSUME BoundsAssumption ==
  Worst \in Nat /\ MaxBatch \in Nat \ {0} /\ MaxAbsorbs \in Nat /\ MaxStreams \in Nat
ASSUME ArmsAssumption ==
  \A a \in Arms :
    /\ {a.orth_fix_tol, a.orth_abort_tol, a.qr_every} \subseteq Nat \cup {None}
    /\ a.diag_every \in Nat
    /\ a.batches \subseteq 1..MaxBatch          \* the batches it is driven with

(* Mutant: the two tolerances may be in any order.                         *)
ValidArmAnyOrder(a) == a.qr_every # 0 /\ a.diag_every # 0

(* __init__ accepts the arm.                                               *)
ValidArm(a) ==
  /\ None \notin {a.orth_fix_tol, a.orth_abort_tol} => a.orth_abort_tol >= a.orth_fix_tol
  /\ a.qr_every # 0
  /\ a.diag_every # 0

(* Layer 0 is the layer itself, layer i > 0 its i-th row.                  *)
Layers == 0..MaxBatch

VARIABLES
  arm,
  batch,     \* 0 before the first update; with more than 1 the rows exist
  pc,        \* where the running update is: "idle", "absorb", "repair", "settle"
  todo,      \* per layer: absorbs the running update has still to do
  failed,    \* OrthonormalityError was raised
  absorbs,   \* per layer: _absorbs
  reading,   \* per stream: the running absorb's last measurement of the basis
  window,    \* per layer: the _diag_* accumulators
  diag,      \* per layer: its rows
  drained,   \* history: the rows handed out
  seen,      \* history, per layer: the readings and repairs of the open window
  ended      \* history: the absorbs of every stream a reset has ended

guard == <<absorbs, reading, window, seen>>
rows == <<diag, drained, ended>>
vars == <<arm, batch, pc, todo, failed, guard, rows>>

Driven == IF batch <= 1 THEN {0} ELSE 1..batch
stream == Len(ended) + 1

EmptyWindow == [n |-> 0, err |-> [s \in Streams |-> 0], fixed |-> [s \in Streams |-> FALSE]]
Fresh == [s \in Streams |-> 0]

Init ==
  /\ arm \in {a \in Arms : ValidArm(a)}
  /\ batch = 0 /\ pc = "idle" /\ failed = FALSE
  /\ todo = [l \in Layers |-> 0]
  /\ absorbs = [l \in Layers |-> 0]
  /\ reading = Fresh
  /\ window = [l \in Layers |-> EmptyWindow]
  /\ diag = [l \in Layers |-> <<>>]
  /\ drained = <<>>
  /\ seen = [l \in Layers |-> <<>>]
  /\ ended = <<>>

-----------------------------------------------------------------------------
(* A number is at or below a tolerance, NaN never is.                      *)
AtOrBelow(e, tol) == e # NaN /\ e <= tol

(* Mutant: a NaN in the second argument is dropped.                        *)
PlainMax(a, b) == IF a = NaN THEN NaN ELSE IF b = NaN \/ b <= a THEN a ELSE b

NanMax(a, b) == IF NaN \in {a, b} THEN NaN ELSE IF a <= b THEN b ELSE a

(* An update of the batch b; the loop over the rows drives one after the   *)
(* other.  Another batch than the first is refused and changes nothing.    *)
(* After a failure the runners drain the cache and drop it.                *)
Update(b, k) ==
  /\ pc = "idle" /\ ~failed
  /\ b \in arm.batches /\ batch \in {0, b}
  /\ batch' = b
  /\ \A l \in Driven' : absorbs[l] + k <= MaxAbsorbs
  /\ todo' = [l \in Layers |-> IF l \in Driven' THEN k ELSE 0]
  /\ pc' = "absorb"
  /\ UNCHANGED <<arm, failed, guard, rows>>

Turn == CHOOSE l \in Layers : todo[l] > 0 /\ \A j \in Layers : j < l => todo[j] = 0

(* The tracker returns a basis, of whatever quality; it is measured and    *)
(* folded into the window before anything is repaired.                     *)
Measure ==
  /\ pc = "absorb"
  /\ \E err \in [Streams -> Readings] :
       /\ reading' = err
       /\ window' = [window EXCEPT ![Turn].n = @ + 1,
                                   ![Turn].err = [s \in Streams |-> NanMax(@[s], err[s])]]
       /\ seen' = [seen EXCEPT ![Turn] =
                     Append(@, [err |-> err, fixed |-> [s \in Streams |-> FALSE]])]
  /\ absorbs' = [absorbs EXCEPT ![Turn] = @ + 1]
  /\ pc' = "repair"
  /\ UNCHANGED <<arm, batch, todo, failed, rows>>

(* Forced by qr_every at its period or on a rank change, due above the     *)
(* fix tolerance.                                                          *)
Due(s, rank_changed) ==
  \/ /\ arm.qr_every # None
     /\ absorbs[Turn] % arm.qr_every = 0 \/ s \in rank_changed
  \/ arm.orth_fix_tol # None /\ ~AtOrBelow(reading[s], arm.orth_fix_tol)

(* reorthonormalize: a repaired basis is measured again, an untouched one  *)
(* is what it was.                                                         *)
Repair ==
  /\ pc = "repair"
  /\ \E rank_changed \in IF arm.qr_every = None THEN {{}} ELSE SUBSET Streams :
       LET fixed == [s \in Streams |-> Due(s, rank_changed)]
       IN /\ reading' \in [Streams -> Readings]
          /\ \A s \in Streams : ~fixed[s] => reading'[s] = reading[s]
          /\ window' = [window EXCEPT ![Turn].fixed =
                          [s \in Streams |-> @[s] \/ fixed[s]]]
          /\ seen' = [seen EXCEPT ![Turn][Len(seen[Turn])].fixed = fixed]
  /\ pc' = "settle"
  /\ UNCHANGED <<arm, batch, todo, failed, absorbs, rows>>

(* Mutant: the two streams are aggregated by a plain maximum.              *)
BeyondRepairByMax ==
  /\ arm.orth_abort_tol # None
  /\ ~AtOrBelow(PlainMax(reading["k"], reading["v"]), arm.orth_abort_tol)

BeyondRepair ==
  /\ arm.orth_abort_tol # None
  /\ \E s \in Streams : ~AtOrBelow(reading[s], arm.orth_abort_tol)

-----------------------------------------------------------------------------
(* A row names its layer's absorb count; its stream, layer and length are  *)
(* history.                                                                *)
Row(l) == [stream |-> stream, layer |-> l, absorbs |-> absorbs[l], n |-> window[l].n]

ClearWindow(l) ==
  /\ window' = [window EXCEPT ![l] = EmptyWindow]
  /\ seen' = [seen EXCEPT ![l] = <<>>]

FlushDiagWindow(l) ==
  /\ diag' = [diag EXCEPT ![l] = Append(@, Row(l))]
  /\ ClearWindow(l)

(* The end of an absorb: the window of a fatal one is flushed before the   *)
(* raise, which ends the update for every row.                             *)
Abort ==
  /\ pc = "settle"
  /\ BeyondRepair
  /\ FlushDiagWindow(Turn)
  /\ failed' = TRUE
  /\ todo' = [l \in Layers |-> 0]
  /\ pc' = "idle"
  /\ reading' = Fresh
  /\ UNCHANGED <<arm, batch, absorbs, drained, ended>>

Settle ==
  /\ pc = "settle"
  /\ ~BeyondRepair
  /\ IF absorbs[Turn] % arm.diag_every = 0
       THEN FlushDiagWindow(Turn)
       ELSE UNCHANGED <<diag, window, seen>>
  /\ todo' = [todo EXCEPT ![Turn] = @ - 1]
  /\ pc' = IF \A l \in Layers : todo'[l] = 0 THEN "idle" ELSE "absorb"
  /\ reading' = Fresh
  /\ UNCHANGED <<arm, batch, failed, absorbs, drained, ended>>

-----------------------------------------------------------------------------

(* drain_diag of one layer: the open window becomes a row first.           *)
Taken(l) == IF window[l].n > 0 THEN Append(diag[l], Row(l)) ELSE diag[l]

TakenFromRows == FlattenSeq([l \in 1..MaxBatch |-> Taken(l)])

NoWindows == /\ window' = [l \in Layers |-> EmptyWindow]
             /\ seen' = [l \in Layers |-> <<>>]

(* The rows' rows in row order, then the layer's own; cleared.             *)
DrainDiag ==
  /\ pc = "idle"
  /\ drained' = drained \o TakenFromRows \o Taken(0)
  /\ drained' # drained
  /\ diag' = [l \in Layers |-> <<>>]
  /\ NoWindows
  /\ UNCHANGED <<arm, batch, pc, todo, failed, absorbs, reading, ended>>

(* Mutant: the row layers are dropped with what they hold.                 *)
KeptRowsNone == diag[0]

(* What of the rows survives a reset: drained into the layer's own.        *)
KeptRows == diag[0] \o TakenFromRows

Reset ==
  /\ pc = "idle" /\ batch > 0
  /\ stream < MaxStreams
  /\ ended' = Append(ended, absorbs)
  /\ diag' = [l \in Layers |-> IF l = 0 THEN KeptRows ELSE <<>>]
  /\ NoWindows
  /\ batch' = 0 /\ failed' = FALSE
  /\ absorbs' = [l \in Layers |-> 0]
  /\ UNCHANGED <<arm, pc, todo, reading, drained>>

Next ==
  \/ \E b \in 1..MaxBatch, k \in 1..MaxAbsorbs : Update(b, k)
  \/ Measure \/ Repair \/ Abort \/ Settle
  \/ DrainDiag \/ Reset

Spec == Init /\ [][Next]_vars

-----------------------------------------------------------------------------
(* The variables keep their shape, and only a layer that is driven has     *)
(* done anything.                                                          *)
TypeOK ==
  /\ arm \in Arms /\ batch \in 0..MaxBatch /\ failed \in BOOLEAN
  /\ pc \in {"idle", "absorb", "repair", "settle"}
  /\ todo \in [Layers -> 0..MaxAbsorbs] /\ (pc = "idle" <=> \A l \in Layers : todo[l] = 0)
  /\ absorbs \in [Layers -> 0..MaxAbsorbs]
  /\ reading \in [Streams -> Readings]
  /\ \A l \in Layers :
       /\ window[l].n \in 0..arm.diag_every
       /\ window[l].n = Len(seen[l])
       /\ l \notin Driven => absorbs[l] = 0 /\ window[l] = EmptyWindow

(* A row reports what happened in its window and nothing else: the open    *)
(* window is at all times the worst reading, NaN above all, and the        *)
(* repairs of exactly the absorbs since the last row, whichever of the     *)
(* three flushes ended that one.                                           *)
WindowTruthful ==
  \A l \in Layers, s \in Streams :
    LET errs == {seen[l][i].err[s] : i \in DOMAIN seen[l]} \cup {0}
    IN /\ window[l].err[s] \in errs
       /\ NaN \in errs => window[l].err[s] = NaN
       /\ NaN \notin errs => \A e \in errs : window[l].err[s] >= e
       /\ window[l].fixed[s] <=> \E i \in DOMAIN seen[l] : seen[l][i].fixed[s]

(* The guard judges the repaired basis.  An absorb that completes leaves   *)
(* both streams within the abort tolerance, whatever was NaN on the way;   *)
(* one that fails has a stream that is beyond it and, where repairs are    *)
(* on, was repaired in this absorb and stayed beyond it: an untouched      *)
(* basis never costs a trial.                                              *)
FailsIffBeyondRepair ==
  [][arm.orth_abort_tol # None /\ pc = "settle" =>
       LET diverged == {s \in Streams : ~AtOrBelow(reading[s], arm.orth_abort_tol)}
           repaired == {s \in Streams : Last(seen[Turn]).fixed[s]}
       IN /\ failed' <=> diverged # {}
          /\ arm.orth_fix_tol # None => diverged \subseteq repaired]_vars

(* The rows of a layer in one stream, handed out or not, tell of the first *)
(* k absorbs once each.                                                    *)
Told == drained \o FlattenSeq([l \in 1..MaxBatch+1 |-> diag[l-1]])
Absorbed(r) == r.absorbs - r.n + 1 .. r.absorbs
Tell(all, g, l, k) ==
  LET R == {i \in DOMAIN all : all[i].stream = g /\ all[i].layer = l}
  IN /\ UNION {Absorbed(all[i]) : i \in R} = 1..k
     /\ \A i, j \in R : i # j => Absorbed(all[i]) \cap Absorbed(all[j]) = {}

(* Every absorb is told of exactly once: by a row or by the open window,   *)
(* through drains in between, failures of one row of a batch, and, for the *)
(* rows of a batch, through the reset that drops their layers.             *)
AbsorbsToldOnce ==
  \A l \in Layers :
    /\ Tell(Told, stream, l, absorbs[l] - window[l].n)
    /\ l > 0 => \A g \in DOMAIN ended : Tell(Told, g, l, ended[g][l])

(* "Not cleared by reset(): a drained-once contract must not lose a        *)
(* finished stream's measurements to the next stream's setup."             *)
ResetKeepsMeasurements ==
  \A g \in DOMAIN ended, l \in Layers : Tell(Told, g, l, ended[g][l])
=============================================================================
