--------------------------- MODULE OrthGuardProofs ---------------------------
(***************************************************************************)
(* Proofs about the orthonormality guard, for any number of layers, rows   *)
(* and streams, any readings and any tolerances.                           *)
(*                                                                         *)
(* The inductive invariant relates each layer's window to the samples it   *)
(* was fed since it was last cleared (AllTruthful), the number of samples  *)
(* to the absorbs since the last diagnostic row (Counted), and says of the *)
(* absorb under way that its sample is marked repaired only by the repair  *)
(* (Unmarked) and that a stream left alone had a reading within the        *)
(* tolerance (Untouched): together they make the row a true account of its *)
(* window, and an abort one that no repair could have avoided.             *)
(*                                                                         *)
(* A second one (RowsInv) says whose rows each list holds (OwnRows) and    *)
(* that, layer by layer, the rows handed out and those still held tell of  *)
(* every absorb before the open window once (EachTold).                    *)
(***************************************************************************)
EXTENDS OrthGuard, IndexOrderProofs

(* A sample of every stream, and the fold of a window of them.             *)
Sample == [err : [Streams -> Readings], fixed : [Streams -> BOOLEAN]]
Window == [n : Nat, err : [Streams -> Readings], fixed : [Streams -> BOOLEAN]]

(* The shape of the variables; absorbs are owed only by a cache with rows  *)
(* that has not failed.                                                    *)
Shape ==
  /\ arm \in Arms /\ ValidArm(arm) /\ batch \in 0 .. MaxBatch /\ failed \in BOOLEAN
  /\ pc \in {"idle", "absorb", "repair", "settle"}
  /\ todo \in [Layers -> Nat] /\ absorbs \in [Layers -> Nat]
  /\ reading \in [Streams -> Readings]
  /\ window \in [Layers -> Window] /\ seen \in [Layers -> Seq(Sample)]
  /\ pc = "idle" <=> \A l \in Layers : todo[l] = 0
  /\ pc # "idle" => ~failed /\ batch # 0

\* 1 for the layer whose absorb is measured and not yet settled.
UnderWay(l) == IF pc \in {"repair", "settle"} /\ l = Turn THEN 1 ELSE 0

(* A window holds the absorbs since the last row; a layer that is not      *)
(* driven has none.                                                        *)
Counted ==
  /\ \A l \in Layers :
       /\ absorbs[l] + todo[l] - UnderWay(l) <= MaxAbsorbs
       /\ window[l].n = Len(seen[l])
       /\ UnderWay(l) <= window[l].n /\ UnderWay(l) <= absorbs[l]
       /\ window[l].n - UnderWay(l) <= (absorbs[l] - UnderWay(l)) % arm.diag_every
       /\ l \notin Driven => absorbs[l] = 0 /\ todo[l] = 0 /\ window[l] = EmptyWindow
  /\ batch = 0 => \A l \in Layers : absorbs[l] = 0 /\ window[l] = EmptyWindow

\* An untouched stream of the running absorb was within the fix tolerance.
Untouched ==
  pc = "settle" /\ arm.orth_fix_tol # None =>
    \A s \in Streams :
      \/ seen[Turn][Len(seen[Turn])].fixed[s]
      \/ AtOrBelow(reading[s], arm.orth_fix_tol)

\* A window tells the truth of its samples.
Truthful(w, samples) ==
  \A s \in Streams :
    LET errs == {samples[i].err[s] : i \in DOMAIN samples} \cup {0}
    IN /\ w.err[s] \in errs
       /\ NaN \in errs => w.err[s] = NaN
       /\ NaN \notin errs => \A e \in errs : w.err[s] >= e
       /\ w.fixed[s] <=> \E i \in DOMAIN samples : samples[i].fixed[s]

(* Every layer's window does.                                              *)
AllTruthful == \A l \in Layers : Truthful(window[l], seen[l])

\* The last sample of the running absorb names no repair before the repair.
Unmarked ==
  pc = "repair" => \A s \in Streams : ~seen[Turn][Len(seen[Turn])].fixed[s]

(* The inductive invariant.                                                *)
IInv == Shape /\ Counted /\ Untouched /\ Unmarked /\ AllTruthful

------------------------------------------------------------------------------
(* The settings of a valid arm.                                            *)
LEMMA ArmTypes ==
  ASSUME Shape
  PROVE  /\ arm.orth_fix_tol \in Nat \cup {None} /\ arm.orth_abort_tol \in Nat \cup {None}
         /\ arm.qr_every \in (Nat \cup {None}) \ {0} /\ arm.diag_every \in Nat \ {0}
         /\ None \notin {arm.orth_fix_tol, arm.orth_abort_tol}
              => arm.orth_abort_tol >= arm.orth_fix_tol
         /\ MaxBatch \in Nat \ {0} /\ MaxAbsorbs \in Nat /\ Worst \in Nat
BY ArmsAssumption, BoundsAssumption DEF Shape, ValidArm

(* While absorbs are left the turn is the first layer with one.            *)
LEMMA TurnIsLayer ==
  ASSUME Shape, pc # "idle"
  PROVE  Turn \in Layers /\ todo[Turn] > 0 /\ \A j \in Layers : j < Turn => todo[j] = 0
<1> DEFINE S == {l \in Layers : todo[l] > 0}
<1>1. S # {} /\ S \in SUBSET Nat /\ S \in SUBSET Layers
  <2>1. PICK l \in Layers : todo[l] # 0
    BY DEF Shape
  <2>2. l \in S
    BY <2>1 DEF Shape
  <2> QED BY <2>2, BoundsAssumption DEF Layers
<1> HIDE DEF S
<1>2. PICK l \in S : \A j \in S : l <= j
  BY <1>1, LeastElement
<1>3. l \in Layers /\ todo[l] > 0 /\ \A j \in Layers : j < l => todo[j] = 0
  <2> SUFFICES ASSUME NEW j \in Layers, j < l PROVE todo[j] = 0
    BY <1>2 DEF S
  <2>1. j \notin S
    BY <1>1, <1>2, BoundsAssumption DEF Layers
  <2> QED BY <2>1 DEF S, Shape
<1> QED BY <1>3 DEF Turn

(* The counters of one layer.                                              *)
LEMMA LayerFacts ==
  ASSUME Shape, Counted, NEW l \in Layers
  PROVE  /\ absorbs[l] \in Nat /\ todo[l] \in Nat /\ MaxAbsorbs \in Nat
         /\ window[l].n \in Nat /\ UnderWay(l) \in {0, 1}
         /\ arm.diag_every \in Nat \ {0} /\ absorbs[l] % arm.diag_every \in Nat
         /\ absorbs[l] + todo[l] - UnderWay(l) <= MaxAbsorbs
         /\ window[l].n = Len(seen[l])
         /\ UnderWay(l) <= window[l].n /\ UnderWay(l) <= absorbs[l]
         /\ window[l].n - UnderWay(l) <= (absorbs[l] - UnderWay(l)) % arm.diag_every
         /\ l \notin Driven => absorbs[l] = 0 /\ todo[l] = 0 /\ window[l] = EmptyWindow
<1>1. absorbs[l] \in Nat /\ todo[l] \in Nat /\ window[l] \in Window
  BY DEF Shape
<1>2. window[l].n \in Nat
  BY <1>1 DEF Window
<1>3. MaxAbsorbs \in Nat /\ arm.diag_every \in Nat \ {0}
  BY ArmTypes
<1>4. absorbs[l] % arm.diag_every \in 0 .. arm.diag_every - 1
  BY <1>1, <1>3, NextModulo
<1>5. UnderWay(l) \in {0, 1}
  BY DEF UnderWay
<1>6. /\ absorbs[l] + todo[l] - UnderWay(l) <= MaxAbsorbs
      /\ window[l].n = Len(seen[l])
      /\ UnderWay(l) <= window[l].n /\ UnderWay(l) <= absorbs[l]
      /\ window[l].n - UnderWay(l) <= (absorbs[l] - UnderWay(l)) % arm.diag_every
      /\ l \notin Driven => absorbs[l] = 0 /\ todo[l] = 0 /\ window[l] = EmptyWindow
  BY DEF Counted
<1>7. absorbs[l] % arm.diag_every \in Nat
  BY <1>3, <1>4
<1> QED BY <1>1, <1>2, <1>3, <1>5, <1>6, <1>7

(* The running maximum is one of its arguments, and nan once one of them   *)
(* is.                                                                     *)
LEMMA WorseOfTwo ==
  ASSUME NEW a \in Readings, NEW b \in Readings
  PROVE  /\ NanMax(a, b) \in {a, b} /\ NanMax(a, b) \in Readings
         /\ NaN \in {a, b} => NanMax(a, b) = NaN
         /\ NaN \notin {a, b} => NanMax(a, b) >= a /\ NanMax(a, b) >= b
BY BoundsAssumption DEF NanMax, Readings, NaN

(* A cleared window has no samples.                                        *)
LEMMA EmptyWindowTyped == EmptyWindow \in Window /\ EmptyWindow.n = 0
BY BoundsAssumption DEF EmptyWindow, Window, Readings

\* Clearing the window and the samples of some layers.
LEMMA ClearedTruthful ==
  ASSUME AllTruthful,
         \A l \in Layers : \/ window'[l] = window[l] /\ seen'[l] = seen[l]
                           \/ window'[l] = EmptyWindow /\ seen'[l] = <<>>
  PROVE  AllTruthful'
<1>1. Truthful(EmptyWindow, <<>>)
  BY DEF Truthful, EmptyWindow, NaN
<1> QED BY <1>1 DEF AllTruthful

(* A new cache satisfies the invariant.                                    *)
LEMMA InitHolds == Init => IInv
<1> SUFFICES ASSUME Init PROVE IInv
  OBVIOUS
<1>1. Shape
  <2>1. 0 \in Readings /\ 0 \in 0 .. MaxBatch
    BY BoundsAssumption DEF Readings
  <2>2. /\ window \in [Layers -> Window] /\ seen \in [Layers -> Seq(Sample)]
        /\ reading \in [Streams -> Readings]
    BY <2>1, EmptyWindowTyped DEF Init, Fresh
  <2> QED BY <2>1, <2>2 DEF Init, Shape
<1>2. \A l \in Layers : UnderWay(l) = 0
  BY DEF Init, UnderWay
<1>3. Counted
  BY <1>1, <1>2, ArmTypes, EmptyWindowTyped DEF Init, Counted
<1>4. Untouched /\ Unmarked
  BY DEF Init, Untouched, Unmarked
<1>5. AllTruthful
  <2>1. Truthful(EmptyWindow, <<>>)
    BY DEF Truthful, EmptyWindow, NaN
  <2> QED BY <2>1 DEF Init, AllTruthful
<1> QED BY <1>1, <1>3, <1>4, <1>5 DEF IInv

(* An update that owes absorbs keeps the invariant.                        *)
LEMMA UpdateKeeps ==
  ASSUME IInv, NEW b \in 1 .. MaxBatch, NEW k \in 1 .. MaxAbsorbs, Update(b, k)
  PROVE  IInv'
<1>1. /\ b \in Nat \ {0} /\ b \in 0 .. MaxBatch /\ k \in Nat \ {0} /\ MaxBatch \in Nat
      /\ MaxAbsorbs \in Nat
  BY BoundsAssumption
<1>2. /\ pc = "idle" /\ batch \in {0, b} /\ batch' = b /\ pc' = "absorb" /\ ~failed
      /\ \A l \in Driven' : absorbs[l] + k <= MaxAbsorbs
      /\ todo' = [l \in Layers |-> IF l \in Driven' THEN k ELSE 0]
      /\ UNCHANGED <<arm, failed, absorbs, reading, window, seen, diag, drained, ended>>
  BY DEF Update, guard, rows
<1>3. Driven' = (IF b <= 1 THEN {0} ELSE 1 .. b)
  BY <1>2 DEF Driven
<1>4. \E l \in Layers : l \in Driven'
  <2>1. CASE b <= 1
    <3>1. 0 \in Layers
      BY <1>1 DEF Layers
    <3> QED BY <1>3, <2>1, <3>1
  <2>2. CASE ~(b <= 1)
    <3>1. b \in Layers /\ b \in 1 .. b
      BY <1>1 DEF Layers
    <3> QED BY <1>3, <2>2, <3>1
  <2> QED BY <2>1, <2>2
<1>5. Shape'
  BY <1>1, <1>2, <1>4 DEF IInv, Shape
<1>6. \A l \in Layers : UnderWay(l) = 0 /\ UnderWay(l)' = 0
  BY <1>2 DEF UnderWay
<1>7. \A l \in Layers : todo[l] = 0
  BY <1>2 DEF IInv, Shape
<1>8. Counted'
  <2>1. ASSUME NEW l \in Layers
        PROVE  /\ absorbs'[l] + todo'[l] <= MaxAbsorbs
               /\ l \notin Driven' => absorbs'[l] = 0 /\ todo'[l] = 0 /\ window'[l] = EmptyWindow
    <3>1. absorbs[l] \in Nat /\ absorbs[l] <= MaxAbsorbs
      BY <1>1, <1>6, <1>7 DEF IInv, Shape, Counted
    <3>2. CASE batch = 0
      BY <1>1, <1>2, <3>1, <3>2 DEF IInv, Counted
    <3>3. CASE batch = b
      <4>1. Driven' = Driven
        BY <1>2, <3>3 DEF Driven
      <4> QED BY <1>2, <3>1, <4>1 DEF IInv, Counted
    <3> QED BY <1>2, <3>2, <3>3
  <2>2. batch' # 0
    BY <1>1, <1>2
  <2>3. ASSUME NEW l \in Layers
        PROVE  /\ absorbs'[l] + todo'[l] - UnderWay(l)' <= MaxAbsorbs
               /\ window'[l].n = Len(seen'[l])
               /\ UnderWay(l)' <= window'[l].n /\ UnderWay(l)' <= absorbs'[l]
               /\ window'[l].n - UnderWay(l)' <= (absorbs'[l] - UnderWay(l)') % arm'.diag_every
    <3>1. absorbs'[l] + todo'[l] - 0 <= MaxAbsorbs
      BY <1>1, <1>2, <2>1 DEF IInv, Shape
    <3> QED BY <1>2, <1>6, <3>1 DEF IInv, Counted
  <2> QED BY <2>1, <2>2, <2>3 DEF Counted
<1>9. Untouched' /\ Unmarked' /\ AllTruthful'
  BY <1>2 DEF IInv, Untouched, Unmarked, AllTruthful
<1> QED BY <1>5, <1>8, <1>9 DEF IInv

\* One more sample folded into the window of the layer whose turn it is.
LEMMA FoldTruthful ==
  ASSUME Shape, AllTruthful, NEW l \in Layers, NEW err \in [Streams -> Readings],
         window' = [window EXCEPT ![l].n = @ + 1,
                                  ![l].err = [s \in Streams |-> NanMax(@[s], err[s])]],
         seen' = [seen EXCEPT ![l] =
                    Append(@, [err |-> err, fixed |-> [s \in Streams |-> FALSE]])]
  PROVE  /\ window' \in [Layers -> Window] /\ seen' \in [Layers -> Seq(Sample)]
         /\ window'[l].n = window[l].n + 1 /\ Len(seen'[l]) = Len(seen[l]) + 1
         /\ \A j \in Layers \ {l} : window'[j] = window[j] /\ seen'[j] = seen[j]
         /\ \A s \in Streams : ~seen'[l][Len(seen'[l])].fixed[s]
         /\ AllTruthful'
<1> DEFINE sample == [err |-> err, fixed |-> [s \in Streams |-> FALSE]]
           folded == [s \in Streams |-> NanMax(window[l].err[s], err[s])]
           w == [n |-> window[l].n + 1, err |-> folded, fixed |-> window[l].fixed]
           old == seen[l]
<1>1. window[l] \in Window /\ window \in [Layers -> Window] /\ seen \in [Layers -> Seq(Sample)]
      /\ old \in Seq(Sample) /\ Len(old) \in Nat
  BY DEF Shape
<1>2. \A s \in Streams : window[l].err[s] \in Readings /\ err[s] \in Readings
  BY <1>1 DEF Window
<1>3. folded \in [Streams -> Readings]
  BY <1>2, WorseOfTwo
<1>4. w \in Window
  BY <1>1, <1>3 DEF Window
<1>5. window' = [window EXCEPT ![l] = w]
  <2>1. [window[l] EXCEPT !.n = @ + 1, !.err = [s \in Streams |-> NanMax(@[s], err[s])]] = w
    <3> DEFINE x == [window[l] EXCEPT !.n = @ + 1]
    <3>1. x \in Window /\ x.err = window[l].err /\ x.n = window[l].n + 1
          /\ x.fixed = window[l].fixed
      <4>1. \A r \in Window : LET y == [r EXCEPT !.n = @ + 1]
                             IN y \in Window /\ y.err = r.err /\ y.n = r.n + 1 /\ y.fixed = r.fixed
        BY DEF Window
      <4> QED BY <1>1, <4>1
    <3>2. [s \in Streams |-> NanMax(x.err[s], err[s])] = folded
      BY <3>1
    <3> HIDE DEF x, folded
    <3>3. [x EXCEPT !.err = folded] = w
      BY <3>1 DEF Window, w
    <3> QED BY <3>2, <3>3 DEF x
  <2>2. window' = [window EXCEPT ![l] =
          [window[l] EXCEPT !.n = @ + 1, !.err = [s \in Streams |-> NanMax(@[s], err[s])]]]
    BY <1>1
  <2> QED BY <2>1, <2>2
<1>6. sample \in Sample
  BY DEF Sample
<1>7. seen' = [seen EXCEPT ![l] = Append(old, sample)]
  OBVIOUS
<1> HIDE DEF sample, w
<1>8. /\ window' \in [Layers -> Window] /\ window'[l] = w
      /\ seen' \in [Layers -> Seq(Sample)] /\ seen'[l] = Append(old, sample)
      /\ \A j \in Layers \ {l} : window'[j] = window[j] /\ seen'[j] = seen[j]
  <2>1. Append(old, sample) \in Seq(Sample)
    BY <1>1, <1>6
  <2>2. /\ window' \in [Layers -> Window] /\ window'[l] = w
        /\ \A j \in Layers \ {l} : window'[j] = window[j]
    BY <1>1, <1>4, <1>5
  <2> DEFINE new == Append(old, sample)
  <2>3. seen' = [seen EXCEPT ![l] = new] /\ new \in Seq(Sample)
    BY <1>7, <2>1
  <2> HIDE DEF new, old
  <2>4. /\ seen' \in [Layers -> Seq(Sample)] /\ seen'[l] = new
        /\ \A j \in Layers \ {l} : seen'[j] = seen[j]
    BY <1>1, <2>3
  <2> QED BY <2>2, <2>4 DEF new
<1>9. /\ Len(Append(old, sample)) = Len(old) + 1
      /\ DOMAIN Append(old, sample) = 1 .. Len(old) + 1 /\ DOMAIN old = 1 .. Len(old)
      /\ \A i \in 1 .. Len(old) : Append(old, sample)[i] = old[i]
      /\ Append(old, sample)[Len(old) + 1] = sample
  BY <1>1, <1>6
<1>10. ASSUME NEW s \in Streams
       PROVE  LET errs == {Append(old, sample)[i].err[s] :
                             i \in DOMAIN Append(old, sample)} \cup {0}
              IN /\ w.err[s] \in errs
                 /\ NaN \in errs => w.err[s] = NaN
                 /\ NaN \notin errs => \A e \in errs : w.err[s] >= e
                 /\ w.fixed[s] <=> \E i \in DOMAIN Append(old, sample) :
                                       Append(old, sample)[i].fixed[s]
  <2> DEFINE before == {old[i].err[s] : i \in DOMAIN old} \cup {0}
             errs == {Append(old, sample)[i].err[s] : i \in DOMAIN Append(old, sample)} \cup {0}
  <2>1. errs = before \cup {err[s]}
    <3>1. \A i \in 1 .. Len(old) + 1 : i \in 1 .. Len(old) \/ i = Len(old) + 1
      BY <1>1
    <3>2. 1 .. Len(old) \subseteq 1 .. Len(old) + 1 /\ Len(old) + 1 \in 1 .. Len(old) + 1
      BY <1>1
    <3>3. sample.err = err
      BY DEF sample
    <3> QED BY <1>9, <3>1, <3>2, <3>3
  <2>2. /\ window[l].err[s] \in before
        /\ NaN \in before => window[l].err[s] = NaN
        /\ NaN \notin before => \A e \in before : window[l].err[s] >= e
        /\ window[l].fixed[s] <=> \E i \in DOMAIN old : old[i].fixed[s]
    BY DEF AllTruthful, Truthful
  <2>3. \A e \in before : e \in Readings
    <3>1. \A i \in DOMAIN old : old[i].err[s] \in Readings
      <4>1. \A i \in DOMAIN old : old[i] \in Sample
        BY <1>1
      <4> QED BY <4>1 DEF Sample
    <3> QED BY <3>1, BoundsAssumption DEF Readings
  <2>4. w.err[s] = NanMax(window[l].err[s], err[s]) /\ w.fixed = window[l].fixed
    BY DEF w
  <2> HIDE DEF before, errs
  <2>5. w.err[s] \in errs /\ (NaN \in errs => w.err[s] = NaN)
    BY <1>2, <2>1, <2>2, <2>4, WorseOfTwo
  <2>6. NaN \notin errs => \A e \in errs : w.err[s] >= e
    <3> SUFFICES ASSUME NaN \notin errs, NEW e \in errs PROVE w.err[s] >= e
      OBVIOUS
    <3>1. NaN \notin before /\ window[l].err[s] # NaN /\ err[s] # NaN
      BY <2>1, <2>2
    <3>2. /\ w.err[s] >= window[l].err[s] /\ w.err[s] >= err[s]
          /\ w.err[s] \in Int /\ window[l].err[s] \in Int /\ err[s] \in Int
      BY <1>2, <2>4, <3>1, WorseOfTwo, BoundsAssumption DEF Readings, NaN
    <3>3. CASE e \in before
      <4>1. e \in Int /\ window[l].err[s] >= e
        BY <2>2, <2>3, <3>1, <3>3, BoundsAssumption DEF Readings, NaN
      <4> QED BY <3>2, <4>1
    <3>4. CASE e = err[s]
      BY <3>2, <3>4
    <3> QED BY <2>1, <3>3, <3>4
  <2>7. w.fixed[s] <=> \E i \in DOMAIN Append(old, sample) : Append(old, sample)[i].fixed[s]
    <3>1. ~sample.fixed[s]
      BY DEF sample
    <3>2. \A i \in 1 .. Len(old) + 1 : i \in 1 .. Len(old) \/ i = Len(old) + 1
      BY <1>1
    <3>3. \A i \in 1 .. Len(old) : i \in 1 .. Len(old) + 1
      BY <1>1
    <3> QED BY <1>9, <2>2, <2>4, <3>1, <3>2, <3>3, Zenon
  <2> QED BY <2>5, <2>6, <2>7 DEF errs
<1>11. AllTruthful'
  <2>1. Truthful(w, Append(old, sample))
    BY <1>10, Zenon DEF Truthful
  <2> HIDE DEF old
  <2> QED BY <1>8, <2>1 DEF AllTruthful
<1>12. w.n = window[l].n + 1
  BY DEF w
<1>13. \A s \in Streams : ~seen'[l][Len(seen'[l])].fixed[s]
  <2>1. \A s \in Streams : ~sample.fixed[s]
    BY DEF sample
  <2> QED BY <1>8, <1>9, <2>1
<1> QED BY <1>8, <1>9, <1>11, <1>12, <1>13

(* Measuring an absorb folds its readings into the window.                 *)
LEMMA MeasureKeeps ==
  ASSUME IInv, Measure
  PROVE  IInv'
<1>1. PICK err \in [Streams -> Readings] :
        /\ reading' = err
        /\ window' = [window EXCEPT ![Turn].n = @ + 1,
                                    ![Turn].err = [s \in Streams |-> NanMax(@[s], err[s])]]
        /\ seen' = [seen EXCEPT ![Turn] =
                     Append(@, [err |-> err, fixed |-> [s \in Streams |-> FALSE]])]
  BY DEF Measure
<1>2. Shape /\ Counted /\ AllTruthful /\ pc = "absorb" /\ pc' = "repair"
      /\ absorbs' = [absorbs EXCEPT ![Turn] = @ + 1]
      /\ UNCHANGED <<arm, batch, todo, failed, diag, drained, ended>>
  BY DEF IInv, Measure, rows
<1>3. Turn \in Layers /\ todo[Turn] > 0
  BY <1>2, TurnIsLayer
<1>4. /\ window' \in [Layers -> Window] /\ seen' \in [Layers -> Seq(Sample)]
      /\ window'[Turn].n = window[Turn].n + 1 /\ Len(seen'[Turn]) = Len(seen[Turn]) + 1
      /\ \A j \in Layers \ {Turn} : window'[j] = window[j] /\ seen'[j] = seen[j]
      /\ \A s \in Streams : ~seen'[Turn][Len(seen'[Turn])].fixed[s]
      /\ AllTruthful'
  BY <1>1, <1>2, <1>3, FoldTruthful
<1>5. /\ absorbs' \in [Layers -> Nat] /\ absorbs'[Turn] = absorbs[Turn] + 1
      /\ \A j \in Layers \ {Turn} : absorbs'[j] = absorbs[j]
  BY <1>2, <1>3 DEF Shape
<1>6. Shape'
  BY <1>1, <1>2, <1>4, <1>5 DEF Shape
<1>7. Turn' = Turn /\ Driven' = Driven
  BY <1>2 DEF Turn, Driven
<1>8. \A l \in Layers : UnderWay(l) = 0 /\ UnderWay(l)' = IF l = Turn THEN 1 ELSE 0
  BY <1>2, <1>7 DEF UnderWay
<1>9. Counted'
  <2>1. ASSUME NEW l \in Layers
        PROVE  /\ absorbs'[l] + todo'[l] - UnderWay(l)' <= MaxAbsorbs
               /\ window'[l].n = Len(seen'[l])
               /\ UnderWay(l)' <= window'[l].n /\ UnderWay(l)' <= absorbs'[l]
               /\ window'[l].n - UnderWay(l)' <= (absorbs'[l] - UnderWay(l)') % arm.diag_every
               /\ l \notin Driven' => absorbs'[l] = 0 /\ todo'[l] = 0 /\ window'[l] = EmptyWindow
    <3>0. absorbs[l] \in Nat /\ window[l].n \in Nat
      BY <1>2 DEF Shape, Window
    <3>1. /\ absorbs[l] \in Nat /\ todo[l] \in Nat /\ window[l].n \in Nat /\ MaxAbsorbs \in Nat
          /\ absorbs[l] + todo[l] - 0 <= MaxAbsorbs /\ window[l].n = Len(seen[l])
          /\ window[l].n - 0 <= (absorbs[l] - 0) % arm.diag_every
          /\ l \notin Driven => absorbs[l] = 0 /\ todo[l] = 0 /\ window[l] = EmptyWindow
      BY <1>2, <1>8, BoundsAssumption DEF Shape, Counted, Window
    <3>2. CASE l = Turn
      <4>1. /\ absorbs'[l] = absorbs[l] + 1 /\ window'[l].n = window[l].n + 1
            /\ Len(seen'[l]) = Len(seen[l]) + 1 /\ UnderWay(l)' = 1 /\ todo'[l] = todo[l]
        BY <1>2, <1>4, <1>5, <1>8, <3>2
      <4>2. l \in Driven' /\ todo[l] > 0
        BY <1>3, <1>7, <3>1, <3>2
      <4>3. absorbs'[l] - 1 = absorbs[l] - 0 /\ window'[l].n - 1 = window[l].n - 0
        BY <3>1, <4>1
      <4> QED BY <3>1, <4>1, <4>2, <4>3
    <3>3. CASE l # Turn
      <4>1. /\ absorbs'[l] = absorbs[l] /\ window'[l] = window[l] /\ seen'[l] = seen[l]
            /\ UnderWay(l)' = 0 /\ todo'[l] = todo[l] /\ (l \notin Driven' => l \notin Driven)
        BY <1>2, <1>4, <1>5, <1>7, <1>8, <3>3
      <4>2. window'[l].n = window[l].n /\ Len(seen'[l]) = Len(seen[l])
        BY <4>1
      <4>3. UnderWay(l)' <= window'[l].n /\ UnderWay(l)' <= absorbs'[l]
        BY <3>0, <4>1, <4>2
      <4>4. /\ absorbs'[l] + todo'[l] - UnderWay(l)' <= MaxAbsorbs
            /\ window'[l].n = Len(seen'[l])
            /\ window'[l].n - UnderWay(l)' <= (absorbs'[l] - UnderWay(l)') % arm.diag_every
        BY <3>1, <4>1, <4>2
      <4>5. l \notin Driven' => absorbs'[l] = 0 /\ todo'[l] = 0 /\ window'[l] = EmptyWindow
        BY <3>1, <4>1
      <4> QED BY <4>2, <4>3, <4>4, <4>5
    <3> QED BY <3>2, <3>3
  <2>2. batch # 0
    BY <1>2 DEF Shape
  <2> QED BY <1>2, <2>1, <2>2 DEF Counted
<1>10. Untouched'
  BY <1>2 DEF Untouched
<1>11. Unmarked'
  BY <1>2, <1>4, <1>7, <1>3 DEF Unmarked
<1> QED BY <1>4, <1>6, <1>9, <1>10, <1>11 DEF IInv

\* The last sample and the window record the repairs of the running absorb.
LEMMA MarkTruthful ==
  ASSUME Shape, AllTruthful, NEW l \in Layers, Len(seen[l]) > 0,
         NEW fixed \in [Streams -> BOOLEAN],
         \A s \in Streams : ~seen[l][Len(seen[l])].fixed[s],
         window' = [window EXCEPT ![l].fixed = [s \in Streams |-> @[s] \/ fixed[s]]],
         seen' = [seen EXCEPT ![l][Len(seen[l])].fixed = fixed]
  PROVE  /\ window' \in [Layers -> Window] /\ seen' \in [Layers -> Seq(Sample)]
         /\ window'[l].n = window[l].n /\ Len(seen'[l]) = Len(seen[l])
         /\ \A j \in Layers \ {l} : window'[j] = window[j] /\ seen'[j] = seen[j]
         /\ seen'[l][Len(seen[l])].fixed = fixed
         /\ AllTruthful'
<1> DEFINE old == seen[l]
           n == Len(old)
           merged == [s \in Streams |-> window[l].fixed[s] \/ fixed[s]]
           w == [n |-> window[l].n, err |-> window[l].err, fixed |-> merged]
           last == [err |-> old[n].err, fixed |-> fixed]
           new == [i \in 1 .. n |-> IF i = n THEN last ELSE old[i]]
<1>1. /\ window[l] \in Window /\ window \in [Layers -> Window] /\ seen \in [Layers -> Seq(Sample)]
      /\ old \in Seq(Sample) /\ n \in Nat \ {0} /\ n \in 1 .. n /\ old[n] \in Sample
      /\ DOMAIN old = 1 .. n /\ \A i \in 1 .. n : old[i] \in Sample
  BY DEF Shape
<1>2. merged \in [Streams -> BOOLEAN]
  OBVIOUS
<1>3. w \in Window
  BY <1>1, <1>2 DEF Window
<1>4. window' = [window EXCEPT ![l] = w]
  <2>1. window' = [window EXCEPT ![l] =
          [window[l] EXCEPT !.fixed = [s \in Streams |-> window[l].fixed[s] \/ fixed[s]]]]
    BY <1>1
  <2>2. \A r \in Window, m \in [Streams -> BOOLEAN] :
          [r EXCEPT !.fixed = m] = [n |-> r.n, err |-> r.err, fixed |-> m]
    BY DEF Window
  <2>3. [window[l] EXCEPT !.fixed = merged] = w
    BY <1>1, <2>2
  <2> QED BY <2>1, <2>3
<1>5. last \in Sample
  BY <1>1 DEF Sample
<1>6. new \in Seq(Sample) /\ Len(new) = n /\ DOMAIN new = 1 .. n
      /\ new[n] = last /\ \A i \in 1 .. n : i # n => new[i] = old[i]
  <2> HIDE DEF last, old, n
  <2>1. \A i \in 1 .. n : new[i] = IF i = n THEN last ELSE old[i]
    OBVIOUS
  <2>2. DOMAIN new = 1 .. n
    OBVIOUS
  <2>3. \A i \in 1 .. n : (IF i = n THEN last ELSE old[i]) \in Sample
    BY <1>1, <1>5
  <2>4. new \in [1 .. n -> Sample]
    BY <2>3
  <2> HIDE DEF new
  <2>5. new \in Seq(Sample)
    <3>1. n \in Nat
      BY <1>1
    <3>2. new \in UNION {[1 .. m -> Sample] : m \in Nat}
      BY <2>4, <3>1
    <3> QED BY <3>2, SeqDef, Zenon
  <2>6. Len(new) = n
    BY <1>1, <2>2, <2>5, LenProperties
  <2> QED BY <1>1, <2>1, <2>2, <2>5, <2>6
<1>7. seen' = [seen EXCEPT ![l] = new]
  <2>1. seen' = [seen EXCEPT ![l] = [old EXCEPT ![n] = [old[n] EXCEPT !.fixed = fixed]]]
    BY <1>1
  <2>2. \A r \in Sample : [r EXCEPT !.fixed = fixed] = [err |-> r.err, fixed |-> fixed]
    BY DEF Sample
  <2>3. [old[n] EXCEPT !.fixed = fixed] = last
    BY <1>1, <2>2
  <2> HIDE DEF last
  <2>4. [old EXCEPT ![n] = last] = new
    BY <1>1
  <2> QED BY <2>1, <2>3, <2>4
<1> HIDE DEF w, new
<1>8. /\ window' \in [Layers -> Window] /\ window'[l] = w
      /\ seen' \in [Layers -> Seq(Sample)] /\ seen'[l] = new
      /\ \A j \in Layers \ {l} : window'[j] = window[j] /\ seen'[j] = seen[j]
  BY <1>1, <1>3, <1>4, <1>6, <1>7, ZenonT(40)
<1>9. Truthful(w, new)
  <2> SUFFICES ASSUME NEW s \in Streams
               PROVE  LET errs == {new[i].err[s] : i \in DOMAIN new} \cup {0}
                      IN /\ w.err[s] \in errs
                         /\ NaN \in errs => w.err[s] = NaN
                         /\ NaN \notin errs => \A e \in errs : w.err[s] >= e
                         /\ w.fixed[s] <=> \E i \in DOMAIN new : new[i].fixed[s]
    BY DEF Truthful
  <2>1. \A i \in 1 .. n : new[i].err = old[i].err
    BY <1>6
  <2>2. w.err = window[l].err /\ (w.fixed[s] <=> (window[l].fixed[s] \/ fixed[s]))
    BY DEF w
  <2>3. {new[i].err[s] : i \in DOMAIN new} = {old[i].err[s] : i \in DOMAIN old}
    BY <1>1, <1>6, <2>1
  <2> DEFINE errs == {old[i].err[s] : i \in DOMAIN old} \cup {0}
  <2>4. /\ window[l].err[s] \in errs
        /\ NaN \in errs => window[l].err[s] = NaN
        /\ NaN \notin errs => \A e \in errs : window[l].err[s] >= e
        /\ window[l].fixed[s] <=> \E i \in DOMAIN old : old[i].fixed[s]
    BY DEF AllTruthful, Truthful
  <2>5. w.fixed[s] <=> \E i \in DOMAIN new : new[i].fixed[s]
    <3>1. last.fixed[s] <=> fixed[s]
      OBVIOUS
    <3>2. ~old[n].fixed[s]
      OBVIOUS
    <3> HIDE DEF last, old, n
    <3> QED BY <1>1, <1>6, <2>2, <2>4, <3>1, <3>2, Zenon
  <2> HIDE DEF old, n
  <2> QED BY <2>2, <2>3, <2>4, <2>5
<1>10. AllTruthful'
  BY <1>8, <1>9 DEF AllTruthful
<1> QED BY <1>6, <1>8, <1>10 DEF w

(* Repairing streams marks the running sample.                             *)
LEMMA RepairKeeps ==
  ASSUME IInv, Repair
  PROVE  IInv'
<1>1. PICK rank_changed \in IF arm.qr_every = None THEN {{}} ELSE SUBSET Streams :
       LET fixed == [s \in Streams |-> Due(s, rank_changed)]
       IN /\ reading' \in [Streams -> Readings]
          /\ \A s \in Streams : ~fixed[s] => reading'[s] = reading[s]
          /\ window' = [window EXCEPT ![Turn].fixed =
                          [s \in Streams |-> @[s] \/ fixed[s]]]
          /\ seen' = [seen EXCEPT ![Turn][Len(seen[Turn])].fixed = fixed]
  BY DEF Repair
<1> DEFINE fixed == [s \in Streams |-> Due(s, rank_changed)]
<1>2. /\ Shape /\ Counted /\ AllTruthful /\ Unmarked /\ pc = "repair" /\ pc' = "settle"
      /\ UNCHANGED <<arm, batch, todo, failed, absorbs, diag, drained, ended>>
  BY DEF IInv, Repair, rows
<1>3. Turn \in Layers /\ todo[Turn] > 0
  BY <1>2, TurnIsLayer
<1>4. fixed \in [Streams -> BOOLEAN]
  BY DEF Due
<1>5. Len(seen[Turn]) > 0
  <2>1. UnderWay(Turn) = 1
    BY <1>2 DEF UnderWay
  <2>2. Len(seen[Turn]) >= 1 /\ Len(seen[Turn]) \in Nat
    BY <1>2, <1>3, <2>1, LayerFacts
  <2> QED BY <2>2
<1> HIDE DEF fixed
<1>6. /\ reading' \in [Streams -> Readings]
      /\ \A s \in Streams : ~fixed[s] => reading'[s] = reading[s]
      /\ window' = [window EXCEPT ![Turn].fixed = [s \in Streams |-> @[s] \/ fixed[s]]]
      /\ seen' = [seen EXCEPT ![Turn][Len(seen[Turn])].fixed = fixed]
  BY <1>1 DEF fixed
<1>7. /\ window' \in [Layers -> Window] /\ seen' \in [Layers -> Seq(Sample)]
      /\ window'[Turn].n = window[Turn].n /\ Len(seen'[Turn]) = Len(seen[Turn])
      /\ \A j \in Layers \ {Turn} : window'[j] = window[j] /\ seen'[j] = seen[j]
      /\ seen'[Turn][Len(seen[Turn])].fixed = fixed
      /\ AllTruthful'
  BY <1>2, <1>3, <1>4, <1>5, <1>6, MarkTruthful DEF Unmarked
<1>8. Turn' = Turn /\ Driven' = Driven
  BY <1>2 DEF Turn, Driven
<1>9. \A l \in Layers : UnderWay(l)' = UnderWay(l)
  BY <1>2, <1>8 DEF UnderWay
<1>10. Shape'
  BY <1>2, <1>6, <1>7 DEF Shape
<1>11. Counted'
  <2>1. \A l \in Layers : window'[l].n = window[l].n /\ Len(seen'[l]) = Len(seen[l])
    BY <1>7
  <2>2. \A l \in Layers : l \notin Driven => l # Turn
    BY <1>2, <1>3 DEF Counted
  <2> QED BY <1>2, <1>7, <1>8, <1>9, <2>1, <2>2 DEF Counted, Shape
<1>12. Untouched'
  <2> SUFFICES ASSUME arm.orth_fix_tol # None, NEW s \in Streams, ~fixed[s]
               PROVE  AtOrBelow(reading'[s], arm.orth_fix_tol)
    BY <1>2, <1>7, <1>8 DEF Untouched
  <2>1. ~Due(s, rank_changed)
    BY DEF fixed
  <2>2. AtOrBelow(reading[s], arm.orth_fix_tol)
    BY <2>1 DEF Due
  <2> QED BY <1>6, <2>2
<1>13. Unmarked'
  BY <1>2 DEF Unmarked
<1> QED BY <1>7, <1>10, <1>11, <1>12, <1>13 DEF IInv

\* A row ends the window of the layer whose absorb is settled.
LEMMA AbortKeeps ==
  ASSUME IInv, Abort
  PROVE  IInv'
<1>1. /\ Shape /\ Counted /\ AllTruthful /\ pc = "settle" /\ pc' = "idle"
      /\ window' = [window EXCEPT ![Turn] = EmptyWindow]
      /\ seen' = [seen EXCEPT ![Turn] = <<>>]
      /\ todo' = [l \in Layers |-> 0] /\ failed' = TRUE /\ reading' = Fresh
      /\ UNCHANGED <<arm, batch, absorbs, drained, ended>>
  BY DEF IInv, Abort, FlushDiagWindow, ClearWindow
<1>2. Turn \in Layers /\ todo[Turn] > 0
  BY <1>1, TurnIsLayer
<1>3. EmptyWindow \in Window /\ EmptyWindow.n = 0 /\ <<>> \in Seq(Sample) /\ Len(<<>>) = 0
      /\ Fresh \in [Streams -> Readings]
  BY EmptyWindowTyped, BoundsAssumption DEF Fresh, Readings
<1>4. /\ window' \in [Layers -> Window] /\ window'[Turn] = EmptyWindow
      /\ seen' \in [Layers -> Seq(Sample)] /\ seen'[Turn] = <<>>
      /\ \A j \in Layers \ {Turn} : window'[j] = window[j] /\ seen'[j] = seen[j]
  BY <1>1, <1>2, <1>3 DEF Shape
<1>5. Shape'
  BY <1>1, <1>3, <1>4 DEF Shape
<1>6. \A l \in Layers : UnderWay(l)' = 0 /\ UnderWay(l) = IF l = Turn THEN 1 ELSE 0
  BY <1>1 DEF UnderWay
<1>7. Driven' = Driven
  BY <1>1 DEF Driven
<1>8. Counted'
  <2> SUFFICES ASSUME NEW l \in Layers
               PROVE /\ absorbs[l] + 0 - 0 <= MaxAbsorbs
                     /\ window'[l].n = Len(seen'[l])
                     /\ 0 <= window'[l].n /\ 0 <= absorbs[l]
                     /\ window'[l].n - 0 <= (absorbs[l] - 0) % arm.diag_every
                     /\ l \notin Driven => absorbs[l] = 0 /\ window'[l] = EmptyWindow
    BY <1>1, <1>2, <1>5, <1>6, <1>7, SMTT(30) DEF Counted, Shape
  <2>1. /\ absorbs[l] \in Nat /\ todo[l] \in Nat /\ MaxAbsorbs \in Nat
        /\ absorbs[l] + todo[l] - UnderWay(l) <= MaxAbsorbs /\ UnderWay(l) \in {0, 1}
        /\ arm.diag_every \in Nat \ {0} /\ absorbs[l] % arm.diag_every \in Nat
        /\ window[l].n \in Nat /\ window[l].n = Len(seen[l])
        /\ window[l].n - UnderWay(l) <= (absorbs[l] - UnderWay(l)) % arm.diag_every
        /\ l \notin Driven => absorbs[l] = 0 /\ window[l] = EmptyWindow
    BY <1>1, LayerFacts
  <2>2. absorbs[l] - 0 = absorbs[l] /\ absorbs[l] + 0 - 0 <= MaxAbsorbs
    <3>1. UnderWay(l) = 1 => todo[l] > 0
      BY <1>2, <1>6
    <3> QED BY <2>1, <3>1
  <2>3. CASE l = Turn
    <3>1. l \in Driven
      BY <1>2, <2>3, LayerFacts, <1>1
    <3> QED BY <1>3, <1>4, <2>1, <2>2, <2>3, <3>1
  <2>4. CASE l # Turn
    <3>1. UnderWay(l) = 0 /\ window'[l] = window[l] /\ seen'[l] = seen[l]
      BY <1>4, <1>6, <2>4
    <3> QED BY <2>1, <2>2, <3>1
  <2> QED BY <2>3, <2>4
<1>9. AllTruthful'
  BY <1>1, <1>4, ClearedTruthful
<1>10. Untouched' /\ Unmarked'
  BY <1>1 DEF Untouched, Unmarked
<1> QED BY <1>5, <1>8, <1>9, <1>10 DEF IInv

(* Settling an absorb keeps the invariant.                                 *)
LEMMA SettleKeeps ==
  ASSUME IInv, Settle
  PROVE  IInv'
<1>1. /\ Shape /\ Counted /\ AllTruthful /\ pc = "settle" /\ pc' \in {"idle", "absorb"}
      /\ pc' = IF \A l \in Layers : todo'[l] = 0 THEN "idle" ELSE "absorb"
      /\ \/ /\ absorbs[Turn] % arm.diag_every = 0
            /\ window' = [window EXCEPT ![Turn] = EmptyWindow]
            /\ seen' = [seen EXCEPT ![Turn] = <<>>]
         \/ /\ absorbs[Turn] % arm.diag_every # 0
            /\ window' = window /\ seen' = seen
      /\ todo' = [todo EXCEPT ![Turn] = @ - 1] /\ reading' = Fresh
      /\ UNCHANGED <<arm, batch, failed, absorbs, drained, ended>>
  BY DEF IInv, Settle, FlushDiagWindow, ClearWindow
<1>2. Turn \in Layers /\ todo[Turn] > 0
  BY <1>1, TurnIsLayer
<1>3. EmptyWindow \in Window /\ EmptyWindow.n = 0 /\ <<>> \in Seq(Sample) /\ Len(<<>>) = 0
      /\ Fresh \in [Streams -> Readings]
  BY EmptyWindowTyped, BoundsAssumption DEF Fresh, Readings
<1>4. /\ window' \in [Layers -> Window] /\ seen' \in [Layers -> Seq(Sample)]
      /\ \A j \in Layers \ {Turn} : window'[j] = window[j] /\ seen'[j] = seen[j]
      /\ \/ window'[Turn] = window[Turn] /\ seen'[Turn] = seen[Turn]
            /\ absorbs[Turn] % arm.diag_every # 0
         \/ window'[Turn] = EmptyWindow /\ seen'[Turn] = <<>>
  BY <1>1, <1>2, <1>3 DEF Shape
<1>5. /\ todo' \in [Layers -> Nat] /\ todo'[Turn] = todo[Turn] - 1
      /\ \A j \in Layers \ {Turn} : todo'[j] = todo[j]
  BY <1>1, <1>2 DEF Shape
<1>6. Shape'
  BY <1>1, <1>3, <1>4, <1>5 DEF Shape
<1>7. \A l \in Layers : UnderWay(l)' = 0 /\ UnderWay(l) = IF l = Turn THEN 1 ELSE 0
  BY <1>1 DEF UnderWay
<1>8. Driven' = Driven
  BY <1>1 DEF Driven
<1>9. Counted'
  <2>0. batch # 0 /\ batch' = batch
    BY <1>1 DEF Shape
  <2> SUFFICES ASSUME NEW l \in Layers
               PROVE /\ absorbs[l] + todo'[l] - 0 <= MaxAbsorbs
                     /\ window'[l].n = Len(seen'[l])
                     /\ 0 <= window'[l].n /\ 0 <= absorbs[l]
                     /\ window'[l].n - 0 <= (absorbs[l] - 0) % arm.diag_every
                     /\ l \notin Driven =>
                          absorbs[l] = 0 /\ todo'[l] = 0 /\ window'[l] = EmptyWindow
    BY <1>1, <1>7, <1>8, <2>0 DEF Counted
  <2>1. /\ absorbs[l] \in Nat /\ todo[l] \in Nat /\ MaxAbsorbs \in Nat
        /\ absorbs[l] + todo[l] - UnderWay(l) <= MaxAbsorbs
        /\ arm.diag_every \in Nat \ {0} /\ absorbs[l] % arm.diag_every \in Nat
        /\ window[l].n \in Nat /\ window[l].n = Len(seen[l])
        /\ UnderWay(l) <= window[l].n /\ UnderWay(l) <= absorbs[l]
        /\ window[l].n - UnderWay(l) <= (absorbs[l] - UnderWay(l)) % arm.diag_every
        /\ l \notin Driven => absorbs[l] = 0 /\ todo[l] = 0 /\ window[l] = EmptyWindow
    BY <1>1, LayerFacts
  <2>2. absorbs[l] - 0 = absorbs[l]
    BY <2>1
  <2>3. CASE l = Turn
    <3>1. UnderWay(l) = 1 /\ todo'[l] = todo[l] - 1 /\ l \in Driven
      BY <1>2, <1>5, <1>7, <2>1, <2>3
    <3>2. absorbs[l] - 1 \in Nat /\ (absorbs[l] - 1) + 1 = absorbs[l]
      BY <2>1, <3>1
    <3>3. CASE window'[l] = window[l] /\ seen'[l] = seen[l] /\ absorbs[l] % arm.diag_every # 0
      <4> DEFINE a == absorbs[l] - 1
                 d == arm.diag_every
      <4>1. a \in Nat /\ d \in Nat \ {0} /\ a + 1 = absorbs[l]
        BY <2>1, <3>2
      <4>2. absorbs[l] % d # 0
        BY <3>3
      <4>3. window[l].n - 1 <= a % d
        BY <2>1, <3>1
      <4> HIDE DEF a, d
      <4>4. a % d \in 0 .. d - 1 /\ ((a + 1) % d # 0 => (a + 1) % d = (a % d) + 1)
        BY <4>1, NextModulo
      <4>5. absorbs[l] % d = (a % d) + 1 /\ a % d \in Int
        BY <4>1, <4>2, <4>4
      <4>6. window[l].n <= absorbs[l] % d
        BY <2>1, <4>3, <4>5
      <4> QED BY <2>1, <2>2, <3>1, <3>3, <4>6 DEF d
    <3>4. CASE window'[l] = EmptyWindow /\ seen'[l] = <<>>
      <4>1. absorbs[l] + todo'[l] - 0 <= MaxAbsorbs
        BY <2>1, <3>1
      <4> QED BY <1>3, <2>1, <2>2, <3>1, <3>4, <4>1
    <3> QED BY <1>4, <2>3, <3>3, <3>4
  <2>4. CASE l # Turn
    <3>1. /\ UnderWay(l) = 0 /\ window'[l] = window[l] /\ seen'[l] = seen[l]
          /\ todo'[l] = todo[l]
      BY <1>4, <1>5, <1>7, <2>4
    <3> QED BY <2>1, <2>2, <3>1
  <2> QED BY <2>3, <2>4
<1>10. AllTruthful'
  BY <1>1, <1>4, ClearedTruthful
<1>11. Untouched' /\ Unmarked'
  BY <1>1 DEF Untouched, Unmarked
<1> QED BY <1>6, <1>9, <1>10, <1>11 DEF IInv

\* Draining and resetting end every window.
LEMMA WindowsEndedKeep ==
  ASSUME IInv, pc = "idle", NoWindows, UNCHANGED <<arm, pc, todo, reading>>,
         \/ UNCHANGED <<batch, failed, absorbs>>
         \/ batch' = 0 /\ failed' = FALSE /\ absorbs' = [l \in Layers |-> 0]
  PROVE  IInv'
<1>1. EmptyWindow \in Window /\ EmptyWindow.n = 0 /\ <<>> \in Seq(Sample) /\ Len(<<>>) = 0
  BY EmptyWindowTyped
<1>2. /\ window' \in [Layers -> Window] /\ seen' \in [Layers -> Seq(Sample)]
      /\ \A l \in Layers : window'[l] = EmptyWindow /\ seen'[l] = <<>>
  BY <1>1 DEF NoWindows
<1>3. Shape'
  <2>1. batch' \in 0 .. MaxBatch /\ absorbs' \in [Layers -> Nat]
    BY BoundsAssumption DEF IInv, Shape
  <2>2. failed' \in BOOLEAN
    BY Zenon DEF IInv, Shape
  <2> QED BY <1>2, <2>1, <2>2 DEF IInv, Shape
<1>4. \A l \in Layers : UnderWay(l)' = 0 /\ UnderWay(l) = 0 /\ todo[l] = 0
  BY DEF UnderWay, IInv, Shape
<1>5. ASSUME NEW l \in Layers
      PROVE  /\ absorbs'[l] \in Nat /\ absorbs'[l] <= MaxAbsorbs
             /\ absorbs'[l] % arm.diag_every \in Nat
             /\ (l \notin Driven' => absorbs'[l] = 0) /\ (batch' = 0 => absorbs'[l] = 0)
  <2>1. arm.diag_every \in Nat \ {0} /\ MaxAbsorbs \in Nat
    BY ArmTypes DEF IInv
  <2>2. absorbs'[l] \in Nat /\ absorbs'[l] <= MaxAbsorbs
    BY <1>4, <2>1 DEF IInv, Shape, Counted
  <2>3. (l \notin Driven' => absorbs'[l] = 0) /\ (batch' = 0 => absorbs'[l] = 0)
    BY DEF IInv, Counted, Driven
  <2> QED BY <2>1, <2>2, <2>3
<1>6. Counted'
  <2> SUFFICES ASSUME NEW l \in Layers
               PROVE /\ absorbs'[l] + todo'[l] - 0 <= MaxAbsorbs
                     /\ window'[l].n = Len(seen'[l])
                     /\ 0 <= window'[l].n /\ 0 <= absorbs'[l]
                     /\ window'[l].n - 0 <= (absorbs'[l] - 0) % arm.diag_every
                     /\ todo'[l] = 0
    BY <1>2, <1>4, <1>5 DEF Counted
  <2>1. absorbs'[l] - 0 = absorbs'[l] /\ absorbs'[l] + 0 - 0 = absorbs'[l]
    BY <1>5
  <2> QED BY <1>1, <1>2, <1>4, <1>5, <2>1
<1>7. AllTruthful'
  BY <1>2, ClearedTruthful DEF IInv
<1>8. Untouched' /\ Unmarked'
  BY DEF Untouched, Unmarked
<1> QED BY <1>3, <1>6, <1>7, <1>8 DEF IInv

(* Every step keeps the invariant.                                         *)
LEMMA NextKeeps == IInv /\ [Next]_vars => IInv'
<1> SUFFICES ASSUME IInv, [Next]_vars PROVE IInv'
  OBVIOUS
<1>1. CASE UNCHANGED vars
  <2>1. UNCHANGED <<arm, batch, pc, todo, failed, absorbs, reading, window, seen>>
    BY <1>1 DEF vars, guard, rows
  <2>2. Turn' = Turn /\ Driven' = Driven /\ \A l \in Layers : UnderWay(l)' = UnderWay(l)
    BY <2>1 DEF Turn, Driven, UnderWay
  <2>3. Shape'
    BY <2>1 DEF IInv, Shape
  <2>4. Counted'
    BY <2>1, <2>2 DEF IInv, Counted
  <2>5. Untouched' /\ Unmarked' /\ AllTruthful'
    BY <2>1, <2>2 DEF IInv, Untouched, Unmarked, AllTruthful
  <2> QED BY <2>3, <2>4, <2>5 DEF IInv
<1>2. CASE Next
  <2>1. CASE DrainDiag
    BY <2>1, WindowsEndedKeep DEF DrainDiag
  <2>2. CASE Reset
    BY <2>2, WindowsEndedKeep DEF Reset
  <2> QED BY <1>2, <2>1, <2>2, UpdateKeeps, MeasureKeeps, RepairKeeps, AbortKeeps,
          SettleKeeps DEF Next
<1> QED BY <1>1, <1>2

(* The invariant holds in every reachable state.                           *)
THEOREM Inductive == Spec => []IInv
BY InitHolds, NextKeeps, PTL DEF Spec

(* The variables stay in their types.                                      *)
THEOREM TypeCorrect == Spec => []TypeOK
<1>1. IInv => TypeOK
  <2> SUFFICES ASSUME IInv PROVE TypeOK
    OBVIOUS
  <2>1. ASSUME NEW l \in Layers
        PROVE  /\ todo[l] \in 0 .. MaxAbsorbs /\ absorbs[l] \in 0 .. MaxAbsorbs
               /\ window[l].n \in 0 .. arm.diag_every
    <3>1. /\ UnderWay(l) \in {0, 1} /\ arm.diag_every \in Nat \ {0} /\ MaxAbsorbs \in Nat
          /\ todo[l] \in Nat /\ absorbs[l] \in Nat /\ window[l].n \in Nat
          /\ absorbs[l] + todo[l] - UnderWay(l) <= MaxAbsorbs
          /\ UnderWay(l) <= absorbs[l]
          /\ window[l].n - UnderWay(l) <= (absorbs[l] - UnderWay(l)) % arm.diag_every
      BY LayerFacts DEF IInv
    <3>2. absorbs[l] - UnderWay(l) \in Nat
      BY <3>1
    <3>3. (absorbs[l] - UnderWay(l)) % arm.diag_every \in 0 .. arm.diag_every - 1
      BY <3>1, <3>2, NextModulo
    <3>4. UnderWay(l) = 1 => todo[l] > 0
      BY TurnIsLayer DEF IInv, UnderWay
    <3> QED BY <3>1, <3>2, <3>3, <3>4
  <2> QED BY <2>1 DEF IInv, Shape, Counted, TypeOK
<1> QED BY <1>1, Inductive, PTL

(* A window reports for each stream the worst reading since it was         *)
(* cleared, nan if any was nan, and a repair exactly when one was made     *)
(* (_guard_orthonormality, _flush_diag_window).                            *)
THEOREM WindowCorrect == Spec => []WindowTruthful
<1>1. IInv => WindowTruthful
  BY DEF IInv, AllTruthful, Truthful, WindowTruthful
<1> QED BY <1>1, Inductive, PTL

(* An absorb raises exactly when a stream ends beyond the abort tolerance, *)
(* and where repairs are on only after that stream was repaired            *)
(* (_guard_orthonormality).                                                *)
THEOREM GuardCorrect == Spec => FailsIffBeyondRepair
<1> DEFINE Judged ==
      arm.orth_abort_tol # None /\ pc = "settle" =>
        LET diverged == {s \in Streams : ~AtOrBelow(reading[s], arm.orth_abort_tol)}
            repaired == {s \in Streams : Last(seen[Turn]).fixed[s]}
        IN /\ failed' <=> diverged # {}
           /\ arm.orth_fix_tol # None => diverged \subseteq repaired
<1>1. IInv /\ [Next]_vars => [Judged]_vars
  <2> SUFFICES ASSUME IInv, Next, arm.orth_abort_tol # None, pc = "settle"
               PROVE  LET diverged == {s \in Streams : ~AtOrBelow(reading[s], arm.orth_abort_tol)}
                          repaired == {s \in Streams : Last(seen[Turn]).fixed[s]}
                      IN /\ failed' <=> diverged # {}
                         /\ arm.orth_fix_tol # None => diverged \subseteq repaired
    OBVIOUS
  <2>1. Abort \/ Settle
    BY DEF Next, Update, Measure, Repair, DrainDiag, Reset
  <2>2. ~failed
    BY DEF IInv, Shape
  <2>3. BeyondRepair <=> {s \in Streams : ~AtOrBelow(reading[s], arm.orth_abort_tol)} # {}
    BY DEF BeyondRepair
  <2>4. failed' <=> BeyondRepair
    BY <2>1, <2>2 DEF Abort, Settle
  <2>5. ASSUME arm.orth_fix_tol # None, NEW s \in Streams,
               ~AtOrBelow(reading[s], arm.orth_abort_tol)
        PROVE  Last(seen[Turn]).fixed[s]
    <3>1. ~AtOrBelow(reading[s], arm.orth_fix_tol)
      <4>1. /\ arm.orth_abort_tol \in Nat /\ arm.orth_fix_tol \in Nat
            /\ arm.orth_abort_tol >= arm.orth_fix_tol /\ reading[s] \in Int
        BY <2>5, ArmTypes, BoundsAssumption DEF IInv, Shape, Readings, NaN
      <4> QED BY <2>5, <4>1 DEF AtOrBelow
    <3> QED BY <2>5, <3>1 DEF IInv, Untouched, Last
  <2> QED BY <2>3, <2>4, <2>5
<1> QED BY <1>1, Inductive, PTL DEF Spec, FailsIffBeyondRepair

(***************************************************************************)
(* What the diagnostic rows tell.                                          *)
(***************************************************************************)

DiagRow == [stream : Nat, layer : Layers, absorbs : Nat, n : Nat]

(* The absorbs the rows of a layer in one stream tell of, and that no two  *)
(* of them tell of one.                                                    *)
Rows(s, g, l) == {i \in DOMAIN s : s[i].stream = g /\ s[i].layer = l}
Covers(s, g, l) == UNION {Absorbed(s[i]) : i \in Rows(s, g, l)}
Apart(s, g, l) ==
  \A i, j \in Rows(s, g, l) : i # j => Absorbed(s[i]) \cap Absorbed(s[j]) = {}

(* The rows say nothing of that layer and stream.                          *)
Silent(s, g, l) == Covers(s, g, l) = {} /\ Apart(s, g, l)

(* Two lists of rows say the same of them.                                 *)
Agree(s, t, g, l) ==
  Covers(s, g, l) = Covers(t, g, l) /\ (Apart(s, g, l) <=> Apart(t, g, l))

(* Telling of the first k absorbs once is covering them apart.             *)
LEMMA TellIsCover ==
  ASSUME NEW s, NEW g, NEW l, NEW k
  PROVE  Tell(s, g, l, k) <=> Covers(s, g, l) = 1 .. k /\ Apart(s, g, l)
BY DEF Tell, Covers, Apart, Rows

(* One list after the other.                                               *)
LEMMA ConcatShape ==
  ASSUME NEW S, NEW s \in Seq(S), NEW t \in Seq(S), NEW u, u = s \o t
  PROVE  /\ u \in Seq(S) /\ DOMAIN u = 1 .. (Len(s) + Len(t))
         /\ Len(s) \in Nat /\ Len(t) \in Nat
         /\ DOMAIN s = 1 .. Len(s) /\ DOMAIN t = 1 .. Len(t)
         /\ \A i \in 1 .. Len(s) : u[i] = s[i]
         /\ \A i \in 1 .. Len(t) : u[Len(s) + i] = t[i]
OBVIOUS

(* It covers what the two cover, and apart when they do and share nothing. *)
LEMMA ConcatCovers ==
  ASSUME NEW S, NEW s \in Seq(S), NEW t \in Seq(S), NEW g, NEW l
  PROVE  /\ s \o t \in Seq(S)
         /\ Covers(s \o t, g, l) = Covers(s, g, l) \cup Covers(t, g, l)
         /\ Apart(s \o t, g, l) <=>
              /\ Apart(s, g, l) /\ Apart(t, g, l)
              /\ Covers(s, g, l) \cap Covers(t, g, l) = {}
<1>1. PICK u : u = s \o t
  OBVIOUS
<1>2. /\ u \in Seq(S) /\ DOMAIN u = 1 .. (Len(s) + Len(t))
      /\ Len(s) \in Nat /\ Len(t) \in Nat
      /\ DOMAIN s = 1 .. Len(s) /\ DOMAIN t = 1 .. Len(t)
      /\ \A i \in 1 .. Len(s) : u[i] = s[i]
      /\ \A i \in 1 .. Len(t) : u[Len(s) + i] = t[i]
  BY <1>1, ConcatShape
<1> DEFINE A == Rows(s, g, l)
           B == Rows(t, g, l)
           n == Len(s)
<1>3. /\ \A i \in A : i \in Rows(u, g, l) /\ u[i] = s[i]
      /\ \A i \in B : n + i \in Rows(u, g, l) /\ u[n + i] = t[i]
  BY <1>2 DEF Rows
<1>4. \A i \in Rows(u, g, l) : \/ i \in A /\ u[i] = s[i]
                               \/ i - n \in B /\ u[i] = t[i - n] /\ i = n + (i - n)
  <2> SUFFICES ASSUME NEW i \in Rows(u, g, l)
               PROVE  \/ i \in A /\ u[i] = s[i]
                      \/ i - n \in B /\ u[i] = t[i - n] /\ i = n + (i - n)
    OBVIOUS
  <2>1. i \in 1 .. (n + Len(t)) /\ u[i].stream = g /\ u[i].layer = l
    BY <1>2 DEF Rows
  <2>2. CASE i <= n
    BY <1>2, <2>1, <2>2 DEF Rows
  <2>3. CASE ~(i <= n)
    <3>1. i - n \in 1 .. Len(t) /\ i = n + (i - n)
      BY <1>2, <2>1, <2>3
    <3>2. u[n + (i - n)] = t[i - n]
      BY <1>2, <3>1
    <3> QED BY <1>2, <2>1, <3>1, <3>2 DEF Rows
  <2> QED BY <2>2, <2>3
<1>5. \A i \in A, j \in B : i # n + j
  BY <1>2 DEF Rows
<1>6. \A i, j \in B : n + i = n + j => i = j
  BY <1>2 DEF Rows
<1> HIDE DEF A, B, n
<1>7. Covers(u, g, l) = Covers(s, g, l) \cup Covers(t, g, l)
  BY <1>3, <1>4 DEF Covers, A, B
<1>8. ASSUME Apart(u, g, l)
      PROVE  Apart(s, g, l) /\ Apart(t, g, l) /\ Covers(s, g, l) \cap Covers(t, g, l) = {}
  <2>1. Apart(s, g, l)
    BY <1>3, <1>8 DEF Apart, A
  <2>2. Apart(t, g, l)
    BY <1>3, <1>6, <1>8 DEF Apart, B
  <2>3. \A i \in A, j \in B : Absorbed(s[i]) \cap Absorbed(t[j]) = {}
    BY <1>3, <1>5, <1>8 DEF Apart
  <2>4. Covers(s, g, l) \cap Covers(t, g, l) = {}
    <3> SUFFICES ASSUME NEW x \in Covers(s, g, l), x \in Covers(t, g, l) PROVE FALSE
      OBVIOUS
    <3>1. (\E i \in A : x \in Absorbed(s[i])) /\ (\E i \in B : x \in Absorbed(t[i]))
      BY DEF Covers, A, B
    <3> QED BY <2>3, <3>1
  <2> QED BY <2>1, <2>2, <2>4
<1>9. ASSUME Apart(s, g, l), Apart(t, g, l), Covers(s, g, l) \cap Covers(t, g, l) = {}
      PROVE  Apart(u, g, l)
  <2>1. \A i \in A, j \in B : Absorbed(s[i]) \cap Absorbed(t[j]) = {}
    BY <1>9 DEF Covers, A, B
  <2> SUFFICES ASSUME NEW i \in Rows(u, g, l), NEW j \in Rows(u, g, l), i # j
               PROVE  Absorbed(u[i]) \cap Absorbed(u[j]) = {}
    BY DEF Apart
  <2>2. CASE i \in A /\ u[i] = s[i] /\ j \in A /\ u[j] = s[j]
    BY <1>9, <2>2 DEF Apart, A
  <2>3. CASE i - n \in B /\ u[i] = t[i - n] /\ i = n + (i - n)
               /\ j - n \in B /\ u[j] = t[j - n] /\ j = n + (j - n)
    <3>1. i - n # j - n
      BY <2>3
    <3> QED BY <1>9, <2>3, <3>1 DEF Apart, B
  <2> QED BY <1>4, <2>1, <2>2, <2>3
<1> QED BY <1>1, <1>2, <1>7, <1>8, <1>9

(* One row says what it tells of.                                          *)
LEMMA OneCovers ==
  ASSUME NEW r, NEW g, NEW l
  PROVE  /\ Covers(<<r>>, g, l) = IF r.stream = g /\ r.layer = l THEN Absorbed(r) ELSE {}
         /\ Apart(<<r>>, g, l)
<1>1. PICK u : u = <<r>>
  OBVIOUS
<1>2. DOMAIN u = {1} /\ u[1] = r
  BY <1>1
<1>3. Rows(u, g, l) = IF r.stream = g /\ r.layer = l THEN {1} ELSE {}
  BY <1>2 DEF Rows
<1>4. Covers(u, g, l) = IF r.stream = g /\ r.layer = l THEN Absorbed(r) ELSE {}
  BY <1>2, <1>3 DEF Covers
<1>5. Apart(u, g, l)
  BY <1>3 DEF Apart
<1> QED BY <1>1, <1>4, <1>5

(* Rows of another layer or stream say nothing.                            *)
LEMMA OthersSilent ==
  ASSUME NEW s, NEW g, NEW l, \A i \in DOMAIN s : s[i].stream # g \/ s[i].layer # l
  PROVE  Silent(s, g, l)
<1>1. Rows(s, g, l) = {}
  BY DEF Rows
<1> QED BY <1>1 DEF Silent, Covers, Apart

(* F is the function by which FlattenSeq joins the first m of lists.       *)
Joins(lists, m, F) ==
  F = [i \in 1 .. m |-> IF i = 1 THEN lists[i] ELSE F[i - 1] \o lists[i]]

(* There is one for every m.                                               *)
LEMMA JoinExists ==
  ASSUME NEW lists, NEW m \in Nat
  PROVE  \E F : Joins(lists, m, F)
<1> DEFINE Missing == {n \in Nat : ~\E F : Joins(lists, n, F)}
<1> SUFFICES ASSUME Missing # {}
             PROVE  FALSE
  OBVIOUS
<1>1. PICK n \in Missing : \A k \in Missing : n <= k
  BY LeastElement
<1>2. n # 0
  <2> SUFFICES ASSUME n = 0 PROVE FALSE
    OBVIOUS
  <2> DEFINE F == [k \in 1 .. 0 |-> <<>>]
  <2>1. Joins(lists, 0, F)
    BY DEF Joins
  <2> QED BY <1>1, <2>1
<1>3. n \in Nat /\ n - 1 \in Nat /\ n - 1 \notin Missing
  BY <1>1, <1>2
<1>4. PICK G : Joins(lists, n - 1, G)
  BY <1>3
<1> DEFINE F == [k \in 1 .. n |->
                  IF k = n THEN IF n = 1 THEN lists[n] ELSE G[n - 1] \o lists[n] ELSE G[k]]
<1>5. \A k \in 1 .. n - 1 : G[k] = IF k = 1 THEN lists[k] ELSE G[k - 1] \o lists[k]
  BY <1>4 DEF Joins
<1>6. \A k \in 1 .. n : F[k] = IF k = 1 THEN lists[k] ELSE F[k - 1] \o lists[k]
  <2> SUFFICES ASSUME NEW k \in 1 .. n
               PROVE  F[k] = IF k = 1 THEN lists[k] ELSE F[k - 1] \o lists[k]
    OBVIOUS
  <2>1. \A i \in 1 .. n - 1 : F[i] = G[i]
    BY <1>3
  <2>2. F[n] = IF n = 1 THEN lists[n] ELSE G[n - 1] \o lists[n]
    BY <1>2, <1>3
  <2>3. CASE k = n
    <3>1. n # 1 => F[n - 1] = G[n - 1]
      BY <1>2, <1>3, <2>1
    <3> HIDE DEF F
    <3> QED BY <2>2, <2>3, <3>1
  <2>4. CASE k # n
    <3>1. k \in 1 .. n - 1 /\ (k # 1 => k - 1 \in 1 .. n - 1)
      BY <1>3, <2>4
    <3>2. F[k] = G[k] /\ (k # 1 => F[k - 1] = G[k - 1])
      BY <2>1, <3>1
    <3> HIDE DEF F
    <3> QED BY <1>5, <3>1, <3>2
  <2> QED BY <2>3, <2>4
<1>7. F = [k \in 1 .. n |-> F[k]]
  OBVIOUS
<1>8. Joins(lists, n, F)
  <2> HIDE DEF F
  <2> QED BY <1>6, <1>7 DEF Joins
<1> QED BY <1>1, <1>8

(* The first n lists joined say what list j says, once it is among them,   *)
(* and nothing before.                                                     *)
SaysOnly(S, lists, j, g, l, n, t) ==
  /\ t \in Seq(S)
  /\ IF n < j THEN Silent(t, g, l) ELSE Agree(t, lists[j], g, l)

(* Lists that are silent but for one, joined, say what that one says.      *)
LEMMA FlattenSays ==
  ASSUME NEW S, NEW lists, Len(lists) \in Nat, DOMAIN lists = 1 .. Len(lists),
         NEW j \in 1 .. Len(lists), NEW g, NEW l,
         \A i \in 1 .. Len(lists) : /\ lists[i] \in Seq(S)
                                    /\ i # j => Silent(lists[i], g, l)
  PROVE  FlattenSeq(lists) \in Seq(S) /\ Agree(FlattenSeq(lists), lists[j], g, l)
<1> DEFINE m == Len(lists)
           F == CHOOSE G : Joins(lists, m, G)
<1>1. m \in Nat /\ m # 0 /\ j \in 1 .. m
  OBVIOUS
<1>2. Joins(lists, m, F)
  BY JoinExists
<1>3. FlattenSeq(lists) = F[m]
  BY <1>1 DEF FlattenSeq, Joins
<1> HIDE DEF F, m
<1>4. \A n \in 1 .. m : F[n] = IF n = 1 THEN lists[n] ELSE F[n - 1] \o lists[n]
  BY <1>2 DEF Joins
<1>5. \A i \in 1 .. m : lists[i] \in Seq(S) /\ (i # j => Silent(lists[i], g, l))
  BY DEF m
<1>6. ASSUME NEW n \in 1 .. m, n # 1, SaysOnly(S, lists, j, g, l, n - 1, F[n - 1])
      PROVE  SaysOnly(S, lists, j, g, l, n, F[n])
  <2>1. F[n] = F[n - 1] \o lists[n]
    BY <1>4, <1>6
  <2>2. PICK t \in Seq(S) : t = F[n - 1]
    BY <1>6 DEF SaysOnly
  <2>3. PICK s \in Seq(S) : s = lists[n]
    BY <1>5
  <2>4. /\ t \o s \in Seq(S)
        /\ Covers(t \o s, g, l) = Covers(t, g, l) \cup Covers(s, g, l)
        /\ Apart(t \o s, g, l) <=>
             Apart(t, g, l) /\ Apart(s, g, l) /\ Covers(t, g, l) \cap Covers(s, g, l) = {}
    BY ConcatCovers
  <2>5. PICK u : u = t \o s
    OBVIOUS
  <2>6. CASE n < j
    <3>1. n - 1 < j /\ n # j
      BY <1>1, <2>6
    <3>2. Silent(t, g, l) /\ Silent(s, g, l)
      BY <1>5, <1>6, <2>2, <2>3, <3>1 DEF SaysOnly
    <3>3. u \in Seq(S) /\ Silent(u, g, l)
      BY <2>4, <2>5, <3>2 DEF Silent
    <3> QED BY <2>1, <2>2, <2>3, <2>5, <2>6, <3>3 DEF SaysOnly
  <2>7. CASE n = j
    <3>1. n - 1 < j /\ ~(n < j)
      BY <1>1, <2>7
    <3>2. Silent(t, g, l)
      BY <1>6, <2>2, <3>1 DEF SaysOnly
    <3>3. u \in Seq(S) /\ Agree(u, s, g, l)
      BY <2>4, <2>5, <3>2 DEF Silent, Agree
    <3> QED BY <2>1, <2>2, <2>3, <2>5, <2>7, <3>1, <3>3 DEF SaysOnly
  <2>8. CASE n > j
    <3>1. ~(n - 1 < j) /\ ~(n < j) /\ n # j
      BY <1>1, <2>8
    <3>2. Agree(t, lists[j], g, l) /\ Silent(s, g, l)
      BY <1>5, <1>6, <2>2, <2>3, <3>1 DEF SaysOnly
    <3>3. u \in Seq(S) /\ Agree(u, lists[j], g, l)
      BY <2>4, <2>5, <3>2 DEF Silent, Agree
    <3> QED BY <2>1, <2>2, <2>3, <2>5, <3>1, <3>3 DEF SaysOnly
  <2> QED BY <1>1, <2>6, <2>7, <2>8
<1>7. SaysOnly(S, lists, j, g, l, 1, F[1])
  <2>1. 1 \in 1 .. m /\ F[1] = lists[1]
    BY <1>1, <1>4
  <2>2. 1 < j <=> 1 # j
    BY <1>1
  <2>3. lists[1] \in Seq(S) /\ (1 # j => Silent(lists[1], g, l))
    BY <1>5, <2>1
  <2>4. Agree(lists[1], lists[1], g, l)
    BY DEF Agree
  <2> QED BY <2>1, <2>2, <2>3, <2>4 DEF SaysOnly
<1> DEFINE Wrong == {n \in 1 .. m : ~SaysOnly(S, lists, j, g, l, n, F[n])}
<1>8. Wrong = {}
  <2> SUFFICES ASSUME Wrong # {} PROVE FALSE
    OBVIOUS
  <2>1. PICK n \in Wrong : \A k \in Wrong : n <= k
    <3>1. Wrong \in SUBSET Nat
      BY <1>1
    <3> QED BY <3>1, LeastElement
  <2>2. n # 1
    BY <1>7, <2>1
  <2>3. n \in 1 .. m /\ n - 1 \in 1 .. m /\ n - 1 \notin Wrong
    BY <1>1, <2>1, <2>2
  <2>4. SaysOnly(S, lists, j, g, l, n, F[n])
    BY <1>6, <2>2, <2>3
  <2> QED BY <2>1, <2>4
<1>9. SaysOnly(S, lists, j, g, l, m, F[m])
  BY <1>1, <1>8
<1>10. ~(m < j)
  BY <1>1
<1> QED BY <1>3, <1>9, <1>10 DEF SaysOnly

(* Lists that are all silent, joined, are silent.                          *)
LEMMA FlattenSilent ==
  ASSUME NEW S, NEW lists, Len(lists) \in Nat \ {0}, DOMAIN lists = 1 .. Len(lists),
         NEW g, NEW l,
         \A i \in 1 .. Len(lists) : lists[i] \in Seq(S) /\ Silent(lists[i], g, l)
  PROVE  FlattenSeq(lists) \in Seq(S) /\ Silent(FlattenSeq(lists), g, l)
<1>1. 1 \in 1 .. Len(lists)
  OBVIOUS
<1>2. FlattenSeq(lists) \in Seq(S) /\ Agree(FlattenSeq(lists), lists[1], g, l)
  BY <1>1, FlattenSays
<1> QED BY <1>1, <1>2 DEF Agree, Silent

(* The rows of the streams up to m.                                        *)
RowsUpTo(m) == {r \in DiagRow : r.stream <= m}

(* Every row is of a stream there has been; in a layer's list those of the *)
(* present stream are its own, and only the layer itself keeps older ones. *)
OwnRows ==
  /\ ended \in Seq([Layers -> Nat])
  /\ drained \in Seq(RowsUpTo(stream)) /\ diag \in [Layers -> Seq(RowsUpTo(stream))]
  /\ \A l \in Layers : \A i \in DOMAIN diag[l] :
       /\ diag[l][i].stream = stream => diag[l][i].layer = l
       /\ l > 0 => diag[l][i].stream = stream

(* What was handed out and what a layer holds tell of the absorbs before   *)
(* its open window once each; of an ended stream's, what was handed out    *)
(* and what the layer itself kept of its rows.                             *)
EachTold ==
  \A l \in Layers :
    /\ Tell(drained \o diag[l], stream, l, absorbs[l] - window[l].n)
    /\ l > 0 => \A g \in DOMAIN ended : Tell(drained \o diag[0], g, l, ended[g][l])

RowsInv == OwnRows /\ EachTold

(* Telling of the first k, for two lists.                                  *)
LEMMA TellTwo ==
  ASSUME NEW S, NEW s \in Seq(S), NEW t \in Seq(S), NEW g, NEW l, NEW k
  PROVE  Tell(s \o t, g, l, k) <=>
           /\ Covers(s, g, l) \cup Covers(t, g, l) = 1 .. k
           /\ Apart(s, g, l) /\ Apart(t, g, l)
           /\ Covers(s, g, l) \cap Covers(t, g, l) = {}
<1>1. PICK u : u = s \o t
  OBVIOUS
<1>2. /\ Covers(u, g, l) = Covers(s, g, l) \cup Covers(t, g, l)
      /\ Apart(u, g, l) <=>
           /\ Apart(s, g, l) /\ Apart(t, g, l) /\ Covers(s, g, l) \cap Covers(t, g, l) = {}
  BY <1>1, ConcatCovers
<1> QED BY <1>1, <1>2, TellIsCover

(* Lists that say the same tell of the same.                               *)
LEMMA TellAgree ==
  ASSUME NEW s, NEW t, NEW g, NEW l, NEW k, Agree(s, t, g, l)
  PROVE  Tell(s, g, l, k) <=> Tell(t, g, l, k)
BY TellIsCover DEF Agree

(* Lists that agree piece by piece agree; a silent piece adds nothing.     *)
LEMMA AgreeConcat ==
  ASSUME NEW S, NEW s \in Seq(S), NEW t \in Seq(S), NEW g, NEW l
  PROVE  /\ s \o t \in Seq(S)
         /\ Silent(t, g, l) => Agree(s \o t, s, g, l)
         /\ Silent(s, g, l) => Agree(s \o t, t, g, l)
         /\ \A x \in Seq(S), y \in Seq(S) :
              Agree(s, x, g, l) /\ Agree(t, y, g, l) => Agree(s \o t, x \o y, g, l)
<1>1. \A x \in Seq(S), y \in Seq(S) :
        /\ x \o y \in Seq(S)
        /\ Covers(x \o y, g, l) = Covers(x, g, l) \cup Covers(y, g, l)
        /\ Apart(x \o y, g, l) <=>
             /\ Apart(x, g, l) /\ Apart(y, g, l) /\ Covers(x, g, l) \cap Covers(y, g, l) = {}
  BY ConcatCovers
<1>2. PICK u : u = s \o t
  OBVIOUS
<1>3. /\ u \in Seq(S) /\ Covers(u, g, l) = Covers(s, g, l) \cup Covers(t, g, l)
      /\ Apart(u, g, l) <=>
           /\ Apart(s, g, l) /\ Apart(t, g, l) /\ Covers(s, g, l) \cap Covers(t, g, l) = {}
  BY <1>1, <1>2
<1>4. ASSUME NEW x \in Seq(S), NEW y \in Seq(S), Agree(s, x, g, l), Agree(t, y, g, l)
      PROVE  Agree(u, x \o y, g, l)
  <2>1. PICK v : v = x \o y
    OBVIOUS
  <2>2. /\ Covers(v, g, l) = Covers(x, g, l) \cup Covers(y, g, l)
        /\ Apart(v, g, l) <=>
             /\ Apart(x, g, l) /\ Apart(y, g, l) /\ Covers(x, g, l) \cap Covers(y, g, l) = {}
    BY <1>1, <2>1
  <2> QED BY <1>3, <1>4, <2>1, <2>2 DEF Agree
<1> QED BY <1>2, <1>3, <1>4 DEF Silent, Agree

(* No rows are a list of rows.                                             *)
LEMMA EmptyIsList ==
  ASSUME NEW S
  PROVE  <<>> \in Seq(S)
OBVIOUS

(* An empty list says nothing.                                             *)
LEMMA EmptySilent ==
  ASSUME NEW g, NEW l
  PROVE  Silent(<<>>, g, l)
<1>1. DOMAIN <<>> = {}
  OBVIOUS
<1> QED BY <1>1, OthersSilent

(* Numbering of the layers.                                                *)
LEMMA LayerNumbers ==
  /\ Layers \in SUBSET Nat /\ 0 \in Layers /\ MaxBatch \in Nat \ {0}
  /\ \A l \in 1 .. MaxBatch : l \in Layers /\ l > 0
  /\ \A l \in Layers : l # 0 => l \in 1 .. MaxBatch
  /\ \A l \in 1 .. MaxBatch + 1 : l - 1 \in Layers
  /\ \A l \in Layers : l + 1 \in 1 .. MaxBatch + 1 /\ (l + 1) - 1 = l
BY BoundsAssumption DEF Layers

(* The row of an open window tells of the absorbs it holds.                *)
LEMMA RowTells ==
  ASSUME IInv, OwnRows, NEW l \in Layers
  PROVE  /\ Row(l) \in RowsUpTo(stream) /\ Row(l).stream = stream /\ Row(l).layer = l
         /\ stream \in Nat /\ absorbs[l] - window[l].n \in Nat /\ absorbs[l] \in Nat
         /\ Absorbed(Row(l)) \cup 1 .. (absorbs[l] - window[l].n) = 1 .. absorbs[l]
         /\ Absorbed(Row(l)) \cap 1 .. (absorbs[l] - window[l].n) = {}
<1>1. absorbs[l] \in Nat /\ window[l].n \in Nat
  BY LayerFacts DEF IInv
<1>2. stream \in Nat
  BY DEF OwnRows, stream
<1>3. window[l].n <= absorbs[l]
  <2>1. /\ UnderWay(l) \in {0, 1} /\ UnderWay(l) <= absorbs[l]
        /\ arm.diag_every \in Nat \ {0}
        /\ window[l].n - UnderWay(l) <= (absorbs[l] - UnderWay(l)) % arm.diag_every
    BY LayerFacts DEF IInv
  <2>2. absorbs[l] - UnderWay(l) \in Nat
    BY <1>1, <2>1
  <2>3. (absorbs[l] - UnderWay(l)) % arm.diag_every <= absorbs[l] - UnderWay(l)
    BY <2>1, <2>2
  <2>4. (absorbs[l] - UnderWay(l)) % arm.diag_every \in Nat
    BY <2>1, <2>2
  <2> QED BY <1>1, <2>1, <2>2, <2>3, <2>4
<1>4. Row(l) = [stream |-> stream, layer |-> l, absorbs |-> absorbs[l], n |-> window[l].n]
  BY DEF Row
<1>5. Absorbed(Row(l)) = absorbs[l] - window[l].n + 1 .. absorbs[l]
  BY <1>4 DEF Absorbed
<1>6. Row(l) \in RowsUpTo(stream)
  BY <1>1, <1>2, <1>4 DEF RowsUpTo, DiagRow
<1> DEFINE a == absorbs[l]
           n == window[l].n
<1>7. a \in Nat /\ n \in Nat /\ n <= a
  BY <1>1, <1>3
<1> HIDE DEF a, n
<1>8. a - n \in Nat /\ (a - n + 1 .. a) \cup (1 .. (a - n)) = 1 .. a
      /\ (a - n + 1 .. a) \cap (1 .. (a - n)) = {}
  BY <1>7
<1> QED BY <1>2, <1>4, <1>5, <1>6, <1>7, <1>8 DEF a, n

(* A row appended to a layer's list is the last to say anything.           *)
LEMMA AppendSays ==
  ASSUME NEW S, NEW s \in Seq(S), NEW r \in S, NEW g, NEW l
  PROVE  /\ Append(s, r) \in Seq(S)
         /\ Covers(Append(s, r), g, l) =
              Covers(s, g, l) \cup (IF r.stream = g /\ r.layer = l THEN Absorbed(r) ELSE {})
         /\ Apart(Append(s, r), g, l) <=>
              /\ Apart(s, g, l)
              /\ r.stream = g /\ r.layer = l => Covers(s, g, l) \cap Absorbed(r) = {}
<1>0. \A x \in S : <<x>> \in Seq(S)
  OBVIOUS
<1>1. PICK o \in Seq(S) : o = <<r>>
  BY <1>0
<1>2. PICK u : u = s \o o
  OBVIOUS
<1>3. Append(s, r) = u
  <2>1. Append(s, r) = s \o <<r>>
    BY AppendIsConcat
  <2> QED BY <1>1, <1>2, <2>1
<1>4. u \in Seq(S) /\ Covers(u, g, l) = Covers(s, g, l) \cup Covers(o, g, l)
      /\ (Apart(u, g, l) <=>
            Apart(s, g, l) /\ Apart(o, g, l) /\ Covers(s, g, l) \cap Covers(o, g, l) = {})
  BY <1>2, ConcatCovers
<1>5. Covers(o, g, l) = (IF r.stream = g /\ r.layer = l THEN Absorbed(r) ELSE {})
      /\ Apart(o, g, l)
  BY <1>1, OneCovers
<1> QED BY <1>1, <1>2, <1>3, <1>4, <1>5

(* In a layer's list: of the present stream its own, of older ones (for a  *)
(* row layer) none.                                                        *)
LEMMA WhoseRows ==
  ASSUME OwnRows, NEW j \in Layers
  PROVE  /\ \A l \in Layers : l # j => Silent(diag[j], stream, l)
         /\ j > 0 => \A g \in DOMAIN ended, l \in Layers : Silent(diag[j], g, l)
         /\ \A l \in Layers : Silent(diag[j], stream + 1, l)
         /\ \A l \in Layers : Silent(drained, stream + 1, l)
         /\ \A g \in DOMAIN ended : g < stream /\ g \in Nat
<1>0. ended \in Seq([Layers -> Nat]) /\ stream \in Nat /\ stream = Len(ended) + 1
  BY DEF OwnRows, stream
<1>1. \A g \in DOMAIN ended : g < stream /\ g \in Nat
  BY <1>0
<1>2. diag[j] \in Seq(RowsUpTo(stream)) /\ drained \in Seq(RowsUpTo(stream))
  BY DEF OwnRows
<1>3. /\ \A i \in DOMAIN diag[j] : diag[j][i].stream \in Nat /\ diag[j][i].stream <= stream
      /\ \A i \in DOMAIN drained : drained[i].stream \in Nat /\ drained[i].stream <= stream
  <2>1. \A s \in Seq(RowsUpTo(stream)) : \A i \in DOMAIN s : s[i] \in RowsUpTo(stream)
    OBVIOUS
  <2>2. \A r \in RowsUpTo(stream) : r.stream \in Nat /\ r.stream <= stream
    BY DEF DiagRow, RowsUpTo
  <2> QED BY <1>2, <2>1, <2>2
<1>4. \A i \in DOMAIN diag[j] : /\ diag[j][i].stream = stream => diag[j][i].layer = j
                                /\ j > 0 => diag[j][i].stream = stream
  BY DEF OwnRows
<1>5. \A l \in Layers : l # j => Silent(diag[j], stream, l)
  BY <1>4, OthersSilent
<1>6. j > 0 => \A g \in DOMAIN ended, l \in Layers : Silent(diag[j], g, l)
  <2> SUFFICES ASSUME j > 0, NEW g \in DOMAIN ended, NEW l \in Layers
               PROVE  Silent(diag[j], g, l)
    OBVIOUS
  <2>1. \A i \in DOMAIN diag[j] : diag[j][i].stream # g
    BY <1>0, <1>1, <1>4
  <2> QED BY <2>1, OthersSilent
<1>7. \A l \in Layers : Silent(diag[j], stream + 1, l)
  <2>1. \A i \in DOMAIN diag[j] : diag[j][i].stream # stream + 1
    BY <1>0, <1>3, <1>4
  <2> QED BY <2>1, OthersSilent
<1>8. \A l \in Layers : Silent(drained, stream + 1, l)
  <2>1. \A i \in DOMAIN drained : drained[i].stream # stream + 1
    BY <1>0, <1>3
  <2> QED BY <2>1, OthersSilent
<1> QED BY <1>1, <1>5, <1>6, <1>7, <1>8

(* A list t that tells of what layer j's list does, and of its open window *)
(* besides.                                                                *)
Flushed(t, j) ==
  /\ t \in Seq(RowsUpTo(stream))
  /\ \A i \in DOMAIN t : /\ t[i].stream = stream => t[i].layer = j
                         /\ j > 0 => t[i].stream = stream
  /\ Tell(drained \o diag[j], stream, j, absorbs[j] - window[j].n) =>
       Tell(drained \o t, stream, j, absorbs[j])
  /\ \A g, l : g # stream => Agree(t, diag[j], g, l)

(* Appending the window's row makes such a list.                           *)
LEMMA RowFlushes ==
  ASSUME IInv, OwnRows, NEW j \in Layers
  PROVE  Flushed(Append(diag[j], Row(j)), j)
<1> DEFINE S == RowsUpTo(stream)
           r == Row(j)
           k == absorbs[j] - window[j].n
<1>1. /\ r \in S /\ r.stream = stream /\ r.layer = j /\ k \in Nat /\ absorbs[j] \in Nat
      /\ Absorbed(r) \cup 1 .. k = 1 .. absorbs[j] /\ Absorbed(r) \cap 1 .. k = {}
  BY RowTells
<1>2. diag[j] \in Seq(S) /\ drained \in Seq(S)
  BY DEF OwnRows
<1>3. /\ \A i \in DOMAIN diag[j] : diag[j][i].stream = stream => diag[j][i].layer = j
      /\ j > 0 => \A i \in DOMAIN diag[j] : diag[j][i].stream = stream
  BY DEF OwnRows
<1> HIDE DEF S, r, k
<1>4. PICK s \in Seq(S) : s = diag[j]
  BY <1>2
<1>5. PICK d \in Seq(S) : d = drained
  BY <1>2
<1>6. PICK t : t = Append(s, r)
  OBVIOUS
<1>7. /\ t \in Seq(S)
      /\ \A g, l :
           LET told == IF r.stream = g /\ r.layer = l THEN Absorbed(r) ELSE {}
           IN /\ Covers(t, g, l) = Covers(s, g, l) \cup told
              /\ Apart(t, g, l) <=>
                   /\ Apart(s, g, l)
                   /\ r.stream = g /\ r.layer = l => Covers(s, g, l) \cap Absorbed(r) = {}
  <2>1. t \in Seq(S)
    BY <1>1, <1>6
  <2> SUFFICES ASSUME NEW g, NEW l
               PROVE  LET told == IF r.stream = g /\ r.layer = l THEN Absorbed(r) ELSE {}
                      IN /\ Covers(t, g, l) = Covers(s, g, l) \cup told
                         /\ Apart(t, g, l) <=>
                              /\ Apart(s, g, l)
                              /\ r.stream = g /\ r.layer = l =>
                                   Covers(s, g, l) \cap Absorbed(r) = {}
    BY <2>1
  <2> DEFINE told == IF r.stream = g /\ r.layer = l THEN Absorbed(r) ELSE {}
             mine == r.stream = g /\ r.layer = l => Covers(s, g, l) \cap Absorbed(r) = {}
  <2>2. /\ Covers(Append(s, r), g, l) = Covers(s, g, l) \cup told
        /\ Apart(Append(s, r), g, l) <=> Apart(s, g, l) /\ mine
    BY <1>1, AppendSays
  <2> HIDE DEF told, mine
  <2>3. /\ Covers(t, g, l) = Covers(s, g, l) \cup told
        /\ Apart(t, g, l) <=> Apart(s, g, l) /\ mine
    BY <1>6, <2>2
  <2> QED BY <2>3 DEF told, mine
<1>8. \A i \in DOMAIN t : (i \in DOMAIN s /\ t[i] = s[i]) \/ t[i] = r
  BY <1>1, <1>6
<1>9. \A i \in DOMAIN t : /\ t[i].stream = stream => t[i].layer = j
                          /\ j > 0 => t[i].stream = stream
  BY <1>1, <1>3, <1>4, <1>8
<1>10. ASSUME Tell(d \o s, stream, j, k)
       PROVE  Tell(d \o t, stream, j, absorbs[j])
  <2>1. /\ Covers(d, stream, j) \cup Covers(s, stream, j) = 1 .. k
        /\ Apart(d, stream, j) /\ Apart(s, stream, j)
        /\ Covers(d, stream, j) \cap Covers(s, stream, j) = {}
    BY <1>10, TellTwo
  <2>2. /\ Covers(t, stream, j) = Covers(s, stream, j) \cup Absorbed(r)
        /\ Apart(t, stream, j) <=>
             Apart(s, stream, j) /\ Covers(s, stream, j) \cap Absorbed(r) = {}
    BY <1>1, <1>7
  <2>3. Covers(d, stream, j) \cup Covers(t, stream, j) = 1 .. absorbs[j]
    BY <1>1, <2>1, <2>2
  <2>4. Apart(t, stream, j) /\ Covers(d, stream, j) \cap Covers(t, stream, j) = {}
    BY <1>1, <2>1, <2>2
  <2> QED BY <1>7, <2>1, <2>3, <2>4, TellTwo
<1>11. \A g, l : g # stream => Agree(t, s, g, l)
  <2> SUFFICES ASSUME NEW g, NEW l, g # stream PROVE Agree(t, s, g, l)
    OBVIOUS
  <2>1. r.stream # g
    BY <1>1
  <2>2. Covers(t, g, l) = Covers(s, g, l) \cup {} /\ (Apart(t, g, l) <=> Apart(s, g, l))
    BY <1>7, <2>1
  <2> QED BY <2>2 DEF Agree
<1> QED BY <1>4, <1>5, <1>6, <1>7, <1>9, <1>10, <1>11 DEF Flushed, S, r, k

(* What a drain takes of a layer is such a list.                           *)
LEMMA TakenFlushes ==
  ASSUME IInv, OwnRows, NEW j \in Layers
  PROVE  Flushed(Taken(j), j)
<1>1. CASE window[j].n > 0
  BY <1>1, RowFlushes DEF Taken
<1>2. CASE ~(window[j].n > 0)
  <2>1. window[j].n = 0 /\ absorbs[j] \in Nat
    BY <1>2, LayerFacts DEF IInv
  <2>2. absorbs[j] - window[j].n = absorbs[j]
    BY <2>1
  <2>3. Taken(j) = diag[j]
    BY <1>2 DEF Taken
  <2>4. \A g, l : Agree(diag[j], diag[j], g, l)
    BY DEF Agree
  <2>5. /\ diag[j] \in Seq(RowsUpTo(stream))
        /\ \A i \in DOMAIN diag[j] : /\ diag[j][i].stream = stream => diag[j][i].layer = j
                                     /\ j > 0 => diag[j][i].stream = stream
    BY DEF OwnRows
  <2> QED BY <2>2, <2>3, <2>4, <2>5 DEF Flushed
<1> QED BY <1>1, <1>2

(* It says nothing of other layers of the stream, nor, of a row layer, of  *)
(* older streams.                                                          *)
LEMMA FlushedSilent ==
  ASSUME OwnRows, NEW j \in Layers, NEW t, Flushed(t, j)
  PROVE  /\ t \in Seq(RowsUpTo(stream))
         /\ \A l \in Layers : l # j => Silent(t, stream, l)
         /\ j > 0 => \A g \in DOMAIN ended, l \in Layers : Silent(t, g, l)
         /\ \A g \in DOMAIN ended, l \in Layers : Agree(t, diag[j], g, l)
<1>1. \A g \in DOMAIN ended : g # stream
  BY WhoseRows DEF OwnRows, stream
<1>2. /\ \A i \in DOMAIN t : t[i].stream = stream => t[i].layer = j
      /\ j > 0 => \A i \in DOMAIN t : t[i].stream = stream
      /\ \A g, l : g # stream => Agree(t, diag[j], g, l)
      /\ t \in Seq(RowsUpTo(stream))
  BY DEF Flushed
<1>3. \A l \in Layers : l # j => Silent(t, stream, l)
  BY <1>2, OthersSilent
<1>4. j > 0 => \A g \in DOMAIN ended, l \in Layers : Silent(t, g, l)
  BY <1>1, <1>2, OthersSilent
<1> QED BY <1>1, <1>2, <1>3, <1>4

(* What a drain takes of the rows: of each what that one tells.            *)
LEMMA TakenFromRowsSays ==
  ASSUME IInv, OwnRows
  PROVE  /\ TakenFromRows \in Seq(RowsUpTo(stream))
         /\ \A l \in 1 .. MaxBatch : Agree(TakenFromRows, Taken(l), stream, l)
         /\ Silent(TakenFromRows, stream, 0)
         /\ \A g \in DOMAIN ended, l \in Layers : Silent(TakenFromRows, g, l)
<1> DEFINE lists == [l \in 1 .. MaxBatch |-> Taken(l)]
           S == RowsUpTo(stream)
<1>1. /\ Len(lists) = MaxBatch /\ Len(lists) \in Nat \ {0} /\ DOMAIN lists = 1 .. Len(lists)
      /\ \A l \in 1 .. MaxBatch : lists[l] = Taken(l)
  BY BoundsAssumption
<1>2. TakenFromRows = FlattenSeq(lists)
  BY DEF TakenFromRows
<1>3. \A j \in 1 .. MaxBatch :
        /\ Taken(j) \in Seq(S)
        /\ \A l \in Layers : l # j => Silent(Taken(j), stream, l)
        /\ \A g \in DOMAIN ended, l \in Layers : Silent(Taken(j), g, l)
  BY LayerNumbers, TakenFlushes, FlushedSilent
<1> HIDE DEF lists, S
<1>4. ASSUME NEW l \in 1 .. MaxBatch
      PROVE  FlattenSeq(lists) \in Seq(S) /\ Agree(FlattenSeq(lists), lists[l], stream, l)
  <2>1. l \in 1 .. Len(lists) /\ l \in Layers
    BY <1>1, LayerNumbers
  <2>2. \A i \in 1 .. Len(lists) : /\ lists[i] \in Seq(S)
                                   /\ i # l => Silent(lists[i], stream, l)
    BY <1>1, <1>3, <2>1
  <2> QED BY <1>1, <2>1, <2>2, FlattenSays
<1>5. Silent(FlattenSeq(lists), stream, 0)
  <2>1. \A i \in 1 .. Len(lists) : lists[i] \in Seq(S) /\ Silent(lists[i], stream, 0)
    BY <1>1, <1>3, LayerNumbers
  <2> QED BY <1>1, <2>1, FlattenSilent
<1>6. ASSUME NEW g \in DOMAIN ended, NEW l \in Layers
      PROVE  Silent(FlattenSeq(lists), g, l)
  <2>1. \A i \in 1 .. Len(lists) : lists[i] \in Seq(S) /\ Silent(lists[i], g, l)
    BY <1>1, <1>3
  <2> QED BY <1>1, <2>1, FlattenSilent
<1>7. 1 \in 1 .. MaxBatch
  BY LayerNumbers
<1> QED BY <1>1, <1>2, <1>4, <1>5, <1>6, <1>7 DEF S

(* An open window's growth and repair tell of no absorb yet.               *)
LEMMA NothingToldKeeps ==
  ASSUME RowsInv, UNCHANGED <<diag, drained, ended>>,
         \A l \in Layers : absorbs'[l] - window'[l].n = absorbs[l] - window[l].n
  PROVE  RowsInv'
<1>1. stream' = stream
  BY DEF stream
<1>2. OwnRows'
  BY <1>1 DEF RowsInv, OwnRows
<1>3. EachTold'
  BY <1>1 DEF RowsInv, EachTold
<1> QED BY <1>2, <1>3 DEF RowsInv

(* A measured absorb enters its window.                                    *)
LEMMA MeasureTells ==
  ASSUME IInv, RowsInv, Measure
  PROVE  RowsInv'
<1>1. PICK err \in [Streams -> Readings] :
        /\ window' = [window EXCEPT ![Turn].n = @ + 1,
                                    ![Turn].err = [s \in Streams |-> NanMax(@[s], err[s])]]
        /\ absorbs' = [absorbs EXCEPT ![Turn] = @ + 1]
        /\ UNCHANGED <<diag, drained, ended>>
  BY DEF Measure, rows
<1>2. /\ Turn \in Layers /\ absorbs \in [Layers -> Nat] /\ window \in [Layers -> Window]
  BY TurnIsLayer DEF IInv, Shape, Measure
<1>3. /\ window'[Turn].n = window[Turn].n + 1
      /\ \A l \in Layers \ {Turn} : window'[l] = window[l]
      /\ window[Turn].n \in Nat
  BY <1>1, <1>2 DEF Window
<1>4. /\ absorbs'[Turn] = absorbs[Turn] + 1 /\ absorbs[Turn] \in Nat
      /\ \A l \in Layers \ {Turn} : absorbs'[l] = absorbs[l]
  BY <1>1, <1>2
<1>5. \A l \in Layers : absorbs'[l] - window'[l].n = absorbs[l] - window[l].n
  BY <1>3, <1>4
<1> QED BY <1>1, <1>5, NothingToldKeeps

(* Repairs do not count.                                                   *)
LEMMA RepairTells ==
  ASSUME IInv, RowsInv, Repair
  PROVE  RowsInv'
<1>1. PICK fixed \in [Streams -> BOOLEAN] :
        window' = [window EXCEPT ![Turn].fixed = [s \in Streams |-> @[s] \/ fixed[s]]]
  <2>1. PICK rank_changed \in IF arm.qr_every = None THEN {{}} ELSE SUBSET Streams :
          LET fixed == [s \in Streams |-> Due(s, rank_changed)]
          IN window' = [window EXCEPT ![Turn].fixed = [s \in Streams |-> @[s] \/ fixed[s]]]
    BY DEF Repair
  <2>2. [s \in Streams |-> Due(s, rank_changed)] \in [Streams -> BOOLEAN]
    BY DEF Due
  <2> QED BY <2>1, <2>2
<1>2. Turn \in Layers /\ window \in [Layers -> Window]
  BY TurnIsLayer DEF IInv, Shape, Repair
<1>3. \A l \in Layers : window'[l].n = window[l].n
  BY <1>1, <1>2 DEF Window
<1>4. UNCHANGED <<absorbs, diag, drained, ended>>
  BY DEF Repair, rows
<1> QED BY <1>3, <1>4, NothingToldKeeps

(* A flushed window is told of by its row.                                 *)
LEMMA FlushTells ==
  ASSUME IInv, RowsInv, NEW j \in Layers, FlushDiagWindow(j), UNCHANGED <<absorbs, drained, ended>>
  PROVE  RowsInv'
<1> DEFINE t == Append(diag[j], Row(j))
           S == RowsUpTo(stream)
<1>1. OwnRows /\ EachTold /\ stream' = stream /\ j \in Layers
  BY DEF RowsInv, stream
<1>2. Flushed(t, j) /\ t \in Seq(S)
  BY <1>1, RowFlushes DEF Flushed
<1>3. /\ diag' = [diag EXCEPT ![j] = t] /\ window' = [window EXCEPT ![j] = EmptyWindow]
      /\ diag \in [Layers -> Seq(S)] /\ drained \in Seq(S)
      /\ DOMAIN window = Layers /\ EmptyWindow.n = 0
  BY <1>1, EmptyWindowTyped DEF FlushDiagWindow, ClearWindow, OwnRows, IInv, Shape
<1> HIDE DEF t, S
<1>4. /\ diag' \in [Layers -> Seq(S)] /\ diag'[j] = t
      /\ \A l \in Layers \ {j} : diag'[l] = diag[l] /\ window'[l] = window[l]
      /\ window'[j].n = 0
  BY <1>2, <1>3
<1>5. /\ \A i \in DOMAIN t : /\ t[i].stream = stream => t[i].layer = j
                             /\ j > 0 => t[i].stream = stream
      /\ Tell(drained \o t, stream, j, absorbs[j])
      /\ \A g, l : g # stream => Agree(t, diag[j], g, l)
  BY <1>1, <1>2 DEF Flushed, EachTold
<1>6. OwnRows'
  <2>1. \A l \in Layers : \A i \in DOMAIN diag'[l] :
          /\ diag'[l][i].stream = stream => diag'[l][i].layer = l
          /\ l > 0 => diag'[l][i].stream = stream
    <3> SUFFICES ASSUME NEW l \in Layers, NEW i \in DOMAIN diag'[l]
                 PROVE  /\ diag'[l][i].stream = stream => diag'[l][i].layer = l
                        /\ l > 0 => diag'[l][i].stream = stream
      OBVIOUS
    <3>1. CASE l = j
      BY <1>4, <1>5, <3>1
    <3>2. CASE l # j
      BY <1>1, <1>4, <3>2 DEF OwnRows
    <3> QED BY <3>1, <3>2
  <2>2. ended' \in Seq([Layers -> Nat])
    BY <1>1 DEF OwnRows
  <2> QED BY <1>1, <1>3, <1>4, <2>1, <2>2 DEF OwnRows, S
<1>7. ASSUME NEW l \in Layers
      PROVE  Tell(drained \o diag'[l], stream, l, absorbs[l] - window'[l].n)
  <2>1. CASE l = j
    <3>1. absorbs[l] - window'[l].n = absorbs[l]
      BY <1>4, <2>1, LayerFacts DEF IInv
    <3> QED BY <1>4, <1>5, <2>1, <3>1
  <2>2. CASE l # j
    BY <1>1, <1>4, <2>2 DEF EachTold
  <2> QED BY <2>1, <2>2
<1>8. ASSUME NEW l \in Layers, l > 0, NEW g \in DOMAIN ended
      PROVE  Tell(drained \o diag'[0], g, l, ended[g][l])
  <2>1. Tell(drained \o diag[0], g, l, ended[g][l])
    BY <1>1, <1>8 DEF EachTold
  <2>2. CASE j = 0
    <3>1. g # stream
      BY <1>1, WhoseRows DEF OwnRows, stream
    <3>2. Agree(diag'[0], diag[0], g, l)
      BY <1>4, <1>5, <2>2, <3>1
    <3>3. diag'[0] \in Seq(S) /\ diag[0] \in Seq(S)
      BY <1>3, <1>4, LayerNumbers
    <3>4. Agree(drained, drained, g, l)
      BY DEF Agree
    <3>5. Agree(drained \o diag'[0], drained \o diag[0], g, l)
      BY <1>3, <3>2, <3>3, <3>4, AgreeConcat
    <3> QED BY <2>1, <3>5, TellAgree
  <2>3. CASE j # 0
    BY <1>4, <2>1, <2>3, LayerNumbers
  <2> QED BY <2>2, <2>3
<1>9. EachTold'
  BY <1>1, <1>7, <1>8 DEF EachTold
<1> QED BY <1>6, <1>9 DEF RowsInv

(* The window of a fatal absorb is flushed before the raise.               *)
LEMMA AbortTells ==
  ASSUME IInv, RowsInv, Abort
  PROVE  RowsInv'
<1>1. Turn \in Layers
  BY TurnIsLayer DEF IInv, Abort
<1> QED BY <1>1, FlushTells DEF Abort

(* Settling flushes the window or leaves it open.                          *)
LEMMA SettleTells ==
  ASSUME IInv, RowsInv, Settle
  PROVE  RowsInv'
<1>1. Turn \in Layers
  BY TurnIsLayer DEF IInv, Settle
<1>2. UNCHANGED <<absorbs, drained, ended>>
  BY DEF Settle
<1>3. CASE FlushDiagWindow(Turn)
  BY <1>1, <1>2, <1>3, FlushTells
<1>4. CASE UNCHANGED <<diag, window, seen>>
  BY <1>2, <1>4, NothingToldKeeps
<1> QED BY <1>3, <1>4 DEF Settle

(* What is handed out stays told of.                                       *)
LEMMA DrainTells ==
  ASSUME IInv, RowsInv, DrainDiag
  PROVE  RowsInv'
<1> DEFINE S == RowsUpTo(stream)
<1>1. /\ OwnRows /\ EachTold /\ stream' = stream
      /\ drained' = drained \o TakenFromRows \o Taken(0)
      /\ diag' = [l \in Layers |-> <<>>] /\ UNCHANGED <<absorbs, ended>>
      /\ \A l \in Layers : window'[l] = EmptyWindow
      /\ EmptyWindow.n = 0
  BY EmptyWindowTyped DEF RowsInv, DrainDiag, stream, NoWindows
<1>2. PICK d \in Seq(S) : d = drained
  BY <1>1 DEF OwnRows
<1>3. PICK f \in Seq(S) : f = TakenFromRows
  BY <1>1, TakenFromRowsSays
<1>4. PICK k \in Seq(S) : k = Taken(0)
  BY <1>1, LayerNumbers, TakenFlushes DEF Flushed
<1> HIDE DEF S
<1>5. PICK a \in Seq(S) : a = d \o f
  BY AgreeConcat
<1>6. PICK b \in Seq(S) : b = a \o k
  BY AgreeConcat
<1>7. drained' = b
  BY <1>1, <1>2, <1>3, <1>4, <1>5, <1>6
<1>8. PICK e \in Seq(S) : e = <<>>
  BY EmptyIsList
<1>9. \A l \in Layers : diag'[l] = e
  BY <1>1, <1>8
<1>10. OwnRows'
  <2>1. DOMAIN e = {}
    BY <1>8
  <2>2. diag' \in [Layers -> Seq(S)]
    BY <1>1, <1>9
  <2>3. ended' \in Seq([Layers -> Nat])
    BY <1>1 DEF OwnRows
  <2> QED BY <1>1, <1>7, <1>9, <2>1, <2>2, <2>3 DEF OwnRows, S
<1>11. \A g, l : Silent(e, g, l)
  BY <1>8, EmptySilent
<1>12. ASSUME NEW l \in Layers
       PROVE  Tell(b \o e, stream, l, absorbs[l] - window'[l].n)
  <2>1. absorbs[l] - window'[l].n = absorbs[l]
    BY <1>1, LayerFacts DEF IInv
  <2>2. PICK t \in Seq(S) : t = Taken(l)
    BY <1>1, TakenFlushes DEF Flushed, S
  <2>3. Tell(d \o t, stream, l, absorbs[l])
    BY <1>1, <1>2, <2>2, TakenFlushes DEF EachTold, Flushed
  <2>4. Agree(d, d, stream, l)
    BY DEF Agree
  <2>5. Agree(b, d \o t, stream, l)
    <3>1. CASE l = 0
      <4>1. Silent(f, stream, l) /\ k = t
        BY <1>1, <1>3, <1>4, <2>2, <3>1, TakenFromRowsSays
      <4>2. Agree(a, d, stream, l) /\ Agree(k, t, stream, l)
        BY <1>5, <4>1, AgreeConcat DEF Agree
      <4> QED BY <1>6, <4>2, AgreeConcat
    <3>2. CASE l # 0
      <4>1. Agree(f, t, stream, l)
        BY <1>1, <1>3, <2>2, <3>2, LayerNumbers, TakenFromRowsSays
      <4>2. Silent(k, stream, l)
        BY <1>1, <1>4, <3>2, LayerNumbers, TakenFlushes, FlushedSilent
      <4>3. Agree(a, d \o t, stream, l)
        BY <1>5, <2>4, <4>1, AgreeConcat
      <4>4. Agree(b, a, stream, l)
        BY <1>6, <4>2, AgreeConcat
      <4> QED BY <4>3, <4>4 DEF Agree
    <3> QED BY <3>1, <3>2
  <2>6. Agree(b \o e, b, stream, l)
    BY <1>11, AgreeConcat
  <2>7. Agree(b \o e, d \o t, stream, l)
    BY <2>5, <2>6 DEF Agree
  <2> QED BY <2>1, <2>3, <2>7, TellAgree
<1>13. ASSUME NEW l \in Layers, l > 0, NEW g \in DOMAIN ended
       PROVE  Tell(b \o e, g, l, ended[g][l])
  <2>1. PICK z \in Seq(S) : z = diag[0]
    BY <1>1, LayerNumbers DEF OwnRows, S
  <2>2. Tell(d \o z, g, l, ended[g][l])
    BY <1>1, <1>2, <1>13, <2>1 DEF EachTold
  <2>3. Silent(f, g, l)
    BY <1>1, <1>3, TakenFromRowsSays
  <2>4. Agree(k, z, g, l)
    BY <1>1, <1>4, <2>1, LayerNumbers, TakenFlushes, FlushedSilent
  <2>5. Agree(a, d, g, l)
    BY <1>5, <2>3, AgreeConcat
  <2>6. Agree(b, d \o z, g, l)
    BY <1>6, <2>4, <2>5, AgreeConcat
  <2>7. Agree(b \o e, b, g, l)
    BY <1>11, AgreeConcat
  <2>8. Agree(b \o e, d \o z, g, l)
    BY <2>6, <2>7 DEF Agree
  <2> QED BY <2>2, <2>8, TellAgree
<1>14. EachTold'
  BY <1>1, <1>7, <1>9, <1>12, <1>13, LayerNumbers DEF EachTold
<1> QED BY <1>10, <1>14 DEF RowsInv

(* Nor is what a reset keeps of the rows lost.                             *)
LEMMA ResetTells ==
  ASSUME IInv, RowsInv, Reset
  PROVE  RowsInv'
<1> DEFINE S == RowsUpTo(stream)
           M == RowsUpTo(stream + 1)
<1>1. /\ OwnRows /\ EachTold /\ drained' = drained
      /\ ended' = Append(ended, absorbs)
      /\ diag' = [l \in Layers |-> IF l = 0 THEN diag[0] \o TakenFromRows ELSE <<>>]
      /\ \A l \in Layers : window'[l] = EmptyWindow /\ absorbs'[l] = 0
      /\ EmptyWindow.n = 0
  BY EmptyWindowTyped DEF RowsInv, Reset, NoWindows, KeptRows
<1>2. /\ ended \in Seq([Layers -> Nat]) /\ absorbs \in [Layers -> Nat]
      /\ stream = Len(ended) + 1 /\ stream \in Nat
  BY <1>1 DEF OwnRows, IInv, Shape, stream
<1>3. /\ ended' \in Seq([Layers -> Nat]) /\ stream' = stream + 1
      /\ DOMAIN ended' = DOMAIN ended \cup {stream}
      /\ \A g \in DOMAIN ended : ended'[g] = ended[g] /\ g # stream
      /\ ended'[stream] = absorbs
  <2>1. stream' = Len(ended') + 1
    BY DEF stream
  <2> QED BY <1>1, <1>2, <2>1
<1>4. S \subseteq M
  BY <1>2 DEF RowsUpTo, DiagRow
<1>5. PICK d \in Seq(S) : d = drained
  BY <1>1 DEF OwnRows
<1>6. PICK f \in Seq(S) : f = TakenFromRows
  BY <1>1, TakenFromRowsSays
<1>7. PICK z \in Seq(S) : z = diag[0]
  BY <1>1, LayerNumbers DEF OwnRows
<1> HIDE DEF S, M
<1>8. PICK y \in Seq(S) : y = z \o f
  BY AgreeConcat
<1>9. PICK e \in Seq(S) : e = <<>>
  BY EmptyIsList
<1>10. /\ diag'[0] = y /\ 0 \in Layers /\ \A l \in Layers : l > 0 => diag'[l] = e /\ l # 0
       /\ DOMAIN diag' = Layers /\ diag' = [l \in Layers |-> diag'[l]]
  BY <1>1, <1>6, <1>7, <1>8, <1>9, LayerNumbers
<1>11. /\ \A s \in Seq(S) : s \in Seq(M)
       /\ \A s \in Seq(S) : \A i \in DOMAIN s : s[i] \in S
  BY <1>4
<1>12. \A s \in Seq(S) : \A l : Silent(s, stream + 1, l)
  <2> SUFFICES ASSUME NEW s \in Seq(S), NEW l PROVE Silent(s, stream + 1, l)
    OBVIOUS
  <2>1. \A r \in S : r.stream # stream + 1
    BY <1>2 DEF S, RowsUpTo, DiagRow
  <2>2. \A i \in DOMAIN s : s[i].stream # stream + 1
    BY <1>11, <2>1
  <2> QED BY <2>2, OthersSilent
<1>13. OwnRows'
  <2>1. DOMAIN e = {}
    BY <1>9
  <2>2. diag' \in [Layers -> Seq(M)]
    <3>1. \A l \in Layers : diag'[l] \in Seq(M)
      BY <1>10, <1>11, LayerNumbers
    <3> QED BY <1>10, <3>1
  <2>3. \A i \in DOMAIN y : y[i].stream # stream + 1
    <3>1. \A r \in S : r.stream # stream + 1
      BY <1>2 DEF S, RowsUpTo, DiagRow
    <3> QED BY <1>11, <3>1
  <2>4. \A l \in Layers : \A i \in DOMAIN diag'[l] :
          /\ diag'[l][i].stream = stream + 1 => diag'[l][i].layer = l
          /\ l > 0 => diag'[l][i].stream = stream + 1
    <3> SUFFICES ASSUME NEW l \in Layers, NEW i \in DOMAIN diag'[l]
                 PROVE  l = 0 /\ diag'[l][i].stream # stream + 1
      OBVIOUS
    <3>1. l = 0
      BY <1>10, <2>1, LayerNumbers
    <3> QED BY <1>10, <2>3, <3>1
  <2>5. drained' \in Seq(M)
    BY <1>1, <1>5, <1>11
  <2> QED BY <1>3, <2>2, <2>4, <2>5 DEF OwnRows, M
<1>14. ASSUME NEW l \in Layers
       PROVE  Tell(drained' \o diag'[l], stream + 1, l, absorbs'[l] - window'[l].n)
  <2>1. absorbs'[l] - window'[l].n = 0
    BY <1>1
  <2>2. PICK s \in Seq(S) : s = diag'[l]
    BY <1>10, LayerNumbers
  <2>3. Silent(d, stream + 1, l) /\ Silent(s, stream + 1, l)
    BY <1>12
  <2>4. 1 .. 0 = {}
    OBVIOUS
  <2>5. Tell(d \o s, stream + 1, l, 0)
    <3>1. PICK g : g = stream + 1
      OBVIOUS
    <3>2. /\ Covers(d, g, l) \cup Covers(s, g, l) = 1 .. 0 /\ Apart(d, g, l) /\ Apart(s, g, l)
          /\ Covers(d, g, l) \cap Covers(s, g, l) = {}
      BY <2>3, <2>4, <3>1 DEF Silent
    <3>3. Tell(d \o s, g, l, 0)
      BY <3>2, TellTwo
    <3> QED BY <3>1, <3>3
  <2> QED BY <1>1, <1>5, <2>1, <2>2, <2>5
<1>15. ASSUME NEW l \in Layers, l > 0, NEW g \in DOMAIN ended'
       PROVE  Tell(drained' \o diag'[0], g, l, ended'[g][l])
  <2>1. CASE g = stream
    <3>1. PICK t \in Seq(S) : t = Taken(l)
      BY <1>1, TakenFlushes DEF Flushed, S
    <3>2. Tell(d \o t, stream, l, absorbs[l])
      BY <1>1, <1>5, <3>1, TakenFlushes DEF EachTold, Flushed
    <3>3. Agree(f, t, stream, l)
      BY <1>1, <1>6, <1>15, <3>1, LayerNumbers, TakenFromRowsSays
    <3>4. Silent(z, stream, l)
      BY <1>1, <1>7, <1>10, <1>15, WhoseRows
    <3>5. Agree(y, f, stream, l)
      BY <1>8, <3>4, AgreeConcat
    <3>6. Agree(y, t, stream, l) /\ Agree(d, d, stream, l)
      BY <3>3, <3>5 DEF Agree
    <3>7. Agree(d \o y, d \o t, stream, l)
      BY <3>6, AgreeConcat
    <3>8. Tell(d \o y, stream, l, absorbs[l])
      BY <3>2, <3>7, TellAgree
    <3> QED BY <1>1, <1>3, <1>5, <1>10, <2>1, <3>8
  <2>2. CASE g # stream
    <3>1. g \in DOMAIN ended /\ ended'[g] = ended[g]
      BY <1>3, <2>2
    <3>2. Tell(d \o z, g, l, ended[g][l])
      BY <1>1, <1>5, <1>7, <1>15, <3>1 DEF EachTold
    <3>3. Silent(f, g, l)
      BY <1>1, <1>6, <3>1, TakenFromRowsSays
    <3>4. Agree(y, z, g, l) /\ Agree(d, d, g, l)
      BY <1>8, <3>3, AgreeConcat DEF Agree
    <3>5. Agree(d \o y, d \o z, g, l)
      BY <3>4, AgreeConcat
    <3>6. Tell(d \o y, g, l, ended[g][l])
      BY <3>2, <3>5, TellAgree
    <3> QED BY <1>1, <1>5, <1>10, <3>1, <3>6
  <2> QED BY <2>1, <2>2
<1>16. EachTold'
  BY <1>3, <1>14, <1>15 DEF EachTold
<1> QED BY <1>13, <1>16 DEF RowsInv

(* Nothing has been absorbed and no row written.                           *)
LEMMA InitTells == Init => RowsInv
<1> SUFFICES ASSUME Init PROVE RowsInv
  OBVIOUS
<1> DEFINE S == RowsUpTo(stream)
<1>1. /\ drained = <<>> /\ diag = [l \in Layers |-> <<>>] /\ ended = <<>>
      /\ \A l \in Layers : absorbs[l] = 0 /\ window[l].n = 0
  BY EmptyWindowTyped DEF Init
<1>2. DOMAIN ended = {} /\ ended \in Seq([Layers -> Nat])
  BY <1>1
<1> HIDE DEF S
<1>3. PICK e \in Seq(S) : e = <<>>
  BY EmptyIsList
<1>4. DOMAIN e = {} /\ \A g, l : Silent(e, g, l)
  BY <1>3, EmptySilent
<1>5. drained = e /\ diag = [l \in Layers |-> e] /\ \A l \in Layers : diag[l] = e
  BY <1>1, <1>3
<1>6. OwnRows
  <2>1. diag \in [Layers -> Seq(S)]
    BY <1>5
  <2> QED BY <1>2, <1>4, <1>5, <2>1 DEF OwnRows, S
<1>7. ASSUME NEW l \in Layers
      PROVE  Tell(drained \o diag[l], stream, l, absorbs[l] - window[l].n)
  <2>1. absorbs[l] - window[l].n = 0 /\ 1 .. 0 = {}
    BY <1>1
  <2>2. /\ Covers(e, stream, l) \cup Covers(e, stream, l) = 1 .. 0 /\ Apart(e, stream, l)
        /\ Covers(e, stream, l) \cap Covers(e, stream, l) = {}
    BY <1>4, <2>1 DEF Silent
  <2>3. Tell(e \o e, stream, l, 0)
    BY <2>2, TellTwo
  <2> QED BY <1>5, <2>1, <2>3
<1>8. EachTold
  BY <1>2, <1>7 DEF EachTold
<1> QED BY <1>6, <1>8 DEF RowsInv

(* Every step keeps the account.                                           *)
LEMMA NextTells == IInv /\ RowsInv /\ [Next]_vars => RowsInv'
<1> SUFFICES ASSUME IInv, RowsInv, [Next]_vars PROVE RowsInv'
  OBVIOUS
<1>1. CASE UNCHANGED vars
  BY <1>1, NothingToldKeeps DEF vars, guard, rows
<1>2. ASSUME NEW b \in 1 .. MaxBatch, NEW k \in 1 .. MaxAbsorbs, Update(b, k)
      PROVE  RowsInv'
  BY <1>2, NothingToldKeeps DEF Update, guard, rows
<1> QED BY <1>1, <1>2, MeasureTells, RepairTells, AbortTells, SettleTells, DrainTells, ResetTells
        DEF Next

(* The account of the rows holds in every reachable state.                 *)
THEOREM RowsInductive == Spec => []RowsInv
BY Inductive, InitTells, NextTells, PTL DEF Spec

(* All the rows there are tell of what those of one list beside the        *)
(* drained ones do, when the other layers' lists are silent.               *)
LEMMA ToldSays ==
  ASSUME OwnRows, NEW j \in Layers, NEW g, NEW l,
         \A i \in Layers : i # j => Silent(diag[i], g, l)
  PROVE  Agree(Told, drained \o diag[j], g, l)
<1> DEFINE lists == [i \in 1 .. MaxBatch+1 |-> diag[i-1]]
           S == RowsUpTo(stream)
<1>1. /\ Len(lists) = MaxBatch + 1 /\ Len(lists) \in Nat /\ DOMAIN lists = 1 .. Len(lists)
      /\ \A i \in 1 .. MaxBatch + 1 : lists[i] = diag[i - 1]
  BY BoundsAssumption
<1>2. Told = drained \o FlattenSeq(lists)
  BY DEF Told
<1>3. drained \in Seq(S) /\ \A i \in Layers : diag[i] \in Seq(S)
  BY DEF OwnRows
<1> HIDE DEF lists, S
<1>4. j + 1 \in 1 .. Len(lists) /\ lists[j + 1] = diag[j]
  <2>1. j + 1 \in 1 .. MaxBatch + 1 /\ (j + 1) - 1 = j
    BY LayerNumbers
  <2> QED BY <1>1, <2>1
<1>5. ASSUME NEW i \in 1 .. Len(lists)
      PROVE  lists[i] \in Seq(S) /\ (i # j + 1 => Silent(lists[i], g, l))
  <2>1. i - 1 \in Layers /\ lists[i] = diag[i - 1]
    BY <1>1, LayerNumbers
  <2>2. i # j + 1 => i - 1 # j
    BY LayerNumbers
  <2> QED BY <1>3, <2>1, <2>2
<1>6. FlattenSeq(lists) \in Seq(S) /\ Agree(FlattenSeq(lists), diag[j], g, l)
  BY <1>1, <1>4, <1>5, FlattenSays
<1>7. PICK f \in Seq(S) : f = FlattenSeq(lists)
  BY <1>6
<1>8. Agree(drained, drained, g, l)
  BY DEF Agree
<1>9. Agree(drained \o f, drained \o diag[j], g, l)
  BY <1>3, <1>6, <1>7, <1>8, AgreeConcat
<1> QED BY <1>2, <1>7, <1>9

(* Every absorb is told of by one row or by the open window, through       *)
(* drains, failures and, for row layers, resets (_flush_diag_window,       *)
(* drain_diag, reset).                                                     *)
THEOREM AbsorbsTold == Spec => []AbsorbsToldOnce
<1>1. RowsInv => AbsorbsToldOnce
  <2> SUFFICES ASSUME RowsInv, NEW l \in Layers
               PROVE  /\ Tell(Told, stream, l, absorbs[l] - window[l].n)
                      /\ l > 0 => \A g \in DOMAIN ended : Tell(Told, g, l, ended[g][l])
    BY DEF AbsorbsToldOnce
  <2>1. OwnRows /\ EachTold
    BY DEF RowsInv
  <2>2. \A i \in Layers : i # l => Silent(diag[i], stream, l)
    BY <2>1, WhoseRows
  <2>3. Agree(Told, drained \o diag[l], stream, l)
    BY <2>1, <2>2, ToldSays
  <2>4. Tell(Told, stream, l, absorbs[l] - window[l].n)
    BY <2>1, <2>3, TellAgree DEF EachTold
  <2>5. ASSUME l > 0, NEW g \in DOMAIN ended
        PROVE  Tell(Told, g, l, ended[g][l])
    <3>1. \A i \in Layers : i # 0 => Silent(diag[i], g, l)
      BY <2>1, LayerNumbers, WhoseRows
    <3>2. Agree(Told, drained \o diag[0], g, l)
      BY <2>1, <3>1, LayerNumbers, ToldSays
    <3> QED BY <2>1, <2>5, <3>2, TellAgree DEF EachTold
  <2> QED BY <2>4, <2>5
<1> QED BY <1>1, RowsInductive, PTL
=============================================================================
