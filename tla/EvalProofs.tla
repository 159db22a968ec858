----------------------------- MODULE EvalProofs -----------------------------
(***************************************************************************)
(* Proofs about what an evaluation runs: the factored-attention glue, for  *)
(* any number of caches, batch sizes, layers, window and block sizes, and  *)
(* any nesting of scopes; and the drivers of the axes, for any sweep of    *)
(* arms, contexts, chunks, residual and group sizes.                       *)
(*                                                                         *)
(* The glue's inductive invariant says what every open scope will restore  *)
(* (Scoped), that the rows of a layer are in one mode and, unless a        *)
(* prefill raised, all empty or all filled (Together), how the keys an     *)
(* update returned and the middle it kept share the rows' columns until    *)
(* they are attended (Handed), and that a forward moves the layers of a    *)
(* cache from one token count to the next, those before the current one    *)
(* having moved and the rest not (Stepwise).                               *)
(*                                                                         *)
(* The drivers' says what a cache of each kind holds of what it was fed,   *)
(* before the prefill's end (Prefilled) and after it (Decoded), that what  *)
(* was billed is what survived the prefill (Footprinted), and that the     *)
(* diagnostics drained so far are of the samples that are over (Emitting). *)
(***************************************************************************)
EXTENDS KernelScope, EvalAxes, IndexOrderProofs

(* The types of the records.                                               *)
Impls == {"sdpa", "kernel"}
Scope == [cache : Caches, previous : Impls]
Middle == [cols : Nat, rank : Nat]
Row == [mode : Modes, len : Nat, ring : Nat, mid : Nat, rank : Nat, step : BOOLEAN,
        kmid : Middle]
Forward == [by : Caches, q : 1 .. MaxForward, layer : Layers, out : Seq(Nat)]

(* The shape of the variables; a layer has no rows yet, or all of them.    *)
Typed ==
  /\ impl \in Impls /\ scopes \in Seq(Scope) /\ mode \in [Caches -> Modes]
  /\ rows \in [Caches -> [Layers -> Seq(Row)]]
  /\ \A c \in Caches, l \in Layers : Len(rows[c][l]) \in {0, Batch[c]}
  /\ forward \in Forward \cup {Idle} /\ failed \subseteq Caches /\ torn \subseteq failed

(* A kernel cache's scope is among the first n.                            *)
KernelAmong(n) == \E i \in 1 .. n : scopes[i].cache \in Kernel
ImplOf(n) == IF KernelAmong(n) THEN "kernel" ELSE "sdpa"

(* Every scope remembers what was in force around it; the bound cache is a *)
(* kernel cache with a scope open.                                         *)
Scoped ==
  /\ impl = ImplOf(Len(scopes))
  /\ \A i \in 1 .. Len(scopes) : scopes[i].previous = ImplOf(i - 1)
  /\ bound # Unbound =>
       bound \in Kernel /\ \E i \in 1 .. Len(scopes) : scopes[i].cache = bound

(* The tokens a ring gives up: whole blocks, down to the window.           *)
Moved(ring) == IF ring < RecentWindow + AbsorbBlock THEN 0
               ELSE ((ring - RecentWindow) \div AbsorbBlock) * AbsorbBlock

(* A row's counts, and what absorbs make of them.                          *)
Counts(row) == <<row.len, row.ring, row.mid>>
Triples == Nat \X Nat \X Nat
Graduated(a) == <<a[1], a[2] - Moved(a[2]), a[3] + Moved(a[2])>>
Refused(a, m, q) == a[1] > 0 /\ m = "normal" /\ q # 1

(* The rows of a layer are all empty or all filled, and an unfilled one    *)
(* holds nothing.                                                          *)
Level(rs) ==
  /\ \A r, s \in DOMAIN rs : rs[r].len > 0 => rs[s].len > 0
  /\ \A r \in DOMAIN rs : rs[r].len = 0 => Counts(rs[r]) = <<0, 0, 0>>

(* The rows of a cache are in its mode; unless a prefill raised since the  *)
(* reset, its layers are whole.                                            *)
Together ==
  \A c \in Caches, l \in Layers :
    /\ \A r \in DOMAIN rows[c][l] : rows[c][l][r].mode = mode[c]
    /\ c \notin torn => Level(rows[c][l])

(* Between a layer's update and its attention every row's middle is in the *)
(* returned keys, or every row's is kept for the kernel.                   *)
Handed ==
  forward # Idle /\ forward.out # <<>> /\ forward.by \notin torn =>
    LET c == forward.by   l == forward.layer
    IN  /\ rows[c][l] # <<>>
        /\ \/ \A r \in DOMAIN rows[c][l] :
                ~rows[c][l][r].step /\ forward.out[r] = rows[c][l][r].mid
           \/ /\ c \in Kernel /\ forward.q = 1
              /\ \A r \in DOMAIN rows[c][l] :
                   /\ rows[c][l][r].step /\ forward.out[r] = 0
                   /\ rows[c][l][r].kmid.cols = rows[c][l][r].mid

(* What an update of q tokens in mode m makes of a row's counts, whatever  *)
(* ranks its absorbs leave.                                                *)
Updated(a, m, q) ==
  IF Refused(a, m, q) THEN a
  ELSE IF a[1] = 0 THEN <<q, Recent(q), a[3] + (q - Recent(q))>>
  ELSE IF m = "score" THEN a
  ELSE IF m = "ingest" THEN <<a[1] + q, a[2] + q, a[3]>>
  ELSE Graduated(<<a[1] + 1, a[2] + 1, a[3]>>)

(* The forward under way has updated this layer.                           *)
Done(c, l) ==
  /\ forward # Idle /\ forward.by = c
  /\ l < forward.layer \/ (l = forward.layer /\ forward.out # <<>>)

(* The layers a forward has updated are one update ahead of the rest.      *)
InStepAt(c, a) ==
  /\ \A l \in Layers : \A r \in DOMAIN rows[c][l] :
       Counts(rows[c][l][r]) = IF Done(c, l) THEN Updated(a, mode[c], forward.q) ELSE a
  /\ \A l \in Layers : rows[c][l] = <<>> => a = <<0, 0, 0>> /\ ~Done(c, l)
  /\ \A l, k \in Layers : ~Done(c, l) /\ ~Done(c, k) /\ rows[c][l] = <<>> => rows[c][k] = <<>>
  /\ (\E l \in Layers : Done(c, l)) => ~Refused(a, mode[c], forward.q)

(* Every cache that no forward left midway is in step.                     *)
Stepwise == \A c \in Caches \ failed : \E a \in Triples : InStepAt(c, a)

(* The inductive invariant.                                                *)
IInv == Typed /\ Scoped /\ Together /\ Handed /\ Stepwise /\ OwnMiddle

------------------------------------------------------------------------------
(* What is assumed of the constants.                                       *)
LEMMA Bounds ==
  /\ Kernel \subseteq Caches /\ RecentWindow \in Nat /\ AbsorbBlock \in Nat \ {0}
  /\ NumLayers \in Nat \ {0} /\ \A c \in Caches : Batch[c] \in Nat \ {0}
  /\ Ranks \subseteq Nat /\ Layers \subseteq Nat \ {0} /\ 1 \in Layers
  /\ MaxForward \in Nat \ {0}
BY ConstantsAssumption DEF Layers

(* A ring gives up no more than it has beyond the window.                  *)
LEMMA MovedBounds ==
  ASSUME NEW ring \in Nat
  PROVE  Moved(ring) \in Nat /\ ring - Moved(ring) \in Nat /\ Moved(0) = 0
<1>1. RecentWindow \in Nat /\ AbsorbBlock \in Nat \ {0}
  BY Bounds
<1>2. Moved(0) = 0
  BY <1>1 DEF Moved
<1>3. CASE ring < RecentWindow + AbsorbBlock
  BY <1>1, <1>2, <1>3 DEF Moved
<1>4. CASE ~(ring < RecentWindow + AbsorbBlock)
  <2> DEFINE i == ring - RecentWindow
             q == i \div AbsorbBlock
  <2>1. i \in Nat
    BY <1>1, <1>4
  <2> HIDE DEF i
  <2>2. /\ q \in Nat /\ i % AbsorbBlock \in 0 .. AbsorbBlock - 1
        /\ i = q * AbsorbBlock + (i % AbsorbBlock)
    BY <1>1, <2>1, DivMod
  <2>3. Moved(ring) = q * AbsorbBlock
    BY <1>4 DEF Moved, i
  <2> HIDE DEF q
  <2>4. q * AbsorbBlock \in Nat
    BY <1>1, <2>2
  <2>5. ring = RecentWindow + i
    BY <1>1 DEF i
  <2> QED BY <1>1, <1>2, <2>1, <2>2, <2>3, <2>4, <2>5
<1> QED BY <1>3, <1>4

(* Absorbs keep the number of tokens.                                      *)
LEMMA GraduatedTyped ==
  ASSUME NEW a \in Triples
  PROVE  Graduated(a) \in Triples /\ Graduated(<<0, 0, 0>>) = <<0, 0, 0>>
         /\ Graduated(a)[1] = a[1]
BY MovedBounds DEF Graduated, Triples

(* Absorbs move whole blocks from the ring to the middle and leave the     *)
(* rest of the row but its rank.                                           *)
LEMMA GraduateMoves ==
  ASSUME NEW row \in Row, NEW rank \in Ranks
  PROVE  /\ Graduate(row, rank) \in Row
         /\ Counts(Graduate(row, rank)) = Graduated(Counts(row))
         /\ Graduate(row, rank).len = row.len /\ Graduate(row, rank).mode = row.mode
<1> DEFINE blocks == Blocks(row)
           rk == IF blocks = 0 THEN row.rank ELSE rank
           given == blocks * AbsorbBlock
<1>1. Graduate(row, rank) = [row EXCEPT !.ring = row.ring - given, !.mid = row.mid + given,
                                        !.rank = rk]
  BY DEF Graduate
<1>2. /\ row.ring \in Nat /\ row.mid \in Nat /\ row.rank \in Nat /\ row.len \in Nat
      /\ row.mode \in Modes /\ row.kmid \in Middle
  BY DEF Row
<1>3. given = Moved(row.ring)
  BY Bounds DEF Moved, Blocks
<1>4. rk \in Nat
  BY <1>2, Bounds
<1> HIDE DEF given, rk
<1>5. row.ring - given \in Nat /\ row.mid + given \in Nat
  BY <1>2, <1>3, MovedBounds
<1> DEFINE new == Graduate(row, rank)
           x == row.ring - given
           y == row.mid + given
<1>9. new = [row EXCEPT !.ring = x, !.mid = y, !.rank = rk] /\ x \in Nat /\ y \in Nat
  BY <1>1, <1>5
<1> HIDE DEF new, x, y
<1>10. new \in Row /\ new.ring = x /\ new.mid = y /\ new.len = row.len /\ new.mode = row.mode
  BY <1>4, <1>9 DEF Row
<1>7. /\ new \in Row /\ new.ring = row.ring - given /\ new.mid = row.mid + given
      /\ new.len = row.len /\ new.mode = row.mode
  BY <1>10 DEF x, y
<1>8. Counts(new) = Graduated(Counts(row))
  BY <1>3, <1>7 DEF Counts, Graduated
<1> QED BY <1>7, <1>8 DEF new

(* A row's counts are numbers.                                             *)
LEMMA CountsTyped == \A row \in Row : Counts(row) \in Triples
BY DEF Counts, Triples, Row

(* Forgetting the kernel step keeps the rest of the row.                   *)
LEMMA ForgetKeeps ==
  ASSUME NEW row \in Row
  PROVE  /\ Forget(row) \in Row /\ Counts(Forget(row)) = Counts(row)
         /\ Forget(row).mode = row.mode /\ Forget(row).len = row.len
         /\ Forget(row).rank = row.rank /\ Forget(row).ring = row.ring
         /\ Forget(row).mid = row.mid
         /\ ~Forget(row).step /\ Forget(row).kmid = NoMiddle
<1>1. NoMiddle \in Middle
  BY DEF NoMiddle, Middle
<1>2. Forget(row) \in Row
  BY <1>1 DEF Forget, Row
<1>3. /\ Forget(row).mode = row.mode /\ Forget(row).len = row.len
      /\ Forget(row).rank = row.rank /\ Forget(row).ring = row.ring
      /\ Forget(row).mid = row.mid /\ Forget(row).kmid = NoMiddle
  BY DEF Forget, Row
<1>4. ~Forget(row).step
  BY DEF Forget, Row
<1> QED BY <1>2, <1>3, <1>4 DEF Counts

(* A fresh row holds nothing.                                              *)
LEMMA FreshTyped ==
  ASSUME NEW m \in Modes
  PROVE  /\ FreshRow(m) \in Row /\ FreshRow(m).mode = m /\ FreshRow(m).len = 0
         /\ Counts(FreshRow(m)) = <<0, 0, 0>>
BY DEF FreshRow, Row, Counts, NoMiddle, Middle

(* The decode step of a kernel cache keeps the middle for the kernel.      *)
Decodes(row, q) == row.len > 0 /\ row.mode = "normal" /\ q = 1

(* A prefill leaves no more in the ring than it was given.                 *)
LEMMA RecentFacts ==
  ASSUME NEW q \in 1 .. MaxForward
  PROVE  q \in Nat \ {0} /\ Recent(q) \in Nat /\ q - Recent(q) \in Nat
BY Bounds DEF Recent

(* What one update makes of a row.                                         *)
LEMMA UpdateMoves ==
  ASSUME NEW row \in Row, NEW q \in 1 .. MaxForward, NEW rank \in Ranks, NEW kernel \in BOOLEAN
  PROVE  LET new == UpdateRow(row, q, rank, kernel)
         IN  /\ new \in Row /\ new.mode = row.mode
             /\ Counts(new) = Updated(Counts(row), row.mode, q)
             /\ ~Rejects(row, q) => new.len > 0
             /\ Rejects(row, q) => new.len = row.len
             /\ row.len = 0 => new.mid - row.mid \in Nat
             /\ Decodes(row, q) /\ kernel => new.step /\ new.kmid.cols = new.mid
             /\ ~(Decodes(row, q) /\ kernel) => ~new.step
<1> DEFINE old == Forget(row)
<1>1. /\ old \in Row /\ Counts(old) = Counts(row) /\ old.mode = row.mode /\ old.len = row.len
      /\ old.rank = row.rank /\ old.ring = row.ring /\ old.mid = row.mid
      /\ ~old.step /\ old.kmid = NoMiddle
  BY ForgetKeeps
<1> HIDE DEF old
<1>2. UpdateRow(row, q, rank, kernel) =
        CASE Rejects(row, q)                     -> old
          [] row.len = 0                         -> Prefill(old, q, rank)
          [] row.len > 0 /\ row.mode = "score"   -> old
          [] row.len > 0 /\ row.mode = "ingest"  -> [old EXCEPT !.len = @ + q, !.ring = @ + q]
          [] OTHER                               -> DecodeStep(old, rank, kernel)
  BY DEF UpdateRow, old
<1>3. /\ row.len \in Nat /\ row.ring \in Nat /\ row.mid \in Nat /\ row.rank \in Nat
      /\ row.mode \in Modes /\ rank \in Nat /\ RecentWindow \in Nat /\ q \in Nat \ {0}
  BY Bounds, RecentFacts DEF Row
<1>4. CASE Rejects(row, q)
  <2>1. UpdateRow(row, q, rank, kernel) = old
    BY <1>2, <1>4 DEF Rejects
  <2> QED BY <1>1, <1>4, <2>1 DEF Rejects, Decodes, Updated, Refused, Counts
<1>5. CASE row.len = 0
  <2>1. UpdateRow(row, q, rank, kernel) = Prefill(old, q, rank)
    <3>1. ~Rejects(row, q)
      BY <1>5 DEF Rejects
    <3> QED BY <1>2, <1>5, <3>1
  <2>2. PICK recent \in Nat, rest \in Nat : recent = Recent(q) /\ rest = q - Recent(q)
    BY RecentFacts
  <2> DEFINE rk == IF q = recent THEN old.rank ELSE rank
             y == old.mid + rest
             new == Prefill(old, q, rank)
  <2>3. new = [old EXCEPT !.len = q, !.ring = recent, !.mid = y, !.rank = rk]
    BY <2>2 DEF Prefill
  <2>4. y \in Nat /\ rk \in Nat /\ y - old.mid \in Nat
    <3>1. old.mid \in Nat /\ old.rank \in Nat
      BY <1>1, <1>3
    <3>2. rk \in Nat
      BY <1>3, <3>1
    <3>3. old.mid + rest \in Nat /\ (old.mid + rest) - old.mid = rest
      BY <3>1
    <3> QED BY <3>2, <3>3
  <2>5. ASSUME NEW r \in Nat, NEW d \in Nat, NEW k \in Nat
        PROVE  ~[old EXCEPT !.len = q, !.ring = r, !.mid = d, !.rank = k].step
    BY <1>1 DEF Row
  <2> HIDE DEF rk, new, y
  <2>6. new.mode = old.mode /\ new.len = q /\ new.ring = recent /\ new.mid = y /\ new \in Row
    BY <1>1, <1>3, <2>3, <2>4 DEF Row
  <2>7. ~new.step
    BY <2>3, <2>4, <2>5
  <2>8. Counts(new) = Updated(Counts(row), row.mode, q)
    <3>1. Counts(new) = <<q, recent, row.mid + rest>>
      BY <1>1, <2>6 DEF Counts, y
    <3>2. Counts(row) = <<0, row.ring, row.mid>>
      BY <1>5 DEF Counts
    <3> QED BY <1>3, <2>2, <3>1, <3>2 DEF Updated, Refused
  <2>9. new.mid - row.mid \in Nat
    BY <1>1, <2>4, <2>6
  <2> QED BY <1>1, <1>3, <1>5, <2>1, <2>6, <2>7, <2>8, <2>9 DEF Rejects, Decodes, new
<1>6. CASE row.len > 0 /\ row.mode = "score"
  <2>1. UpdateRow(row, q, rank, kernel) = old
    BY <1>2, <1>3, <1>6 DEF Rejects
  <2> QED BY <1>1, <1>3, <1>6, <2>1 DEF Rejects, Decodes, Updated, Refused, Counts
<1>7. CASE row.len > 0 /\ row.mode = "ingest"
  <2> DEFINE new == [old EXCEPT !.len = @ + q, !.ring = @ + q]
  <2>1. UpdateRow(row, q, rank, kernel) = new
    BY <1>2, <1>3, <1>7 DEF Rejects
  <2>2. /\ new.mode = old.mode /\ new.len = old.len + q /\ new.ring = old.ring + q
        /\ new.mid = old.mid /\ new \in Row
    <3>1. ASSUME NEW x \in Nat, NEW y \in Nat
          PROVE  /\ [old EXCEPT !.len = x, !.ring = y] \in Row
                 /\ [old EXCEPT !.len = x, !.ring = y].mode = old.mode
                 /\ [old EXCEPT !.len = x, !.ring = y].len = x
                 /\ [old EXCEPT !.len = x, !.ring = y].ring = y
                 /\ [old EXCEPT !.len = x, !.ring = y].mid = old.mid
      BY <1>1 DEF Row
    <3>2. old.len + q \in Nat /\ old.ring + q \in Nat
      BY <1>1, <1>3
    <3>3. new = [old EXCEPT !.len = old.len + q, !.ring = old.ring + q]
      OBVIOUS
    <3> HIDE DEF new
    <3> QED BY <3>1, <3>2, <3>3, ZenonT(40)
  <2>3. ~new.step
    BY <1>1 DEF Row
  <2>4. Counts(new) = Updated(Counts(row), row.mode, q)
    BY <1>1, <1>3, <1>7, <2>2 DEF Counts, Updated, Refused
  <2> QED BY <1>1, <1>3, <1>7, <2>1, <2>2, <2>3, <2>4 DEF Rejects, Decodes
<1>8. CASE Decodes(row, q)
  <2> DEFINE grown0 == Fed(old)
             grown == Graduate(grown0, rank)
             kept == IF kernel /\ grown.mid > 0
                     THEN [cols |-> grown.mid, rank |-> grown.rank] ELSE NoMiddle
             new == [grown EXCEPT !.step = kernel, !.kmid = kept]
  <2>1. UpdateRow(row, q, rank, kernel) = new
    BY <1>2, <1>3, <1>8 DEF Rejects, Decodes, DecodeStep
  <2>2. /\ grown0.mode = old.mode /\ grown0.len = old.len + 1 /\ grown0.ring = old.ring + 1
        /\ grown0.mid = old.mid /\ grown0 \in Row
    <3>1. ASSUME NEW x \in Nat, NEW y \in Nat
          PROVE  /\ [old EXCEPT !.len = x, !.ring = y] \in Row
                 /\ [old EXCEPT !.len = x, !.ring = y].mode = old.mode
                 /\ [old EXCEPT !.len = x, !.ring = y].len = x
                 /\ [old EXCEPT !.len = x, !.ring = y].ring = y
                 /\ [old EXCEPT !.len = x, !.ring = y].mid = old.mid
      BY <1>1 DEF Row
    <3>2. old.len + 1 \in Nat /\ old.ring + 1 \in Nat
      BY <1>1, <1>3
    <3>3. grown0 = [old EXCEPT !.len = old.len + 1, !.ring = old.ring + 1]
      BY DEF Fed
    <3> HIDE DEF grown0
    <3> QED BY <3>1, <3>2, <3>3, ZenonT(40)
  <2>3. grown0 \in Row /\ Counts(grown0) = <<row.len + 1, row.ring + 1, row.mid>>
        /\ grown0.mode = row.mode /\ grown0.len = row.len + 1
    BY <1>1, <2>2 DEF Counts
  <2> HIDE DEF grown0
  <2>4. /\ grown \in Row /\ Counts(grown) = Graduated(Counts(grown0))
        /\ grown.len = grown0.len /\ grown.mode = grown0.mode
    BY <2>3, GraduateMoves
  <2> HIDE DEF grown
  <2>5. kept \in Middle /\ (kernel => kept.cols = grown.mid)
    <3>1. grown.mid \in Nat /\ grown.rank \in Nat
      BY <2>4 DEF Row
    <3> QED BY <3>1 DEF Middle, NoMiddle
  <2> HIDE DEF kept
  <2>6. /\ new.mode = grown.mode /\ new.len = grown.len /\ new.ring = grown.ring
        /\ new.mid = grown.mid /\ new.kmid = kept
    BY <2>4 DEF Row
  <2>7. grown \in [mode : Modes, len : Nat, ring : Nat, mid : Nat, rank : Nat, step : BOOLEAN,
                 kmid : Middle]
    BY <2>4 DEF Row
  <2>8. new \in Row
    BY <2>5, <2>7, Zenon DEF Row
  <2>9. new.mode = row.mode /\ new.len = row.len + 1 /\ new.kmid = kept /\ new.mid = grown.mid
        /\ Counts(new) = Counts(grown)
    BY <2>3, <2>4, <2>6 DEF Counts
  <2>10. new.step <=> kernel
    BY <2>7, Zenon
  <2> HIDE DEF new
  <2>11. Counts(new) = Updated(Counts(row), row.mode, q)
    BY <1>3, <1>8, <2>3, <2>4, <2>9 DEF Decodes, Counts, Updated, Refused
  <2>12. new.len > 0 /\ ~Rejects(row, q)
    BY <1>3, <1>8, <2>9 DEF Decodes, Rejects
  <2>13. row.len # 0
    BY <1>3, <1>8 DEF Decodes
  <2> QED BY <1>8, <2>1, <2>5, <2>8, <2>9, <2>10, <2>11, <2>12, <2>13
<1>9. Rejects(row, q) \/ row.len = 0 \/ (row.len > 0 /\ row.mode \in {"score", "ingest"})
      \/ Decodes(row, q)
  BY <1>3 DEF Rejects, Decodes, Modes
<1> QED BY <1>4, <1>5, <1>6, <1>7, <1>8, <1>9

------------------------------------------------------------------------------
(* The step gives one layer of a cache new rows.                           *)
LayerReplaced(c, l, new) == rows' = [rows EXCEPT ![c][l] = new]

(* Replacing one layer's rows leaves every other layer.                    *)
LEMMA OneLayerMoves ==
  ASSUME Typed, NEW c \in Caches, NEW l \in Layers, NEW new \in Seq(Row),
         Len(new) \in {0, Batch[c]}, LayerReplaced(c, l, new)
  PROVE  /\ rows' \in [Caches -> [Layers -> Seq(Row)]]
         /\ \A d \in Caches, k \in Layers : Len(rows'[d][k]) \in {0, Batch[d]}
         /\ rows'[c][l] = new
         /\ \A d \in Caches, k \in Layers : d # c \/ k # l => rows'[d][k] = rows[d][k]
<1>1. rows \in [Caches -> [Layers -> Seq(Row)]]
  BY DEF Typed
<1>2. rows'[c] = [rows[c] EXCEPT ![l] = new]
  BY <1>1 DEF LayerReplaced
<1>3. rows'[c] \in [Layers -> Seq(Row)] /\ rows'[c][l] = new
      /\ \A k \in Layers : k # l => rows'[c][k] = rows[c][k]
  BY <1>1, <1>2
<1>4. rows' = [rows EXCEPT ![c] = rows'[c]]
  BY <1>1 DEF LayerReplaced
<1>5. rows' \in [Caches -> [Layers -> Seq(Row)]] /\ \A d \in Caches : d # c => rows'[d] = rows[d]
  <2> DEFINE newc == rows'[c]
  <2> HIDE DEF newc
  <2>1. rows' = [rows EXCEPT ![c] = newc] /\ newc \in [Layers -> Seq(Row)]
    BY <1>3, <1>4 DEF newc
  <2> QED BY <1>1, <2>1
<1>6. \A d \in Caches, k \in Layers : d # c \/ k # l => rows'[d][k] = rows[d][k]
  BY <1>3, <1>5
<1>7. \A d \in Caches, k \in Layers : Len(rows'[d][k]) \in {0, Batch[d]}
  <2> SUFFICES ASSUME NEW d \in Caches, NEW k \in Layers PROVE Len(rows'[d][k]) \in {0, Batch[d]}
    OBVIOUS
  <2>1. CASE d # c \/ k # l
    BY <1>6, <2>1 DEF Typed
  <2>2. CASE d = c /\ k = l
    BY <1>3, <2>2
  <2> QED BY <2>1, <2>2
<1> QED BY <1>3, <1>5, <1>6, <1>7

(* Replacing the rows of one cache leaves every other cache.               *)
LEMMA OneCacheMoves ==
  ASSUME Typed, NEW c \in Caches, NEW new \in [Layers -> Seq(Row)],
         \A l \in Layers : Len(new[l]) \in {0, Batch[c]}, rows' = [rows EXCEPT ![c] = new]
  PROVE  /\ rows' \in [Caches -> [Layers -> Seq(Row)]]
         /\ \A d \in Caches, k \in Layers : Len(rows'[d][k]) \in {0, Batch[d]}
         /\ rows'[c] = new /\ \A d \in Caches : d # c => rows'[d] = rows[d]
<1>1. rows \in [Caches -> [Layers -> Seq(Row)]]
  BY DEF Typed
<1>2. /\ rows' \in [Caches -> [Layers -> Seq(Row)]]
      /\ rows'[c] = new /\ \A d \in Caches : d # c => rows'[d] = rows[d]
  BY <1>1
<1>3. \A d \in Caches, k \in Layers : Len(rows'[d][k]) \in {0, Batch[d]}
  BY <1>2 DEF Typed
<1> QED BY <1>2, <1>3

(* A layer has no rows yet, or one for each of the batch.                  *)
LEMMA RowFacts ==
  ASSUME Typed, NEW c \in Caches, NEW l \in Layers
  PROVE  /\ rows[c][l] \in Seq(Row) /\ mode[c] \in Modes /\ Batch[c] \in Nat \ {0}
         /\ rows[c][l] = <<>> \/ (rows[c][l] \in [1 .. Batch[c] -> Row]
                                  /\ DOMAIN rows[c][l] = 1 .. Batch[c])
         /\ rows[c][l] = <<>> <=> Len(rows[c][l]) = 0
         /\ \A r \in DOMAIN rows[c][l] : rows[c][l][r] \in Row
<1>1. rows[c][l] \in Seq(Row) /\ Len(rows[c][l]) \in {0, Batch[c]} /\ mode[c] \in Modes
  BY DEF Typed
<1>2. Batch[c] \in Nat \ {0}
  BY Bounds
<1> DEFINE R == rows[c][l]
<1> HIDE DEF R
<1>3. R \in Seq(Row) => /\ R \in [1 .. Len(R) -> Row] /\ DOMAIN R = 1 .. Len(R)
                        /\ (R = <<>> <=> Len(R) = 0)
  <2> SUFFICES ASSUME R \in Seq(Row) PROVE /\ R \in [1 .. Len(R) -> Row] /\ DOMAIN R = 1 .. Len(R)
                                           /\ (R = <<>> <=> Len(R) = 0)
    OBVIOUS
  <2>1. R \in [1 .. Len(R) -> Row] /\ DOMAIN R = 1 .. Len(R)
    BY LenProperties
  <2>2. R = <<>> <=> Len(R) = 0
    BY EmptySeq
  <2> QED BY <2>1, <2>2
<1>4. R \in Seq(Row) /\ Len(R) \in {0, Batch[c]}
  BY <1>1 DEF R
<1>5. \A r \in DOMAIN R : R[r] \in Row
  BY <1>3, <1>4
<1>6. R = <<>> \/ (R \in [1 .. Batch[c] -> Row] /\ DOMAIN R = 1 .. Batch[c])
  BY <1>3, <1>4
<1> QED BY <1>1, <1>2, <1>3, <1>4, <1>5, <1>6 DEF R

(* The rows an update works on: those there are, or fresh ones.            *)
LEMMA RowsOfTyped ==
  ASSUME Typed, Together, NEW c \in Caches, NEW l \in Layers
  PROVE  /\ Batch[c] \in Nat \ {0} /\ mode[c] \in Modes
         /\ \A r \in 1 .. Batch[c] : RowsOf(c, l)[r] \in Row /\ RowsOf(c, l)[r].mode = mode[c]
         /\ c \notin torn =>
              /\ \A r, s \in 1 .. Batch[c] : RowsOf(c, l)[r].len > 0 => RowsOf(c, l)[s].len > 0
              /\ \A r \in 1 .. Batch[c] :
                   RowsOf(c, l)[r].len = 0 => Counts(RowsOf(c, l)[r]) = <<0, 0, 0>>
         /\ rows[c][l] # <<>> => RowsOf(c, l) = rows[c][l] /\ DOMAIN rows[c][l] = 1 .. Batch[c]
         /\ rows[c][l] = <<>> =>
              \A r \in 1 .. Batch[c] : /\ Counts(RowsOf(c, l)[r]) = <<0, 0, 0>>
                                       /\ RowsOf(c, l)[r].len = 0
<1>1. Batch[c] \in Nat \ {0} /\ mode[c] \in Modes
  BY RowFacts
<1>2. CASE rows[c][l] = <<>>
  <2>1. \A r \in 1 .. Batch[c] : RowsOf(c, l)[r] = FreshRow(mode[c])
    BY <1>2 DEF RowsOf
  <2> QED BY <1>1, <1>2, <2>1, FreshTyped
<1>3. CASE rows[c][l] # <<>>
  <2>1. RowsOf(c, l) = rows[c][l] /\ DOMAIN rows[c][l] = 1 .. Batch[c]
    BY <1>3, RowFacts DEF RowsOf
  <2>2. \A r \in 1 .. Batch[c] : rows[c][l][r] \in Row
    BY <2>1, RowFacts
  <2>3. /\ \A r \in 1 .. Batch[c] : rows[c][l][r].mode = mode[c]
        /\ c \notin torn =>
             /\ \A r, s \in 1 .. Batch[c] : rows[c][l][r].len > 0 => rows[c][l][s].len > 0
             /\ \A r \in 1 .. Batch[c] :
                  rows[c][l][r].len = 0 => Counts(rows[c][l][r]) = <<0, 0, 0>>
    BY <2>1 DEF Together, Level
  <2> QED BY <1>1, <1>3, <2>1, <2>2, <2>3
<1> QED BY <1>2, <1>3

------------------------------------------------------------------------------
(* The scopes.                                                             *)

(* An added scope leaves what the first n say.                             *)
LEMMA AmongSame ==
  ASSUME NEW n \in Nat, \A i \in 1 .. n : scopes'[i] = scopes[i]
  PROVE  KernelAmong(n)' = KernelAmong(n) /\ ImplOf(n)' = ImplOf(n)
BY DEF KernelAmong, ImplOf

(* Attaching remembers what was in force.                                  *)
LEMMA AttachScoped ==
  ASSUME Typed, Scoped, NEW c \in Caches, Attach(c)
  PROVE  Scoped' /\ scopes' \in Seq(Scope) /\ impl' \in Impls
<1> DEFINE scope == [cache |-> c, previous |-> impl]
<1>0. PICK n \in Nat : n = Len(scopes)
  BY DEF Typed
<1>1. n \in Nat /\ n = Len(scopes) /\ scopes \in Seq(Scope) /\ impl \in Impls /\ scope \in Scope
  BY <1>0 DEF Typed, Scope
<1>2. scopes' = Append(scopes, scope)
  BY DEF Attach
<1>3. /\ scopes' \in Seq(Scope) /\ Len(scopes') = n + 1 /\ scopes'[n + 1] = scope
      /\ \A i \in 1 .. n : scopes'[i] = scopes[i]
  BY <1>1, <1>2
<1>4. scopes'[n + 1].cache = c /\ scopes'[n + 1].previous = impl
  BY <1>3
<1> HIDE DEF scope
<1>5. \A i \in 0 .. n : ImplOf(i)' = ImplOf(i)
  <2> SUFFICES ASSUME NEW i \in 0 .. n PROVE ImplOf(i)' = ImplOf(i)
    OBVIOUS
  <2>1. i \in Nat /\ \A j \in 1 .. i : scopes'[j] = scopes[j]
    BY <1>1, <1>3
  <2> QED BY <2>1, AmongSame
<1>6. \A i \in 1 .. n + 1 : scopes'[i].previous = ImplOf(i - 1)'
  <2> SUFFICES ASSUME NEW i \in 1 .. n + 1 PROVE scopes'[i].previous = ImplOf(i - 1)'
    OBVIOUS
  <2>1. i - 1 \in 0 .. n
    BY <1>1
  <2>2. CASE i \in 1 .. n
    BY <1>1, <1>3, <1>5, <2>1, <2>2 DEF Scoped
  <2>3. CASE i = n + 1
    <3>1. i - 1 = n /\ n \in 0 .. n
      BY <1>1, <2>3
    <3>2. ImplOf(n)' = ImplOf(n)
      BY <1>5, <3>1
    <3> QED BY <1>1, <1>4, <2>3, <3>1, <3>2 DEF Scoped
  <2> QED BY <1>1, <2>2, <2>3
<1>7. KernelAmong(n + 1)' <=> KernelAmong(n) \/ c \in Kernel
  <2>1. \A i \in 1 .. n + 1 : i \in 1 .. n \/ i = n + 1
    BY <1>1
  <2>2. n + 1 \in 1 .. n + 1 /\ \A i \in 1 .. n : i \in 1 .. n + 1
    BY <1>1
  <2> QED BY <1>3, <1>4, <2>1, <2>2 DEF KernelAmong
<1>8. impl' = ImplOf(n + 1)' /\ impl' \in Impls
  BY <1>1, <1>7 DEF Attach, Scoped, ImplOf, Impls
<1>9. bound' # Unbound => bound' \in Kernel /\ \E i \in 1 .. n + 1 : scopes'[i].cache = bound'
  <2>1. CASE c \in Kernel
    <3>1. bound' = c /\ n + 1 \in 1 .. n + 1
      BY <1>1, <2>1 DEF Attach
    <3> QED BY <1>4, <2>1, <3>1
  <2>2. CASE c \notin Kernel
    <3>1. bound' = bound
      BY <2>2 DEF Attach
    <3>2. \A i \in 1 .. n : i \in 1 .. n + 1
      BY <1>1
    <3> QED BY <1>1, <1>3, <3>1, <3>2 DEF Scoped
  <2> QED BY <2>1, <2>2
<1> QED BY <1>3, <1>6, <1>8, <1>9 DEF Scoped

(* Detaching puts back what was in force, and unbinds.                     *)
LEMMA DetachScoped ==
  ASSUME Typed, Scoped, Detach
  PROVE  Scoped' /\ scopes' \in Seq(Scope) /\ impl' \in Impls
<1>0. PICK n \in Nat : n = Len(scopes)
  BY DEF Typed
<1> DEFINE top == scopes[n]
<1>1. n = Len(scopes) /\ n \in Nat \ {0} /\ scopes \in Seq(Scope) /\ impl \in Impls /\ top \in Scope
  <2>1. scopes \in Seq(Scope) /\ scopes # <<>> /\ impl \in Impls
    BY DEF Typed, Detach
  <2>2. n \in Nat \ {0}
    BY <1>0, <2>1, EmptySeq
  <2>3. 1 .. n = DOMAIN scopes /\ n \in 1 .. n
    BY <1>0, <2>1, <2>2
  <2> QED BY <1>0, <2>1, <2>2, <2>3
<1>2. /\ scopes' = SubSeq(scopes, 1, n - 1)
      /\ impl' = IF top.cache \in Kernel THEN top.previous ELSE impl
      /\ bound' = IF top.cache \in Kernel THEN Unbound ELSE bound
  BY <1>1 DEF Detach, Front, Last, BoundAfter
<1>3. /\ scopes' \in Seq(Scope) /\ Len(scopes') = n - 1
      /\ \A i \in 1 .. n - 1 : scopes'[i] = scopes[i]
  <2>1. n - 1 \in Nat /\ n - 1 <= n
    BY <1>1
  <2> QED BY <1>1, <1>2, <2>1
<1>4. \A i \in 0 .. n - 1 : ImplOf(i)' = ImplOf(i)
  <2> SUFFICES ASSUME NEW i \in 0 .. n - 1 PROVE ImplOf(i)' = ImplOf(i)
    OBVIOUS
  <2>1. i \in Nat /\ \A j \in 1 .. i : scopes'[j] = scopes[j]
    BY <1>1, <1>3
  <2> QED BY <2>1, AmongSame
<1>5. \A i \in 1 .. n - 1 : scopes'[i].previous = ImplOf(i - 1)'
  <2> SUFFICES ASSUME NEW i \in 1 .. n - 1 PROVE scopes'[i].previous = ImplOf(i - 1)'
    OBVIOUS
  <2>1. i - 1 \in 0 .. n - 1 /\ i \in 1 .. n
    BY <1>1
  <2> QED BY <1>1, <1>3, <1>4, <2>1 DEF Scoped
<1>6. KernelAmong(n) <=> KernelAmong(n - 1) \/ top.cache \in Kernel
  <2>1. \A i \in 1 .. n : i \in 1 .. n - 1 \/ i = n
    BY <1>1
  <2>2. n \in 1 .. n /\ \A i \in 1 .. n - 1 : i \in 1 .. n
    BY <1>1
  <2> QED BY <2>1, <2>2 DEF KernelAmong
<1>7. impl' = ImplOf(n - 1)' /\ impl' \in Impls
  <2>1. n - 1 \in 0 .. n - 1 /\ n \in 1 .. n
    BY <1>1
  <2>2. top.previous = ImplOf(n - 1) /\ impl = ImplOf(n)
    BY <1>1, <2>1 DEF Scoped
  <2>3. ImplOf(n - 1)' = ImplOf(n - 1)
    BY <1>4, <2>1
  <2>4. impl' = ImplOf(n - 1)
    BY <1>2, <1>6, <2>2 DEF ImplOf
  <2> QED BY <2>3, <2>4 DEF ImplOf, Impls
<1>8. bound' # Unbound => bound' \in Kernel /\ \E i \in 1 .. n - 1 : scopes'[i].cache = bound'
  <2> SUFFICES ASSUME bound' # Unbound
               PROVE  bound' \in Kernel /\ \E i \in 1 .. n - 1 : scopes'[i].cache = bound'
    OBVIOUS
  <2>1. top.cache \notin Kernel /\ bound' = bound
    BY <1>2
  <2>2. bound \in Kernel /\ \E i \in 1 .. n : scopes[i].cache = bound
    BY <1>1, <2>1 DEF Scoped
  <2>3. PICK i \in 1 .. n : scopes[i].cache = bound
    BY <2>2
  <2>4. i # n
    BY <2>1, <2>2, <2>3
  <2>5. i \in 1 .. n - 1
    BY <1>1, <2>4
  <2> QED BY <1>3, <2>1, <2>2, <2>3, <2>5
<1> QED BY <1>3, <1>5, <1>7, <1>8 DEF Scoped

------------------------------------------------------------------------------
(* What a step leaves of the caches it is not about.                       *)
LEMMA OthersInStep ==
  ASSUME Stepwise, NEW c, NEW d \in Caches \ failed', d # c, d \notin failed,
         rows'[d] = rows[d], mode'[d] = mode[d],
         \A l \in Layers : (Done(d, l)' <=> Done(d, l)) /\ (Done(d, l) => forward'.q = forward.q)
  PROVE  \E a \in Triples : InStepAt(d, a)'
<1>1. PICK a \in Triples : InStepAt(d, a)
  BY DEF Stepwise
<1>2. InStepAt(d, a)'
  BY <1>1 DEF InStepAt
<1> QED BY <1>2

(* No layer is done outside the forward's cache, nor between forwards.     *)
LEMMA NotDone ==
  ASSUME NEW d, forward = Idle \/ forward.by # d
  PROVE  \A l \in Layers : ~Done(d, l)
BY DEF Done

(* The invariant without the history of attention calls and the scopes:    *)
(* what the rows and the forward say.                                      *)
Flow == Together /\ Handed /\ Stepwise

(* New rows of a cache in mode m, and at one token count.                  *)
UniformRows(c, m, new) ==
  \A l \in Layers :
    /\ Len(new[l]) \in {0, Batch[c]}
    /\ \A r \in DOMAIN new[l] : new[l][r].mode = m
    /\ c \notin torn' => Level(new[l])

SameCounts(new) ==
  \E a \in Triples :
    /\ \A l \in Layers : \A r \in DOMAIN new[l] : Counts(new[l][r]) = a
    /\ \A l \in Layers : new[l] = <<>> => a = <<0, 0, 0>>
    /\ \A l, k \in Layers : new[l] = <<>> => new[k] = <<>>

(* A step between forwards that gives a cache new rows or another mode.    *)
LEMMA CacheStepKeeps ==
  ASSUME Typed, Flow, NEW c \in Caches, NEW m \in Modes, NEW new \in [Layers -> Seq(Row)],
         forward = Idle, forward' = forward, mode' = [mode EXCEPT ![c] = m],
         rows' = [rows EXCEPT ![c] = new], failed \ {c} \subseteq failed',
         \A d \in Caches : d # c => (d \in torn' <=> d \in torn),
         UniformRows(c, m, new), c \notin failed' => SameCounts(new)
  PROVE  /\ Flow' /\ mode' \in [Caches -> Modes] /\ rows' \in [Caches -> [Layers -> Seq(Row)]]
         /\ \A d \in Caches, l \in Layers : Len(rows'[d][l]) \in {0, Batch[d]}
<1>1. /\ rows' \in [Caches -> [Layers -> Seq(Row)]]
      /\ \A d \in Caches, k \in Layers : Len(rows'[d][k]) \in {0, Batch[d]}
      /\ rows'[c] = new /\ \A d \in Caches : d # c => rows'[d] = rows[d]
  BY OneCacheMoves DEF UniformRows
<1>2. /\ mode' \in [Caches -> Modes] /\ mode'[c] = m
      /\ \A d \in Caches : d # c => mode'[d] = mode[d]
  BY DEF Typed
<1>3. Together'
  <2> SUFFICES ASSUME NEW d \in Caches, NEW l \in Layers
               PROVE  /\ \A r \in DOMAIN rows'[d][l] : rows'[d][l][r].mode = mode'[d]
                      /\ d \notin torn' => Level(rows'[d][l])
    BY DEF Together, Level, Counts
  <2>1. CASE d = c
    BY <1>1, <1>2, <2>1 DEF UniformRows
  <2>2. CASE d # c
    <3>1. rows'[d] = rows[d] /\ mode'[d] = mode[d]
      BY <1>1, <1>2, <2>2
    <3>2. d \notin torn' => d \notin torn
      BY <2>2
    <3> QED BY <3>1, <3>2 DEF Flow, Together
  <2> QED BY <2>1, <2>2
<1>4. Handed'
  BY DEF Handed
<1>5. Stepwise'
  <2>1. \A d, l : ~Done(d, l) /\ ~Done(d, l)'
    BY DEF Done
  <2>2. ASSUME c \notin failed'
        PROVE  \E a \in Triples : InStepAt(c, a)'
    BY <1>1, <2>1, <2>2 DEF InStepAt, SameCounts
  <2>3. ASSUME NEW d \in Caches \ failed', d # c
        PROVE  \E a \in Triples : InStepAt(d, a)'
    <3>1. d \notin failed /\ rows'[d] = rows[d] /\ mode'[d] = mode[d]
      BY <1>1, <1>2, <2>3
    <3> QED BY <2>1, <2>3, <3>1, OthersInStep DEF Flow
  <2> QED BY <2>2, <2>3 DEF Stepwise
<1> QED BY <1>1, <1>2, <1>3, <1>4, <1>5 DEF Flow

(* Switching the mode reaches every row.                                   *)
LEMMA SetModeKeeps ==
  ASSUME Typed, Flow, NEW c \in Caches, NEW m \in Modes, SetMode(c, m)
  PROVE  Typed' /\ Flow'
<1> DEFINE moded(l) == [r \in DOMAIN rows[c][l] |->
                          IF Batch[c] = 1 THEN [rows[c][l][r] EXCEPT !.mode = m]
                          ELSE ModeOfRow(rows[c][l][r], m)]
           new == [l \in Layers |-> moded(l)]
<1>1. /\ forward = Idle /\ mode' = [mode EXCEPT ![c] = m]
      /\ rows' = [rows EXCEPT ![c] = new]
      /\ UNCHANGED <<impl, scopes, forward, failed, torn>>
  BY DEF SetMode, scopeVars
<1>2. ASSUME NEW l \in Layers
      PROVE  /\ new[l] \in Seq(Row) /\ DOMAIN new[l] = DOMAIN rows[c][l]
             /\ Len(new[l]) = Len(rows[c][l])
             /\ \A r \in DOMAIN rows[c][l] :
                  /\ new[l][r].mode = m /\ new[l][r].len = rows[c][l][r].len
                  /\ Counts(new[l][r]) = Counts(rows[c][l][r])
  <2> DEFINE R == rows[c][l]
             n == Len(R)
  <2>1. n \in Nat /\ DOMAIN R = 1 .. n /\ \A r \in 1 .. n : R[r] \in Row
    <3>1. R \in Seq(Row)
      BY RowFacts
    <3> HIDE DEF R
    <3>2. n \in Nat /\ DOMAIN R = 1 .. n /\ R \in [1 .. n -> Row]
      BY <3>1, LenProperties
    <3> QED BY <3>2
  <2>2. new[l] = [r \in 1 .. n |-> [R[r] EXCEPT !.mode = m]]
    BY <2>1 DEF ModeOfRow
  <2> HIDE DEF new, R
  <2>3. \A r \in 1 .. n : /\ [R[r] EXCEPT !.mode = m] \in Row /\ [R[r] EXCEPT !.mode = m].mode = m
                          /\ [R[r] EXCEPT !.mode = m].len = R[r].len
                          /\ [R[r] EXCEPT !.mode = m].ring = R[r].ring
                          /\ [R[r] EXCEPT !.mode = m].mid = R[r].mid
    BY <2>1 DEF Row
  <2> HIDE DEF n
  <2>4. new[l] \in [1 .. n -> Row]
    BY <2>2, <2>3
  <2>5. new[l] \in Seq(Row) /\ DOMAIN new[l] = 1 .. n /\ Len(new[l]) = n
    BY <2>1, <2>4, FunctionIsSeq
  <2>6. \A r \in 1 .. n : /\ new[l][r].mode = m /\ new[l][r].len = R[r].len
                          /\ Counts(new[l][r]) = Counts(R[r])
    BY <2>2, <2>3 DEF Counts
  <2> QED BY <2>1, <2>5, <2>6 DEF R, n
<1> HIDE DEF new
<1>3. new \in [Layers -> Seq(Row)]
  <2>1. new = [l \in Layers |-> new[l]]
    BY DEF new
  <2> QED BY <1>2, <2>1
<1>4. ASSUME NEW l \in Layers
      PROVE  /\ Len(new[l]) \in {0, Batch[c]}
             /\ \A r \in DOMAIN new[l] : new[l][r].mode = m
             /\ c \notin torn' => Level(new[l])
             /\ new[l] = <<>> <=> rows[c][l] = <<>>
  <2>1. Len(rows[c][l]) \in {0, Batch[c]}
    BY DEF Typed
  <2>2. c \notin torn => Level(rows[c][l])
    BY DEF Flow, Together
  <2>3. new[l] = <<>> <=> Len(new[l]) = 0
    BY <1>2, EmptySeq
  <2>4. rows[c][l] = <<>> <=> Len(rows[c][l]) = 0
    BY RowFacts
  <2>5. c \notin torn' => Level(new[l])
    BY <1>1, <1>2, <2>2 DEF Level
  <2> QED BY <1>2, <2>1, <2>3, <2>4, <2>5
<1>5. ASSUME c \notin failed'
      PROVE  SameCounts(new)
  <2>1. PICK a \in Triples : InStepAt(c, a)
    BY <1>1, <1>5 DEF Flow, Stepwise
  <2>2. \A l \in Layers : ~Done(c, l)
    BY <1>1, NotDone
  <2> QED BY <1>2, <1>4, <2>1, <2>2 DEF InStepAt, SameCounts
<1>6. /\ Flow' /\ mode' \in [Caches -> Modes] /\ rows' \in [Caches -> [Layers -> Seq(Row)]]
      /\ \A d \in Caches, l \in Layers : Len(rows'[d][l]) \in {0, Batch[d]}
  <2>1. UniformRows(c, m, new)
    BY <1>4 DEF UniformRows
  <2>2. /\ forward' = forward /\ failed \ {c} \subseteq failed'
        /\ \A d \in Caches : d # c => (d \in torn' <=> d \in torn)
    BY <1>1
  <2>3. c \notin failed' => SameCounts(new)
    BY <1>5
  <2> QED BY <1>1, <1>3, <2>1, <2>2, <2>3, CacheStepKeeps
<1> QED BY <1>1, <1>6 DEF Typed

(* Consolidating moves the same tokens in every row.                       *)
LEMMA ConsolidateKeeps ==
  ASSUME Typed, Flow, NEW c \in Caches, Consolidate(c)
  PROVE  Typed' /\ Flow'
<1>1. PICK rank \in [1 .. Batch[c] -> Ranks] :
        rows' = [rows EXCEPT ![c] = [l \in Layers |-> ConsolidateRows(rows[c][l], rank)]]
  BY DEF Consolidate
<1> DEFINE new == [l \in Layers |-> ConsolidateRows(rows[c][l], rank)]
<1>2. /\ forward = Idle /\ rows' = [rows EXCEPT ![c] = new]
      /\ UNCHANGED <<impl, scopes, mode, forward, failed, torn>>
  BY <1>1 DEF Consolidate, scopeVars
<1>3. ASSUME NEW l \in Layers
      PROVE  /\ new[l] \in Seq(Row) /\ DOMAIN new[l] = DOMAIN rows[c][l]
             /\ Len(new[l]) = Len(rows[c][l])
             /\ \A r \in DOMAIN rows[c][l] :
                  /\ new[l][r].mode = rows[c][l][r].mode /\ new[l][r].len = rows[c][l][r].len
                  /\ Counts(new[l][r]) = Graduated(Counts(rows[c][l][r]))
  <2> DEFINE R == rows[c][l]
             n == Len(R)
  <2>1. n \in Nat /\ DOMAIN R = 1 .. n /\ (\A r \in 1 .. n : R[r] \in Row)
        /\ n \in {0, Batch[c]}
    <3>1. R \in Seq(Row) /\ n \in {0, Batch[c]}
      BY RowFacts DEF Typed
    <3> HIDE DEF R
    <3>2. n \in Nat /\ DOMAIN R = 1 .. n /\ R \in [1 .. n -> Row]
      BY <3>1, LenProperties
    <3> QED BY <3>1, <3>2
  <2>2. new[l] = [r \in 1 .. n |-> Graduate(R[r], rank[r])]
    BY <2>1 DEF ConsolidateRows
  <2>3. \A r \in 1 .. n : rank[r] \in Ranks
    BY <2>1
  <2> HIDE DEF new, R, n
  <2>4. \A r \in 1 .. n : /\ Graduate(R[r], rank[r]) \in Row
                          /\ Counts(Graduate(R[r], rank[r])) = Graduated(Counts(R[r]))
                          /\ Graduate(R[r], rank[r]).len = R[r].len
                          /\ Graduate(R[r], rank[r]).mode = R[r].mode
    BY <2>1, <2>3, GraduateMoves
  <2>5. new[l] \in [1 .. n -> Row]
    BY <2>2, <2>4
  <2>6. new[l] \in Seq(Row) /\ DOMAIN new[l] = 1 .. n /\ Len(new[l]) = n
    BY <2>1, <2>5, FunctionIsSeq
  <2>7. \A r \in 1 .. n : /\ new[l][r].mode = R[r].mode /\ new[l][r].len = R[r].len
                          /\ Counts(new[l][r]) = Graduated(Counts(R[r]))
    BY <2>2, <2>4
  <2> QED BY <2>1, <2>6, <2>7 DEF R, n
<1> HIDE DEF new
<1>4. new \in [Layers -> Seq(Row)]
  <2>1. new = [l \in Layers |-> new[l]]
    BY DEF new
  <2> QED BY <1>3, <2>1
<1>5. ASSUME NEW l \in Layers
      PROVE  /\ Len(new[l]) \in {0, Batch[c]}
             /\ \A r \in DOMAIN new[l] : new[l][r].mode = mode[c]
             /\ c \notin torn' => Level(new[l])
             /\ new[l] = <<>> <=> rows[c][l] = <<>>
  <2>1. Len(rows[c][l]) \in {0, Batch[c]}
    BY DEF Typed
  <2>2. /\ \A r \in DOMAIN rows[c][l] : rows[c][l][r].mode = mode[c]
        /\ c \notin torn => Level(rows[c][l])
    BY DEF Flow, Together
  <2>3. new[l] = <<>> <=> Len(new[l]) = 0
    BY <1>3, EmptySeq
  <2>4. rows[c][l] = <<>> <=> Len(rows[c][l]) = 0
    BY RowFacts
  <2>5. c \notin torn' => Level(new[l])
    <3>1. Graduated(<<0, 0, 0>>) = <<0, 0, 0>>
      BY GraduatedTyped DEF Triples
    <3> QED BY <1>2, <1>3, <2>2, <3>1 DEF Level
  <2> QED BY <1>3, <2>1, <2>2, <2>3, <2>4, <2>5
<1>6. c \notin failed' => SameCounts(new)
  <2> SUFFICES ASSUME c \notin failed' PROVE SameCounts(new)
    OBVIOUS
  <2>1. PICK a \in Triples : InStepAt(c, a)
    BY <1>2 DEF Flow, Stepwise
  <2>2. \A l \in Layers : ~Done(c, l)
    BY <1>2, NotDone
  <2>3. Graduated(a) \in Triples /\ (a = <<0, 0, 0>> => Graduated(a) = <<0, 0, 0>>)
    BY GraduatedTyped
  <2>4. \A l \in Layers : \A r \in DOMAIN new[l] : Counts(new[l][r]) = Graduated(a)
    BY <1>3, <2>1, <2>2 DEF InStepAt
  <2>5. /\ \A l \in Layers : new[l] = <<>> => a = <<0, 0, 0>>
        /\ \A l, k \in Layers : new[l] = <<>> => new[k] = <<>>
    BY <1>5, <2>1, <2>2 DEF InStepAt
  <2> QED BY <2>3, <2>4, <2>5 DEF SameCounts
<1>7. mode' = [mode EXCEPT ![c] = mode[c]] /\ mode[c] \in Modes
  BY <1>2 DEF Typed
<1>8. /\ Flow' /\ mode' \in [Caches -> Modes] /\ rows' \in [Caches -> [Layers -> Seq(Row)]]
      /\ \A d \in Caches, l \in Layers : Len(rows'[d][l]) \in {0, Batch[d]}
  <2>1. UniformRows(c, mode[c], new)
    BY <1>5 DEF UniformRows
  <2>2. /\ forward' = forward /\ failed \ {c} \subseteq failed'
        /\ \A d \in Caches : d # c => (d \in torn' <=> d \in torn)
    BY <1>2
  <2> QED BY <1>2, <1>4, <1>6, <1>7, <2>1, <2>2, CacheStepKeeps
<1> QED BY <1>2, <1>8 DEF Typed

(* The rows a reset leaves are fresh, in normal mode.                      *)
LEMMA NewRowsTyped ==
  ASSUME NEW c \in Caches
  PROVE  /\ NewRows(c) \in Seq(Row) /\ Len(NewRows(c)) \in {0, Batch[c]}
         /\ \A r \in DOMAIN NewRows(c) : NewRows(c)[r] = FreshRow("normal")
         /\ Level(NewRows(c)) /\ "normal" \in Modes
<1>1. Batch[c] \in Nat \ {0} /\ "normal" \in Modes
  BY Bounds DEF Modes
<1>2. FreshRow("normal") \in Row
  BY <1>1, FreshTyped
<1>3. /\ NewRows(c) \in Seq(Row) /\ Len(NewRows(c)) \in {0, Batch[c]}
      /\ \A r \in DOMAIN NewRows(c) : NewRows(c)[r] = FreshRow("normal")
  <2>1. CASE Batch[c] = 1
    <3>1. NewRows(c) = <<FreshRow("normal")>>
      BY <2>1 DEF NewRows
    <3> QED BY <1>2, <2>1, <3>1
  <2>2. CASE Batch[c] # 1
    <3>1. NewRows(c) = <<>>
      BY <2>2 DEF NewRows
    <3> QED BY <3>1
  <2> QED BY <2>1, <2>2
<1>4. Level(NewRows(c))
  <2>1. FreshRow("normal").len = 0 /\ Counts(FreshRow("normal")) = <<0, 0, 0>>
    BY <1>1, FreshTyped
  <2> QED BY <1>3, <2>1 DEF Level
<1> QED BY <1>1, <1>3, <1>4

(* Resetting drops every row and closes the block that was open.           *)
LEMMA ResetKeeps ==
  ASSUME Typed, Flow, NEW c \in Caches, Reset(c)
  PROVE  Typed' /\ Flow'
<1> DEFINE new == [l \in Layers |-> NewRows(c)]
<1>1. /\ forward = Idle /\ rows' = [rows EXCEPT ![c] = new] /\ failed' = failed \ {c}
      /\ torn' = torn \ {c} /\ mode' = [mode EXCEPT ![c] = "normal"]
      /\ UNCHANGED <<impl, scopes, forward>>
  BY DEF Reset, scopeVars
<1>2. /\ NewRows(c) \in Seq(Row) /\ Len(NewRows(c)) \in {0, Batch[c]}
      /\ \A r \in DOMAIN NewRows(c) : NewRows(c)[r] = FreshRow("normal")
      /\ Level(NewRows(c)) /\ "normal" \in Modes
  BY NewRowsTyped
<1>3. FreshRow("normal").mode = "normal" /\ Counts(FreshRow("normal")) = <<0, 0, 0>>
  BY <1>2, FreshTyped
<1>4. \A l \in Layers : new[l] = NewRows(c)
  OBVIOUS
<1>5. new \in [Layers -> Seq(Row)]
  BY <1>2
<1> HIDE DEF new
<1>6. UniformRows(c, "normal", new)
  BY <1>2, <1>3, <1>4 DEF UniformRows
<1>7. c \notin failed' => SameCounts(new)
  <2>1. <<0, 0, 0>> \in Triples
    BY DEF Triples
  <2>2. \A l \in Layers : \A r \in DOMAIN new[l] : Counts(new[l][r]) = <<0, 0, 0>>
    BY <1>2, <1>3, <1>4
  <2> QED BY <1>4, <2>1, <2>2 DEF SameCounts
<1>8. /\ Flow' /\ mode' \in [Caches -> Modes] /\ rows' \in [Caches -> [Layers -> Seq(Row)]]
      /\ \A d \in Caches, l \in Layers : Len(rows'[d][l]) \in {0, Batch[d]}
  <2>1. /\ forward' = forward /\ failed \ {c} \subseteq failed'
        /\ \A d \in Caches : d # c => (d \in torn' <=> d \in torn)
    BY <1>1
  <2> QED BY <1>1, <1>2, <1>5, <1>6, <1>7, <2>1, CacheStepKeeps
<1>9. failed' \subseteq Caches /\ torn' \subseteq failed'
  BY <1>1 DEF Typed
<1> QED BY <1>1, <1>8, <1>9 DEF Typed

(* The row whose absorb raised has lost a block of its ring.               *)
LEMMA InterruptedTyped ==
  ASSUME NEW row \in Row, NEW k \in Nat, k < Blocks(row), NEW rank \in Ranks
  PROVE  /\ Interrupted(row, k, rank) \in Row /\ Interrupted(row, k, rank).mode = row.mode
         /\ Interrupted(row, k, rank).len = row.len /\ row.ring > 0
<1>1. /\ row.ring \in Nat /\ row.mid \in Nat /\ row.rank \in Nat /\ row.len \in Nat
      /\ rank \in Nat /\ RecentWindow \in Nat /\ AbsorbBlock \in Nat \ {0}
  BY Bounds DEF Row
<1>2. ~(row.ring < RecentWindow + AbsorbBlock)
  <2> SUFFICES ASSUME row.ring < RecentWindow + AbsorbBlock PROVE FALSE
    OBVIOUS
  <2>1. Blocks(row) = 0
    BY DEF Blocks
  <2> QED BY <2>1
<1>3. PICK i \in Nat : i = row.ring - RecentWindow /\ row.ring = RecentWindow + i
  BY <1>1, <1>2
<1>4. PICK b \in Nat, e \in Nat : b = i \div AbsorbBlock /\ i = b * AbsorbBlock + e
  <2>1. /\ i \div AbsorbBlock \in Nat /\ i % AbsorbBlock \in 0 .. AbsorbBlock - 1
        /\ i = (i \div AbsorbBlock) * AbsorbBlock + (i % AbsorbBlock)
    BY <1>1, DivMod
  <2>2. i % AbsorbBlock \in Nat
    BY <1>1, <2>1
  <2> QED BY <2>1, <2>2
<1>5. b = Blocks(row)
  BY <1>2, <1>3, <1>4 DEF Blocks
<1>6. PICK d \in Nat : b = (k + 1) + d
  <2>1. b - (k + 1) \in Nat /\ b = (k + 1) + (b - (k + 1))
    BY <1>5
  <2> QED BY <2>1
<1>7. PICK out \in Nat, in \in Nat, rest \in Nat :
        /\ out = (k + 1) * AbsorbBlock /\ in = k * AbsorbBlock /\ rest = d * AbsorbBlock
        /\ b * AbsorbBlock = out + rest
  BY <1>1, <1>6
<1>8. PICK x \in Nat, y \in Nat : x = row.ring - out /\ y = row.mid + in
  <2>1. row.ring = RecentWindow + (out + rest + e)
    BY <1>3, <1>4, <1>7
  <2>2. row.ring - out \in Nat /\ row.mid + in \in Nat
    BY <1>1, <2>1
  <2> QED BY <2>2
<1>9. PICK rk \in Nat : rk = IF row.mid + k = 0 THEN row.rank ELSE rank
  BY <1>1
<1>10. Interrupted(row, k, rank) = [row EXCEPT !.ring = x, !.mid = y, !.rank = rk]
  BY <1>7, <1>8, <1>9 DEF Interrupted
<1>11. row.ring > 0
  BY <1>1, <1>2
<1>12. /\ [row EXCEPT !.ring = x, !.mid = y, !.rank = rk] \in Row
       /\ [row EXCEPT !.ring = x, !.mid = y, !.rank = rk].mode = row.mode
       /\ [row EXCEPT !.ring = x, !.mid = y, !.rank = rk].len = row.len
  BY DEF Row
<1> QED BY <1>10, <1>11, <1>12

(* A consolidate that raises midway keeps every row's length and mode: a   *)
(* whole layer stays whole, and its cache is marked.                       *)
LEMMA ConsolidateFailsKeeps ==
  ASSUME Typed, Flow, NEW c \in Caches, NEW h \in Layers, NEW r \in 1 .. Batch[c],
         ConsolidateFails(c, h, r)
  PROVE  Typed' /\ Flow'
<1>1. /\ forward = Idle /\ r \in DOMAIN rows[c][h] /\ failed' = failed \cup {c}
      /\ UNCHANGED <<impl, scopes, mode, forward, torn>>
  BY DEF ConsolidateFails, scopeVars
<1> DEFINE given(k, rank, l) ==
      CASE l < h -> ConsolidateRows(rows[c][l], rank)
        [] l = h -> [j \in DOMAIN rows[c][l] |->
                       CASE j < r -> Graduate(rows[c][l][j], rank[j])
                         [] j = r -> Interrupted(rows[c][l][j], k, rank[j])
                         [] j > r -> rows[c][l][j]]
        [] l > h -> rows[c][l]
<1>2. PICK k \in {n \in 0 .. rows[c][h][r].ring : n < Blocks(rows[c][h][r])},
           rank \in [1 .. Batch[c] -> Ranks] :
        rows' = [rows EXCEPT ![c] = [l \in Layers |-> given(k, rank, l)]]
  BY DEF ConsolidateFails
<1> DEFINE new == [l \in Layers |-> given(k, rank, l)]
<1> HIDE DEF given
<1>a. new = [l \in Layers |-> new[l]] /\ \A l \in Layers : new[l] = given(k, rank, l)
  OBVIOUS
<1> HIDE DEF new
<1>3. h \in Nat /\ k \in Nat /\ k < Blocks(rows[c][h][r]) /\ \A l \in Layers : l \in Nat
  BY Bounds
<1>4. \A l \in Layers : \A j \in DOMAIN rows[c][l] :
        /\ rows[c][l][j] \in Row /\ j \in 1 .. Batch[c] /\ rank[j] \in Ranks
  <2> SUFFICES ASSUME NEW l \in Layers, NEW j \in DOMAIN rows[c][l]
               PROVE  rows[c][l][j] \in Row /\ j \in 1 .. Batch[c] /\ rank[j] \in Ranks
    OBVIOUS
  <2>1. rows[c][l][j] \in Row /\ j \in 1 .. Batch[c]
    BY RowFacts
  <2> QED BY <2>1
<1>5. ASSUME NEW l \in Layers
      PROVE  /\ DOMAIN new[l] = DOMAIN rows[c][l] /\ new[l] = [j \in DOMAIN new[l] |-> new[l][j]]
             /\ \A j \in DOMAIN rows[c][l] :
                  /\ new[l][j] \in Row /\ new[l][j].mode = rows[c][l][j].mode
                  /\ new[l][j].len = rows[c][l][j].len
                  /\ \/ Counts(new[l][j]) = Counts(rows[c][l][j])
                     \/ Counts(new[l][j]) = Graduated(Counts(rows[c][l][j]))
                     \/ rows[c][l][j].ring > 0
  <2> DEFINE R == rows[c][l]
  <2>1. \A j \in DOMAIN R : /\ Graduate(R[j], rank[j]) \in Row
                            /\ Counts(Graduate(R[j], rank[j])) = Graduated(Counts(R[j]))
                            /\ Graduate(R[j], rank[j]).len = R[j].len
                            /\ Graduate(R[j], rank[j]).mode = R[j].mode
    BY <1>4, GraduateMoves
  <2>2. PICK before, hit : /\ before = ConsolidateRows(R, rank)
                          /\ hit = [j \in DOMAIN R |->
                                     CASE j < r -> Graduate(R[j], rank[j])
                                       [] j = r -> Interrupted(R[j], k, rank[j])
                                       [] j > r -> R[j]]
    OBVIOUS
  <2>3. new[l] = CASE l < h -> before [] l = h -> hit [] l > h -> R
    BY <1>a, <2>2 DEF given
  <2>4. l \in Nat /\ h \in Nat
    BY <1>3
  <2>5. CASE l < h
    <3>1. new[l] = [j \in DOMAIN R |-> Graduate(R[j], rank[j])]
      BY <2>2, <2>3, <2>4, <2>5 DEF ConsolidateRows
    <3> HIDE DEF R
    <3> QED BY <2>1, <3>1 DEF R
  <2>6. CASE l > h
    <3>1. new[l] = R
      BY <2>3, <2>4, <2>6
    <3>2. R = [j \in DOMAIN R |-> R[j]]
      <4>1. R \in Seq(Row)
        BY RowFacts
      <4> HIDE DEF R
      <4> QED BY <4>1
    <3> QED BY <1>4, <3>1, <3>2
  <2>7. CASE l = h
    <3>0. new[l] = hit
      BY <2>3, <2>4, <2>7
    <3>1. new[l] = [j \in DOMAIN R |->
                     CASE j < r -> Graduate(R[j], rank[j])
                       [] j = r -> Interrupted(R[j], k, rank[j])
                       [] j > r -> R[j]]
      BY <2>2, <3>0, Zenon
    <3>2. /\ Interrupted(R[r], k, rank[r]) \in Row
          /\ Interrupted(R[r], k, rank[r]).mode = R[r].mode
          /\ Interrupted(R[r], k, rank[r]).len = R[r].len /\ R[r].ring > 0
      BY <1>1, <1>3, <1>4, <2>7, InterruptedTyped
    <3>3. \A j \in DOMAIN R : R[j] \in Row /\ j \in Nat
      BY <1>4
    <3> HIDE DEF R
    <3>4. DOMAIN new[l] = DOMAIN R /\ new[l] = [j \in DOMAIN new[l] |-> new[l][j]]
      BY <3>1
    <3>5. ASSUME NEW j \in DOMAIN R
          PROVE  /\ new[l][j] \in Row /\ new[l][j].mode = R[j].mode
                 /\ new[l][j].len = R[j].len
                 /\ \/ Counts(new[l][j]) = Counts(R[j])
                    \/ Counts(new[l][j]) = Graduated(Counts(R[j]))
                    \/ R[j].ring > 0
      <4>1. CASE j < r
        <5>1. new[l][j] = Graduate(R[j], rank[j])
          BY <3>1, <3>3, <4>1
        <5> QED BY <2>1, <5>1
      <4>2. CASE j = r
        <5>1. new[l][j] = Interrupted(R[j], k, rank[j])
          BY <3>1, <3>3, <4>2
        <5> QED BY <3>2, <4>2, <5>1
      <4>3. CASE j > r
        <5>1. new[l][j] = R[j]
          BY <3>1, <3>3, <4>3
        <5> QED BY <3>3, <5>1
      <4> QED BY <3>3, <4>1, <4>2, <4>3
    <3> QED BY <3>4, <3>5 DEF R
  <2> HIDE DEF R
  <2> QED BY <2>4, <2>5, <2>6, <2>7 DEF R
<1>6. ASSUME NEW l \in Layers
      PROVE  /\ new[l] \in Seq(Row) /\ Len(new[l]) \in {0, Batch[c]}
             /\ \A j \in DOMAIN new[l] : new[l][j].mode = mode[c]
             /\ c \notin torn' => Level(new[l])
  <2>1. PICK n \in Nat : /\ n = Len(rows[c][l]) /\ DOMAIN rows[c][l] = 1 .. n
                         /\ n \in {0, Batch[c]}
    <3>1. rows[c][l] \in Seq(Row) /\ Len(rows[c][l]) \in {0, Batch[c]}
      BY DEF Typed
    <3> QED BY <3>1, LenProperties
  <2>2. new[l] \in [1 .. n -> Row]
    BY <1>5, <2>1
  <2>3. new[l] \in Seq(Row) /\ Len(new[l]) = n
    BY <2>1, <2>2, FunctionIsSeq
  <2>4. \A j \in DOMAIN new[l] : new[l][j].mode = mode[c]
    <3>1. \A j \in DOMAIN rows[c][l] : rows[c][l][j].mode = mode[c]
      BY DEF Flow, Together
    <3>2. ASSUME NEW j \in DOMAIN new[l]
          PROVE  new[l][j].mode = mode[c]
      <4>1. j \in DOMAIN rows[c][l] /\ new[l][j].mode = rows[c][l][j].mode
        BY <1>5
      <4> QED BY <3>1, <4>1
    <3> QED BY <3>2
  <2>5. c \notin torn' => Level(new[l])
    <3> SUFFICES ASSUME c \notin torn PROVE Level(new[l])
      BY <1>1
    <3>1. Level(rows[c][l])
      BY DEF Flow, Together
    <3>2. ASSUME NEW j \in DOMAIN new[l], new[l][j].len = 0
          PROVE  Counts(new[l][j]) = <<0, 0, 0>>
      <4>1. Counts(rows[c][l][j]) = <<0, 0, 0>>
        BY <1>5, <3>1, <3>2 DEF Level
      <4>2. rows[c][l][j].ring = 0
        BY <4>1 DEF Counts
      <4>3. Graduated(<<0, 0, 0>>) = <<0, 0, 0>>
        BY GraduatedTyped DEF Triples
      <4>4. \/ Counts(new[l][j]) = Counts(rows[c][l][j])
            \/ Counts(new[l][j]) = Graduated(Counts(rows[c][l][j]))
            \/ rows[c][l][j].ring > 0
        BY <1>5, <3>2
      <4> QED BY <4>1, <4>2, <4>3, <4>4
    <3> QED BY <1>5, <3>1, <3>2 DEF Level
  <2> QED BY <2>1, <2>3, <2>4, <2>5
<1>7. new \in [Layers -> Seq(Row)]
  BY <1>a, <1>6
<1>8. /\ mode' = [mode EXCEPT ![c] = mode[c]] /\ mode[c] \in Modes
      /\ rows' = [rows EXCEPT ![c] = new]
  BY <1>1, <1>2 DEF Typed, new
<1>9. /\ Flow' /\ mode' \in [Caches -> Modes] /\ rows' \in [Caches -> [Layers -> Seq(Row)]]
      /\ \A d \in Caches, l \in Layers : Len(rows'[d][l]) \in {0, Batch[d]}
  <2>1. UniformRows(c, mode[c], new)
    BY <1>6 DEF UniformRows
  <2>2. /\ forward' = forward /\ failed \ {c} \subseteq failed' /\ c \in failed'
        /\ \A d \in Caches : d # c => (d \in torn' <=> d \in torn)
    BY <1>1
  <2> QED BY <1>1, <1>7, <1>8, <2>1, <2>2, CacheStepKeeps
<1>10. failed' \subseteq Caches /\ torn' \subseteq failed'
  BY <1>1 DEF Typed
<1> QED BY <1>1, <1>9, <1>10 DEF Typed

------------------------------------------------------------------------------
(* The steps of a forward.                                                 *)
LEMMA ForwardFacts ==
  ASSUME Typed, forward # Idle
  PROVE  /\ forward \in Forward /\ forward.by \in Caches /\ forward.q \in 1 .. MaxForward
         /\ forward.layer \in Layers /\ forward.out \in Seq(Nat)
BY DEF Typed, Forward

(* A forward under way is not the idle one.                                *)
LEMMA NotIdle == \A f \in Forward : f # Idle
<1> SUFFICES ASSUME NEW f \in Forward PROVE f # Idle
  OBVIOUS
<1>1. f.layer \in Layers /\ Idle.layer = 0
  BY DEF Forward, Idle
<1>2. 0 \notin Layers
  BY Bounds
<1> QED BY <1>1, <1>2

(* New rows for one layer of the forward's cache: they are in its mode and *)
(* whole, unless a prefill raised.                                         *)
LayerUniform(c, new) ==
  /\ Len(new) \in {0, Batch[c]}
  /\ \A r \in DOMAIN new : new[r].mode = mode[c]
  /\ c \notin torn' => Level(new)

(* An update of one layer leaves every other cache in step.                *)
LEMMA LayerStepOthers ==
  ASSUME Typed, Flow, NEW c \in Caches, NEW l \in Layers, NEW new \in Seq(Row),
         LayerUniform(c, new), LayerReplaced(c, l, new), mode' = mode,
         forward.by = c, forward' = Idle \/ forward'.by = c, failed \subseteq failed',
         torn \subseteq torn'
  PROVE  /\ rows' \in [Caches -> [Layers -> Seq(Row)]]
         /\ \A d \in Caches, k \in Layers : Len(rows'[d][k]) \in {0, Batch[d]}
         /\ rows'[c][l] = new /\ \A k \in Layers : k # l => rows'[c][k] = rows[c][k]
         /\ Together'
         /\ \A d \in Caches \ failed' : d # c => \E a \in Triples : InStepAt(d, a)'
<1>1. /\ rows' \in [Caches -> [Layers -> Seq(Row)]]
      /\ \A d \in Caches, k \in Layers : Len(rows'[d][k]) \in {0, Batch[d]}
      /\ rows'[c][l] = new
      /\ \A d \in Caches, k \in Layers : d # c \/ k # l => rows'[d][k] = rows[d][k]
  <2>1. Len(new) \in {0, Batch[c]}
    BY DEF LayerUniform
  <2> QED BY <2>1, OneLayerMoves
<1>2. Together'
  <2> SUFFICES ASSUME NEW d \in Caches, NEW k \in Layers
               PROVE  /\ \A r \in DOMAIN rows'[d][k] : rows'[d][k][r].mode = mode[d]
                      /\ d \notin torn' => Level(rows'[d][k])
    BY DEF Together, Level, Counts
  <2>1. CASE d = c /\ k = l
    BY <1>1, <2>1 DEF LayerUniform
  <2>2. CASE d # c \/ k # l
    <3>1. rows'[d][k] = rows[d][k]
      BY <1>1, <2>2
    <3> QED BY <3>1 DEF Flow, Together
  <2> QED BY <2>1, <2>2
<1>3. ASSUME NEW d \in Caches \ failed', d # c
      PROVE  \E a \in Triples : InStepAt(d, a)'
  <2>1. rows'[d] = rows[d]
    <3>1. rows \in [Caches -> [Layers -> Seq(Row)]]
      BY DEF Typed
    <3>2. rows'[d] \in [Layers -> Seq(Row)] /\ rows[d] \in [Layers -> Seq(Row)]
      BY <1>1, <3>1
    <3>3. \A k \in Layers : rows'[d][k] = rows[d][k]
      BY <1>1, <1>3
    <3> QED BY <3>2, <3>3
  <2>2. \A k \in Layers : ~Done(d, k) /\ ~Done(d, k)'
    BY <1>3 DEF Done
  <2>3. d \notin failed /\ mode'[d] = mode[d]
    BY <1>3
  <2> QED BY <1>3, <2>1, <2>2, <2>3, OthersInStep DEF Flow
<1> QED BY <1>1, <1>2, <1>3

(* A forward begins with no layer done.                                    *)
LEMMA StartForwardKeeps ==
  ASSUME Typed, Flow, NEW c \in Caches, NEW q \in 1 .. MaxForward, StartForward(c, q)
  PROVE  Typed' /\ Flow'
<1> DEFINE f == [by |-> c, q |-> q, layer |-> 1, out |-> <<>>]
<1>1. /\ forward = Idle /\ forward' = f
      /\ UNCHANGED <<impl, scopes, mode, rows, failed, torn>>
  BY DEF StartForward, scopeVars
<1>2. f \in Forward /\ f.out = <<>> /\ f.layer = 1
  BY Bounds DEF Forward
<1> HIDE DEF f
<1>3. Typed'
  BY <1>1, <1>2 DEF Typed
<1>4. \A d, l : l \in Layers => ~Done(d, l) /\ ~Done(d, l)'
  BY <1>1, <1>2, Bounds DEF Done
<1>5. Together' /\ Handed'
  BY <1>1, <1>2 DEF Flow, Together, Handed, Level, Counts
<1>6. Stepwise'
  <2> SUFFICES ASSUME NEW d \in Caches \ failed'
               PROVE  \E a \in Triples : InStepAt(d, a)'
    BY DEF Stepwise
  <2>1. PICK a \in Triples : InStepAt(d, a)
    BY <1>1 DEF Flow, Stepwise
  <2>2. InStepAt(d, a)'
    BY <1>1, <1>4, <2>1 DEF InStepAt
  <2> QED BY <2>2
<1> QED BY <1>3, <1>5, <1>6 DEF Flow

(* A row refuses exactly when its counts do.                               *)
LEMMA RefusedByCounts ==
  ASSUME NEW row \in Row, NEW q \in 1 .. MaxForward
  PROVE  Rejects(row, q) <=> Refused(Counts(row), row.mode, q)
BY DEF Rejects, Refused, Counts

(* An update moves one more layer to the new count, and hands over its     *)
(* middle.                                                                 *)
LEMMA UpdateLayerKeeps ==
  ASSUME Typed, Flow, UpdateLayer
  PROVE  Typed' /\ Flow'
<1>0. forward # Idle /\ forward.out = <<>>
  BY DEF UpdateLayer
<1>a. PICK c \in Caches, l \in Layers, q \in 1 .. MaxForward :
        c = forward.by /\ l = forward.layer /\ q = forward.q
  BY <1>0, ForwardFacts
<1>b. PICK old : old = RowsOf(c, l)
  OBVIOUS
<1> DEFINE kernel == c \in Kernel
           n == Batch[c]
<1>1. /\ forward # Idle /\ forward.out = <<>> /\ ~Rejects(old[1], q)
      /\ UNCHANGED <<impl, scopes, mode, torn>>
  BY <1>a, <1>b DEF UpdateLayer, scopeVars
<1>2. /\ forward \in Forward /\ c \in Caches /\ q \in 1 .. MaxForward /\ l \in Layers
      /\ n \in Nat \ {0} /\ mode[c] \in Modes /\ kernel \in BOOLEAN
  BY <1>0, ForwardFacts, Bounds DEF Typed
<1>c. PICK rank \in [1 .. Batch[forward.by] -> Ranks] :
        LET new == [r \in 1 .. Batch[forward.by] |->
                      UpdateRow(RowsOf(forward.by, forward.layer)[r], forward.q, rank[r],
                                forward.by \in Kernel)]
            out == [r \in 1 .. Batch[forward.by] |->
                      OutOf(RowsOf(forward.by, forward.layer)[r], new[r],
                            forward.by \in Kernel)]
            returned == [r \in 1 .. Batch[forward.by] |->
                           Returned(RowsOf(forward.by, forward.layer)[r], new[r], forward.q,
                                    forward.by \in Kernel)]
        IN  /\ rows' = [rows EXCEPT ![forward.by][forward.layer] = new]
            /\ IF Uniform(returned, LAMBDA k : k)
               THEN forward' = [forward EXCEPT !.out = out] /\ UNCHANGED failed
               ELSE forward' = Idle /\ failed' = failed \cup {forward.by}
  BY DEF UpdateLayer
<1>3. rank \in [1 .. n -> Ranks]
  BY <1>a
<1> DEFINE new == [r \in 1 .. n |-> UpdateRow(old[r], q, rank[r], kernel)]
           out == [r \in 1 .. n |-> OutOf(old[r], new[r], kernel)]
<1>4. /\ LayerReplaced(c, l, new)
      /\ \/ forward' = [forward EXCEPT !.out = out] /\ failed' = failed
         \/ forward' = Idle /\ failed' = failed \cup {c}
  BY <1>a, <1>b, <1>c DEF Uniform, LayerReplaced
<1>5. /\ \A r \in 1 .. n : old[r] \in Row /\ old[r].mode = mode[c]
      /\ c \notin torn =>
           /\ \A r, s \in 1 .. n : old[r].len > 0 => old[s].len > 0
           /\ \A r \in 1 .. n : old[r].len = 0 => Counts(old[r]) = <<0, 0, 0>>
      /\ rows[c][l] # <<>> => old = rows[c][l] /\ DOMAIN rows[c][l] = 1 .. n
      /\ rows[c][l] = <<>> => \A r \in 1 .. n : Counts(old[r]) = <<0, 0, 0>>
  BY <1>b, RowsOfTyped DEF Flow
<1>6. \A r \in 1 .. n : new[r] = UpdateRow(old[r], q, rank[r], kernel) /\ rank[r] \in Ranks
      /\ out[r] = OutOf(old[r], new[r], kernel)
  BY <1>3
<1>7. 1 \in 1 .. n
  BY <1>2
<1> DEFINE kept == kernel /\ mode[c] = "normal" /\ q = 1 /\ old[1].len > 0
<1>8. DOMAIN new = 1 .. n /\ DOMAIN out = 1 .. n
  OBVIOUS
<1>9. new = [r \in 1 .. n |-> new[r]] /\ out = [r \in 1 .. n |-> out[r]]
  OBVIOUS
<1> HIDE DEF new, out, kernel, n, kept
<1>10. ASSUME NEW r \in 1 .. n
       PROVE  /\ new[r] \in Row /\ new[r].mode = mode[c]
              /\ Counts(new[r]) = Updated(Counts(old[r]), mode[c], q)
              /\ ~Rejects(old[r], q) => new[r].len > 0
              /\ old[r].len = 0 => new[r].mid - old[r].mid \in Nat
              /\ Decodes(old[r], q) /\ kernel => new[r].step /\ new[r].kmid.cols = new[r].mid
              /\ ~(Decodes(old[r], q) /\ kernel) => ~new[r].step
              /\ new[r].mid \in Nat /\ out[r] \in Nat
  <2>1. /\ new[r] = UpdateRow(old[r], q, rank[r], kernel) /\ rank[r] \in Ranks
        /\ old[r] \in Row /\ old[r].mode = mode[c]
    BY <1>5, <1>6
  <2>2. /\ new[r] \in Row /\ new[r].mode = mode[c]
        /\ Counts(new[r]) = Updated(Counts(old[r]), mode[c], q)
        /\ ~Rejects(old[r], q) => new[r].len > 0
        /\ old[r].len = 0 => new[r].mid - old[r].mid \in Nat
        /\ Decodes(old[r], q) /\ kernel => new[r].step /\ new[r].kmid.cols = new[r].mid
        /\ ~(Decodes(old[r], q) /\ kernel) => ~new[r].step
    <3> DEFINE x == old[r]
               k == rank[r]
    <3>1. x \in Row /\ k \in Ranks /\ q \in 1 .. MaxForward /\ kernel \in BOOLEAN
      BY <1>2, <2>1
    <3> HIDE DEF x, k
    <3>2. /\ UpdateRow(x, q, k, kernel) \in Row
          /\ UpdateRow(x, q, k, kernel).mode = x.mode
          /\ Counts(UpdateRow(x, q, k, kernel)) = Updated(Counts(x), x.mode, q)
          /\ ~Rejects(x, q) => UpdateRow(x, q, k, kernel).len > 0
          /\ x.len = 0 => UpdateRow(x, q, k, kernel).mid - x.mid \in Nat
          /\ Decodes(x, q) /\ kernel =>
               /\ UpdateRow(x, q, k, kernel).step
               /\ UpdateRow(x, q, k, kernel).kmid.cols = UpdateRow(x, q, k, kernel).mid
          /\ ~(Decodes(x, q) /\ kernel) => ~UpdateRow(x, q, k, kernel).step
      BY <3>1, UpdateMoves
    <3>3. new[r] = UpdateRow(x, q, k, kernel) /\ x.mode = mode[c]
      BY <2>1 DEF x, k
    <3> QED BY <3>2, <3>3 DEF x
  <2>3. new[r].mid \in Nat
    BY <2>2 DEF Row
  <2>4. out[r] \in Nat
    BY <1>6, <2>2, <2>3 DEF OutOf
  <2> QED BY <2>2, <2>3, <2>4
<1>11. ASSUME c \notin torn, NEW r \in 1 .. n
       PROVE  /\ ~Rejects(old[r], q) /\ new[r].len > 0
              /\ kept => new[r].step /\ new[r].kmid.cols = new[r].mid /\ out[r] = 0
              /\ ~kept => ~new[r].step /\ out[r] = new[r].mid
  <2>1. /\ old[r].len > 0 <=> old[1].len > 0
        /\ old[r].mode = mode[c] /\ old[1].mode = mode[c] /\ old[r].len \in Nat
    BY <1>5, <1>7, <1>11 DEF Row
  <2>2. ~Rejects(old[r], q)
    BY <1>1, <2>1 DEF Rejects
  <2>3. Decodes(old[r], q) /\ kernel <=> kept
    BY <2>1 DEF Decodes, kept
  <2>4. old[r].len > 0 /\ old[r].mode = "normal" /\ kernel <=> kept
    BY <2>1, <2>2 DEF kept, Rejects
  <2>5. old[r].len = 0 => new[r].mid - old[r].mid = new[r].mid
    <3> SUFFICES ASSUME old[r].len = 0 PROVE new[r].mid - old[r].mid = new[r].mid
      OBVIOUS
    <3>1. Counts(old[r]) = <<0, 0, 0>>
      BY <1>5, <1>11
    <3>2. old[r].mid = 0
      BY <3>1 DEF Counts
    <3> QED BY <1>10, <3>2
  <2>6. out[r] = IF kept THEN 0 ELSE new[r].mid
    BY <1>6, <2>1, <2>4, <2>5 DEF OutOf
  <2> QED BY <1>10, <2>2, <2>3, <2>6
<1>12. new \in Seq(Row) /\ Len(new) = n /\ out \in Seq(Nat) /\ Len(out) = n
  <2>1. new \in [1 .. n -> Row] /\ out \in [1 .. n -> Nat]
    BY <1>9, <1>10
  <2> QED BY <1>2, <2>1, FunctionIsSeq
<1>13. new # <<>> /\ out # <<>>
  BY <1>2, <1>12, EmptySeq
<1>14. LayerUniform(c, new)
  <2>1. c \notin torn' => Level(new)
    BY <1>1, <1>8, <1>11 DEF Level
  <2> QED BY <1>8, <1>10, <1>12, <2>1 DEF LayerUniform, n
<1> DEFINE f == [forward EXCEPT !.out = out]
<1>15. /\ f \in Forward /\ f.by = c /\ f.q = q /\ f.layer = l /\ f.out = out
  BY <1>a, <1>2, <1>12 DEF Forward
<1>16. forward' \in {f, Idle} /\ (forward' = f => failed' = failed)
       /\ (forward' = Idle => failed' = failed \cup {c}) /\ f # Idle
  <2>1. f # Idle
    BY <1>15, NotIdle
  <2> QED BY <1>4, <2>1
<1> HIDE DEF f
<1>17. forward' = Idle \/ forward'.by = c
  BY <1>15, <1>16
<1>18. failed \subseteq failed' /\ failed' \subseteq Caches /\ torn' \subseteq failed'
       /\ torn \subseteq torn'
  BY <1>1, <1>2, <1>16 DEF Typed
<1>19. /\ rows' \in [Caches -> [Layers -> Seq(Row)]]
       /\ \A d \in Caches, k \in Layers : Len(rows'[d][k]) \in {0, Batch[d]}
       /\ rows'[c][l] = new /\ \A k \in Layers : k # l => rows'[c][k] = rows[c][k]
       /\ Together'
       /\ \A d \in Caches \ failed' : d # c => \E a \in Triples : InStepAt(d, a)'
  <2>1. forward.by = c /\ mode' = mode
    BY <1>1, <1>a
  <2> QED BY <1>2, <1>4, <1>12, <1>14, <1>17, <1>18, <2>1, LayerStepOthers
<1>20. Typed'
  BY <1>1, <1>15, <1>16, <1>18, <1>19 DEF Typed
<1>21. Handed'
  <2>1. CASE forward' = Idle
    BY <2>1 DEF Handed
  <2>2. CASE forward' = f
    <3>1. forward'.by = c /\ forward'.layer = l /\ forward'.q = q /\ forward'.out = out
      BY <1>15, <2>2
    <3>2. rows'[c][l] = new /\ new # <<>>
      BY <1>13, <1>19
    <3>3. kept => c \in Kernel /\ q = 1
      BY DEF kept, kernel
    <3>4. \/ c \in torn'
          \/ \A r \in DOMAIN new : ~new[r].step /\ out[r] = new[r].mid
          \/ /\ c \in Kernel /\ q = 1
             /\ \A r \in DOMAIN new : /\ new[r].step /\ out[r] = 0
                                      /\ new[r].kmid.cols = new[r].mid
      <4> SUFFICES ASSUME c \notin torn
                   PROVE  \/ \A r \in DOMAIN new : ~new[r].step /\ out[r] = new[r].mid
                          \/ /\ c \in Kernel /\ q = 1
                             /\ \A r \in DOMAIN new : /\ new[r].step /\ out[r] = 0
                                                      /\ new[r].kmid.cols = new[r].mid
        BY <1>1
      <4> QED BY <1>8, <1>11, <3>3
    <3> QED BY <3>1, <3>2, <3>4, Zenon DEF Handed
  <2> QED BY <1>16, <2>1, <2>2
<1>22. Stepwise'
  <2> SUFFICES ASSUME c \notin failed'
               PROVE  \E a \in Triples : InStepAt(c, a)'
    BY <1>19 DEF Stepwise
  <2>1. forward' = f /\ failed' = failed
    BY <1>16
  <2>2. PICK a \in Triples : InStepAt(c, a)
    BY <1>2, <2>1 DEF Flow, Stepwise
  <2>3. ~Done(c, l)
    BY <1>1, <1>a, Bounds DEF Done
  <2>4. \A k \in Layers : Done(c, k)' <=> Done(c, k) \/ k = l
    <3>1. forward'.by = c /\ forward'.layer = l /\ forward'.out # <<>> /\ forward' # Idle
      BY <1>13, <1>15, <1>16, <2>1
    <3>2. forward.by = c /\ forward.layer = l /\ forward.out = <<>> /\ forward # Idle
      BY <1>1, <1>a
    <3> QED BY <3>1, <3>2 DEF Done
  <2>5. forward'.q = q /\ forward.q = q /\ mode'[c] = mode[c]
    BY <1>1, <1>a, <1>15, <2>1
  <2>6. \A r \in 1 .. n : Counts(old[r]) = a
    <3>1. CASE rows[c][l] # <<>>
      BY <1>5, <2>2, <2>3, <3>1, <1>2 DEF InStepAt
    <3>2. CASE rows[c][l] = <<>>
      BY <1>2, <1>5, <2>2, <3>2 DEF InStepAt
    <3> QED BY <3>1, <3>2
  <2>7. ~Refused(a, mode[c], q)
    <3>1. old[1] \in Row /\ old[1].mode = mode[c] /\ Counts(old[1]) = a
      BY <1>5, <1>7, <2>6
    <3> QED BY <1>1, <1>2, <3>1, RefusedByCounts
  <2>8. ASSUME NEW k \in Layers, NEW r \in DOMAIN rows'[c][k]
        PROVE  Counts(rows'[c][k][r]) = IF Done(c, k)' THEN Updated(a, mode[c], q) ELSE a
    <3>1. CASE k = l
      BY <1>8, <1>10, <1>19, <2>4, <2>6, <2>8, <3>1
    <3>2. CASE k # l
      BY <1>19, <2>2, <2>4, <2>5, <2>8, <3>2, ZenonT(40) DEF InStepAt
    <3> QED BY <3>1, <3>2
  <2>9. \A k \in Layers : rows'[c][k] = <<>> => a = <<0, 0, 0>> /\ ~Done(c, k)'
    BY <1>13, <1>19, <2>2, <2>4 DEF InStepAt
  <2>10. \A k, j \in Layers :
           ~Done(c, k)' /\ ~Done(c, j)' /\ rows'[c][k] = <<>> => rows'[c][j] = <<>>
    BY <1>19, <2>2, <2>4 DEF InStepAt
  <2>11. InStepAt(c, a)'
    BY <2>5, <2>7, <2>8, <2>9, <2>10 DEF InStepAt
  <2> QED BY <2>11
<1> QED BY <1>19, <1>20, <1>21, <1>22 DEF Flow

(* A refused call only forgets the first row's kernel step; no layer had   *)
(* taken the tokens, since equal counts are refused alike.                 *)
LEMMA UpdateRejectedKeeps ==
  ASSUME Typed, Flow, UpdateRejected
  PROVE  Typed' /\ Flow'
<1>0. forward # Idle /\ forward.out = <<>>
  BY DEF UpdateRejected
<1>a. PICK c \in Caches, l \in Layers, q \in 1 .. MaxForward :
        c = forward.by /\ l = forward.layer /\ q = forward.q
  BY <1>0, ForwardFacts
<1>b. PICK R : R = rows[c][l]
  OBVIOUS
<1>1. /\ Rejects(RowsOf(c, l)[1], q) /\ forward' = Idle /\ failed' = failed /\ torn' = torn
      /\ rows' = [rows EXCEPT ![c][l][1] = Forget(@)]
      /\ UNCHANGED <<impl, scopes, mode>>
  BY <1>a DEF UpdateRejected, scopeVars
<1>2. R # <<>> /\ Batch[c] \in Nat \ {0}
  <2>1. Batch[c] \in Nat \ {0} /\ (R = <<>> => RowsOf(c, l)[1].len = 0)
    BY <1>b, RowsOfTyped DEF Flow
  <2> QED BY <1>1, <2>1 DEF Rejects
<1> DEFINE n == Batch[c]
           first == Forget(R[1])
           new == [R EXCEPT ![1] = first]
<1>3. /\ R \in [1 .. n -> Row] /\ DOMAIN R = 1 .. n /\ RowsOf(c, l) = R /\ 1 \in 1 .. n
      /\ R \in Seq(Row) /\ Len(R) \in {0, n}
  <2>1. R = <<>> \/ (R \in [1 .. n -> Row] /\ DOMAIN R = 1 .. n)
    BY <1>b, RowFacts
  <2>2. Len(R) \in {0, n} /\ R \in Seq(Row)
    BY <1>b DEF Typed
  <2> QED BY <1>2, <1>b, <2>1, <2>2 DEF RowsOf
<1>4. R[1] \in Row /\ Rejects(R[1], q)
  BY <1>1, <1>3
<1>5. first \in Row /\ Counts(first) = Counts(R[1]) /\ first.mode = R[1].mode
      /\ first.len = R[1].len
  BY <1>4, ForgetKeeps
<1>6. LayerReplaced(c, l, [R EXCEPT ![1] = Forget(R[1])])
  <2>1. rows \in [Caches -> [Layers -> Seq(Row)]]
    BY DEF Typed
  <2> QED BY <1>1, <1>b, <2>1 DEF LayerReplaced
<1>7. LayerReplaced(c, l, new)
  BY <1>6
<1> HIDE DEF first
<1>8. new \in [1 .. n -> Row] /\ DOMAIN new = 1 .. n
      /\ \A r \in 1 .. n : /\ new[r].mode = R[r].mode /\ new[r].len = R[r].len
                           /\ Counts(new[r]) = Counts(R[r])
  BY <1>3, <1>5
<1> HIDE DEF new
<1>9. new \in Seq(Row) /\ Len(new) = n
  BY <1>2, <1>8, FunctionIsSeq
<1>10. LayerUniform(c, new)
  <2>1. (\A r \in 1 .. n : R[r].mode = mode[c]) /\ (c \notin torn => Level(R))
    BY <1>b, <1>3 DEF Flow, Together
  <2>2. c \notin torn' => Level(new)
    BY <1>1, <1>3, <1>8, <2>1 DEF Level
  <2> QED BY <1>8, <1>9, <2>1, <2>2 DEF LayerUniform
<1>11. new # <<>>
  BY <1>2, <1>9, EmptySeq
<1> HIDE DEF n
<1>12. /\ rows' \in [Caches -> [Layers -> Seq(Row)]]
       /\ \A d \in Caches, k \in Layers : Len(rows'[d][k]) \in {0, Batch[d]}
       /\ rows'[c][l] = new /\ \A k \in Layers : k # l => rows'[c][k] = rows[c][k]
       /\ Together'
       /\ \A d \in Caches \ failed' : d # c => \E a \in Triples : InStepAt(d, a)'
  <2>1. /\ forward.by = c /\ mode' = mode /\ forward' = Idle /\ failed \subseteq failed'
        /\ torn \subseteq torn'
    BY <1>1, <1>a
  <2> QED BY <1>7, <1>9, <1>10, <2>1, LayerStepOthers
<1>13. Typed'
  BY <1>1, <1>12 DEF Typed
<1>14. Handed'
  BY <1>1 DEF Handed
<1>15. Stepwise'
  <2> SUFFICES ASSUME c \notin failed
               PROVE  \E a \in Triples : InStepAt(c, a)'
    BY <1>1, <1>12 DEF Stepwise
  <2>1. PICK a \in Triples : InStepAt(c, a)
    BY DEF Flow, Stepwise
  <2>2. ~Done(c, l)
    BY <1>0, <1>a, Bounds DEF Done
  <2>3. Counts(R[1]) = a /\ R[1].mode = mode[c]
    <3>1. 1 \in DOMAIN rows[c][l]
      BY <1>b, <1>3
    <3> QED BY <1>b, <2>1, <2>2, <3>1 DEF InStepAt, Flow, Together
  <2>4. Refused(a, mode[c], q)
    BY <1>4, <2>3, RefusedByCounts
  <2>5. \A k \in Layers : ~Done(c, k) /\ ~Done(c, k)'
    BY <1>1, <1>a, <2>1, <2>4 DEF InStepAt, Done
  <2>6. ASSUME NEW k \in Layers, NEW r \in DOMAIN rows'[c][k]
        PROVE  Counts(rows'[c][k][r]) = a
    <3>1. CASE k = l
      BY <1>b, <1>3, <1>8, <1>12, <2>1, <2>5, <2>6, <3>1 DEF InStepAt
    <3>2. CASE k # l
      BY <1>12, <2>1, <2>5, <2>6, <3>2, ZenonT(40) DEF InStepAt
    <3> QED BY <3>1, <3>2
  <2>7. \A k \in Layers : rows'[c][k] = <<>> <=> rows[c][k] = <<>>
    BY <1>b, <1>2, <1>11, <1>12
  <2>8. /\ \A k \in Layers : rows'[c][k] = <<>> => a = <<0, 0, 0>>
        /\ \A k, j \in Layers : rows'[c][k] = <<>> => rows'[c][j] = <<>>
    BY <2>1, <2>5, <2>7 DEF InStepAt
  <2>9. InStepAt(c, a)'
    BY <2>5, <2>6, <2>8 DEF InStepAt
  <2> QED BY <2>9
<1> QED BY <1>12, <1>13, <1>14, <1>15 DEF Flow

(* A row whose update raised midway is still a row of its layer; it is     *)
(* unfilled only if it was.                                                *)
LEMMA UpdateInterruptedTyped ==
  ASSUME NEW row \in Row, NEW q \in 1 .. MaxForward, NEW left \in UpdateInterrupted(row, q)
  PROVE  left \in Row /\ left.mode = row.mode /\ (row.len # 0 => left.len > 0)
<1>1. PICK old \in Row : /\ old = Forget(row) /\ old.mode = row.mode /\ old.len = row.len
                         /\ old.mid = row.mid /\ old.ring = row.ring
  BY ForgetKeeps
<1>2. /\ old.mid \in Nat /\ old.rank \in Nat /\ old.len \in Nat /\ old.ring \in Nat
      /\ Ranks \subseteq Nat /\ q \in Nat \ {0}
  BY Bounds, RecentFacts DEF Row
<1>3. CASE row.len = 0
  <2>1. PICK k \in Nat, rank \in Nat : left = InterruptedPrefill(old, q, k, rank)
    BY <1>1, <1>2, <1>3 DEF UpdateInterrupted
  <2>2. PICK x \in Nat, y \in Nat, rk \in Nat :
          /\ x = Recent(q) /\ y = old.mid + k
          /\ rk = IF old.mid + k = 0 THEN old.rank ELSE rank
    BY <1>2, RecentFacts
  <2>3. left = [old EXCEPT !.ring = x, !.mid = y, !.rank = rk]
    BY <2>1, <2>2 DEF InterruptedPrefill
  <2>4. /\ [old EXCEPT !.ring = x, !.mid = y, !.rank = rk] \in Row
        /\ [old EXCEPT !.ring = x, !.mid = y, !.rank = rk].mode = old.mode
    BY DEF Row
  <2> QED BY <1>1, <1>3, <2>3, <2>4
<1>4. CASE row.len # 0
  <2>1. PICK k \in Nat, rank \in Ranks : /\ left = Interrupted(Fed(old), k, rank)
                                        /\ k < Blocks(Fed(row))
    <3>1. row.ring \in Nat
      BY <1>1, <1>2
    <3> QED BY <1>1, <1>4, <3>1 DEF UpdateInterrupted
  <2>2. PICK x \in Nat, y \in Nat : x = old.len + 1 /\ y = old.ring + 1
    BY <1>2
  <2>3. Fed(old) = [old EXCEPT !.len = x, !.ring = y]
    BY <2>2 DEF Fed
  <2>4. /\ [old EXCEPT !.len = x, !.ring = y] \in Row
        /\ [old EXCEPT !.len = x, !.ring = y].mode = old.mode
        /\ [old EXCEPT !.len = x, !.ring = y].len = x
        /\ [old EXCEPT !.len = x, !.ring = y].ring = y
    BY DEF Row
  <2>5. Fed(row).ring = row.ring + 1
    BY DEF Fed, Row
  <2>6. PICK grown \in Row : /\ grown = Fed(old) /\ grown.mode = row.mode
                             /\ grown.len = x /\ grown.ring = y
    BY <1>1, <2>3, <2>4
  <2>7. Blocks(grown) = Blocks(Fed(row))
    BY <1>1, <2>2, <2>5, <2>6 DEF Blocks
  <2>8. /\ Interrupted(grown, k, rank) \in Row /\ Interrupted(grown, k, rank).mode = grown.mode
        /\ Interrupted(grown, k, rank).len = grown.len
    BY <2>1, <2>7, InterruptedTyped
  <2>9. x > 0
    BY <1>2, <2>2
  <2> QED BY <2>1, <2>6, <2>8, <2>9
<1> QED BY <1>3, <1>4

(* An update that raises in an absorb marks its cache, and one whose       *)
(* prefill did may leave a layer half filled.                              *)
LEMMA UpdateFailsKeeps ==
  ASSUME Typed, Flow, NEW r \in 1 .. Batch[forward.by], UpdateFails(r)
  PROVE  Typed' /\ Flow'
<1>0. forward # Idle /\ forward.out = <<>>
  BY DEF UpdateFails
<1>a. PICK c \in Caches, l \in Layers, q \in 1 .. MaxForward :
        c = forward.by /\ l = forward.layer /\ q = forward.q
  BY <1>0, ForwardFacts
<1>b. PICK old : old = RowsOf(c, l)
  OBVIOUS
<1> DEFINE n == Batch[c]
           kernel == c \in Kernel
<1>1. /\ ~Rejects(old[1], q)
      /\ torn' = IF old[r].len = 0 THEN torn \cup {c} ELSE torn
      /\ forward' = Idle /\ failed' = failed \cup {c} /\ UNCHANGED <<impl, scopes, mode>>
  BY <1>a, <1>b DEF UpdateFails, scopeVars
<1>2. PICK left \in UpdateInterrupted(RowsOf(forward.by, forward.layer)[r], forward.q),
           rank \in [1 .. Batch[forward.by] -> Ranks] :
        LET was == RowsOf(forward.by, forward.layer)
        IN  rows' = [rows EXCEPT ![forward.by][forward.layer] =
                       [i \in 1 .. Batch[forward.by] |->
                          CASE i < r -> UpdateRow(was[i], forward.q, rank[i],
                                                  forward.by \in Kernel)
                            [] i = r -> left
                            [] i > r -> was[i]]]
  BY DEF UpdateFails
<1> DEFINE new == [i \in 1 .. n |-> CASE i < r -> UpdateRow(old[i], q, rank[i], kernel)
                                      [] i = r -> left
                                      [] i > r -> old[i]]
<1>3. LayerReplaced(c, l, new)
  BY <1>a, <1>b, <1>2 DEF LayerReplaced
<1>4. /\ n \in Nat \ {0} /\ \A i \in 1 .. n : old[i] \in Row /\ old[i].mode = mode[c]
      /\ c \notin torn => \A i, j \in 1 .. n : old[i].len > 0 => old[j].len > 0
  BY <1>b, RowsOfTyped DEF Flow
<1>5. DOMAIN new = 1 .. n /\ new = [i \in 1 .. n |-> new[i]]
  OBVIOUS
<1>6. \A i \in 1 .. n : /\ i < r => new[i] = UpdateRow(old[i], q, rank[i], kernel)
                        /\ i = r => new[i] = left
                        /\ i > r => new[i] = old[i]
  OBVIOUS
<1>7. r \in 1 .. n /\ 1 \in 1 .. n /\ kernel \in BOOLEAN /\ rank \in [1 .. n -> Ranks]
      /\ left \in UpdateInterrupted(old[r], q)
  BY <1>a, <1>b, <1>2, <1>4
<1> HIDE DEF new, kernel
<1>8. ASSUME NEW i \in 1 .. n
      PROVE  /\ new[i] \in Row /\ new[i].mode = mode[c]
             /\ c \notin torn' => new[i].len > 0
  <2>1. old[i] \in Row /\ old[i].mode = mode[c] /\ old[1].mode = mode[c]
    BY <1>4, <1>7
  <2>2. c \notin torn' => old[i].len > 0 /\ old[1].len > 0
    <3>1. old[r].len \in Nat
      BY <1>4, <1>7 DEF Row
    <3>2. c \notin torn' => c \notin torn /\ old[r].len > 0
      BY <1>1, <3>1
    <3> QED BY <1>4, <1>7, <3>2
  <2>3. CASE i < r
    <3> DEFINE x == old[i]
               k == rank[i]
    <3>1. x \in Row /\ k \in Ranks
      BY <1>7, <2>1
    <3>2. c \notin torn' => ~Rejects(x, q)
      BY <1>1, <2>1, <2>2 DEF Rejects
    <3> HIDE DEF x, k
    <3>3. /\ UpdateRow(x, q, k, kernel) \in Row
          /\ UpdateRow(x, q, k, kernel).mode = x.mode
          /\ ~Rejects(x, q) => UpdateRow(x, q, k, kernel).len > 0
      BY <1>7, <3>1, UpdateMoves
    <3>4. new[i] = UpdateRow(x, q, k, kernel) /\ x.mode = mode[c]
      BY <1>6, <2>1, <2>3 DEF x, k
    <3> QED BY <3>2, <3>3, <3>4
  <2>4. CASE i = r
    <3>1. old[r] \in Row /\ old[r].mode = mode[c] /\ new[i] = left
      BY <1>6, <2>1, <2>4
    <3>2. left \in Row /\ left.mode = mode[c] /\ (old[r].len # 0 => left.len > 0)
      BY <1>7, <3>1, UpdateInterruptedTyped
    <3> QED BY <1>1, <3>1, <3>2
  <2>5. CASE i > r
    BY <1>6, <2>1, <2>2, <2>5
  <2> QED BY <1>7, <2>3, <2>4, <2>5
<1>9. new \in Seq(Row) /\ Len(new) = n
  <2>1. new \in [1 .. n -> Row]
    BY <1>5, <1>8
  <2> QED BY <1>4, <2>1, FunctionIsSeq
<1>10. LayerUniform(c, new)
  <2>1. c \notin torn' => \A i \in DOMAIN new : new[i].len > 0
    BY <1>5, <1>8
  <2>2. c \notin torn' => Level(new)
    BY <2>1 DEF Level
  <2> QED BY <1>5, <1>8, <1>9, <2>2 DEF LayerUniform
<1> HIDE DEF n
<1>11. /\ rows' \in [Caches -> [Layers -> Seq(Row)]]
       /\ \A d \in Caches, k \in Layers : Len(rows'[d][k]) \in {0, Batch[d]}
       /\ Together'
       /\ \A d \in Caches \ failed' : d # c => \E a \in Triples : InStepAt(d, a)'
  <2>1. /\ forward.by = c /\ mode' = mode /\ forward' = Idle /\ failed \subseteq failed'
        /\ torn \subseteq torn'
    BY <1>1, <1>a
  <2> QED BY <1>3, <1>9, <1>10, <2>1, LayerStepOthers
<1>12. failed' \subseteq Caches /\ torn' \subseteq failed'
  BY <1>1 DEF Typed
<1>13. Typed' /\ Handed' /\ Stepwise'
  BY <1>1, <1>11, <1>12 DEF Typed, Handed, Stepwise
<1> QED BY <1>11, <1>13 DEF Flow

(* Attention leaves the rows: the next layer's turn, or every layer of the *)
(* forward's cache has taken the tokens.                                   *)
LEMMA AdvanceKeeps ==
  ASSUME Typed, Flow, forward # Idle, forward.out # <<>>, forward' = Advance,
         UNCHANGED <<impl, scopes, mode, rows, failed, torn>>
  PROVE  Typed' /\ Flow'
<1>a. PICK c \in Caches, l \in Layers, q \in 1 .. MaxForward :
        c = forward.by /\ l = forward.layer /\ q = forward.q
  BY ForwardFacts
<1>1. NumLayers \in Nat /\ l \in 1 .. NumLayers /\ Layers = 1 .. NumLayers
  BY Bounds DEF Layers
<1>2. l # NumLayers =>
        /\ l + 1 \in Layers /\ forward' \in Forward /\ forward'.by = c /\ forward'.q = q
        /\ forward'.layer = l + 1 /\ forward'.out = <<>>
  <2> SUFFICES ASSUME l # NumLayers
               PROVE  /\ l + 1 \in Layers /\ forward' \in Forward /\ forward'.by = c
                      /\ forward'.q = q /\ forward'.layer = l + 1 /\ forward'.out = <<>>
    OBVIOUS
  <2>1. l + 1 \in Layers /\ <<>> \in Seq(Nat)
    BY <1>1
  <2>2. forward' = [forward EXCEPT !.layer = l + 1, !.out = <<>>] /\ forward \in Forward
    BY <1>a, ForwardFacts DEF Advance
  <2> QED BY <1>a, <2>1, <2>2 DEF Forward
<1>3. l = NumLayers => forward' = Idle
  BY <1>a DEF Advance
<1>4. Typed'
  BY <1>2, <1>3 DEF Typed
<1>5. Together' /\ Handed'
  BY <1>2, <1>3 DEF Flow, Together, Handed, Level, Counts
<1>6. ASSUME NEW d \in Caches \ failed', d # c
      PROVE  \E a \in Triples : InStepAt(d, a)'
  <2>1. \A k \in Layers : ~Done(d, k) /\ ~Done(d, k)'
    BY <1>a, <1>2, <1>3, <1>6 DEF Done
  <2>2. d \notin failed /\ rows'[d] = rows[d] /\ mode'[d] = mode[d]
    BY <1>6
  <2> QED BY <1>6, <2>1, <2>2, OthersInStep DEF Flow
<1>7. ASSUME c \notin failed
      PROVE  \E a \in Triples : InStepAt(c, a)'
  <2>1. PICK a \in Triples : InStepAt(c, a)
    BY <1>7 DEF Flow, Stepwise
  <2>2. \A k \in Layers : Done(c, k) <=> k <= l
    BY <1>a, <1>1 DEF Done
  <2>3. CASE l # NumLayers
    <3>1. /\ l + 1 \in Layers /\ forward' \in Forward /\ forward'.by = c /\ forward'.q = q
          /\ forward'.layer = l + 1 /\ forward'.out = <<>> /\ forward' # Idle
      BY <1>2, <2>3, NotIdle
    <3>2. \A k \in Layers : Done(c, k)' <=> k <= l
      <4>1. \A k \in Layers : Done(c, k)' <=> k < l + 1
        BY <3>1 DEF Done
      <4> QED BY <1>1, <4>1
    <3>3. InStepAt(c, a)'
      BY <1>a, <2>1, <2>2, <3>1, <3>2 DEF InStepAt
    <3> QED BY <3>3
  <2>4. CASE l = NumLayers
    <3>1. forward' = Idle /\ \A k \in Layers : Done(c, k) /\ ~Done(c, k)'
      BY <1>1, <1>3, <2>2, <2>4 DEF Done
    <3> DEFINE b == Updated(a, mode[c], q)
    <3>2. b \in Triples
      <4>1. rows[c][1] # <<>> /\ 1 \in Layers
        BY <2>1, <3>1, Bounds DEF InStepAt
      <4>2. 1 \in DOMAIN rows[c][1] /\ rows[c][1][1] \in Row
        BY <4>1, RowFacts
      <4>3. Counts(rows[c][1][1]) = b
        BY <1>a, <2>1, <3>1, <4>1, <4>2 DEF InStepAt
      <4> HIDE DEF b
      <4> QED BY <4>2, <4>3, CountsTyped
    <3>3. PICK e \in Triples : e = b
      BY <3>2
    <3>4. \A k \in Layers : \A r \in DOMAIN rows[c][k] : Counts(rows[c][k][r]) = e
      BY <1>a, <2>1, <3>1, <3>3 DEF InStepAt
    <3>5. \A k \in Layers : rows[c][k] # <<>>
      BY <2>1, <3>1 DEF InStepAt
    <3>6. InStepAt(c, e)'
      BY <3>1, <3>4, <3>5 DEF InStepAt
    <3> QED BY <3>6
  <2> QED BY <2>3, <2>4
<1>8. Stepwise'
  BY <1>6, <1>7 DEF Stepwise
<1> QED BY <1>4, <1>5, <1>8 DEF Flow

(* A forward that raises marks its cache and leaves the rows.              *)
LEMMA RaiseKeeps ==
  ASSUME Typed, Flow, AttendRaises
  PROVE  Typed' /\ Flow'
<1>0. forward # Idle
  BY DEF AttendRaises
<1>a. PICK c \in Caches : c = forward.by
  BY <1>0, ForwardFacts
<1>1. /\ forward' = Idle /\ failed' = failed \cup {c}
      /\ UNCHANGED <<impl, scopes, mode, rows, torn>>
  BY <1>a DEF AttendRaises, scopeVars
<1>2. Typed' /\ Together' /\ Handed'
  BY <1>1 DEF Typed, Flow, Together, Handed, Level, Counts
<1>3. ASSUME NEW d \in Caches \ failed'
      PROVE  \E a \in Triples : InStepAt(d, a)'
  <2>1. d # c /\ d \notin failed /\ rows'[d] = rows[d] /\ mode'[d] = mode[d]
    BY <1>1
  <2>2. \A k \in Layers : ~Done(d, k) /\ ~Done(d, k)'
    BY <1>1, <1>a, <2>1 DEF Done
  <2> QED BY <2>1, <2>2, OthersInStep DEF Flow
<1> QED BY <1>2, <1>3 DEF Flow, Stepwise

------------------------------------------------------------------------------
(* With only its own cache's scope open, a kernel cache's decode step is   *)
(* not delegated and the bound cache is the forward's.                     *)
LEMMA OwnScope ==
  ASSUME Typed, Scoped, NEW c \in Caches,
         {scopes[i].cache : i \in DOMAIN scopes} = {c}
  PROVE  /\ c \in Kernel => impl = "kernel"
         /\ bound \in {Unbound, c}
<1>0. PICK n \in Nat : n = Len(scopes) /\ DOMAIN scopes = 1 .. n
  <2>1. scopes \in Seq(Scope)
    BY DEF Typed
  <2> QED BY <2>1, LenProperties
<1>1. DOMAIN scopes = 1 .. n
  BY <1>0
<1>2. \A i \in 1 .. n : scopes[i].cache = c
  BY <1>1
<1>3. \E i \in 1 .. n : scopes[i].cache = c
  BY <1>1
<1>4. c \in Kernel => impl = "kernel"
  BY <1>0, <1>3 DEF Scoped, ImplOf, KernelAmong
<1>5. bound # Unbound => bound = c
  BY <1>0, <1>2 DEF Scoped
<1> QED BY <1>4, <1>5

(* The middle that is attended is the forward's own, once.                 *)
LEMMA AttendsOwn ==
  ASSUME Typed, Scoped, Handed, NEW b, forward # Idle, forward.out # <<>>,
         \/ b = Unbound /\ Delegates
         \/ b = bound /\ bound # Unbound /\ ~Delegates
  PROVE  Saw(b).inScope => Saw(b).own
<1>a. PICK c \in Caches, l \in Layers, q \in 1 .. MaxForward :
        c = forward.by /\ l = forward.layer /\ q = forward.q
  BY ForwardFacts
<1> SUFFICES ASSUME {scopes[i].cache : i \in DOMAIN scopes} = {c}, c \notin torn
             PROVE  /\ b \in {Unbound, c}
                    /\ \A r \in DOMAIN rows[c][l] :
                         forward.out[r] + (IF b = Unbound THEN 0 ELSE rows[c][l][r].kmid.cols)
                           = rows[c][l][r].mid
  BY <1>a DEF Saw
<1>1. (c \in Kernel => impl = "kernel") /\ bound \in {Unbound, c}
  BY OwnScope
<1>2. \A r \in DOMAIN rows[c][l] : rows[c][l][r].mid \in Nat /\ rows[c][l][r].kmid.cols \in Nat
  BY RowFacts DEF Row, Middle
<1>3. rows[c][l] # <<>> /\ 1 \in DOMAIN rows[c][l]
  <2>1. rows[c][l] # <<>>
    BY <1>a DEF Handed
  <2> QED BY <2>1, RowFacts
<1>4. CASE \A r \in DOMAIN rows[c][l] :
             ~rows[c][l][r].step /\ forward.out[r] = rows[c][l][r].mid
  <2>1. ~HasMiddles(c, l)
    BY <1>3, <1>4 DEF HasMiddles
  <2>2. b = Unbound
    BY <1>1, <1>a, <2>1 DEF Delegates
  <2> QED BY <1>2, <1>4, <2>2
<1>5. CASE /\ c \in Kernel /\ q = 1
           /\ \A r \in DOMAIN rows[c][l] :
                /\ rows[c][l][r].step /\ forward.out[r] = 0
                /\ rows[c][l][r].kmid.cols = rows[c][l][r].mid
  <2>1. HasMiddles(c, l)
    BY <1>3, <1>5 DEF HasMiddles
  <2>2. ~Delegates
    BY <1>1, <1>5, <1>a, <2>1 DEF Delegates
  <2>3. b = bound /\ bound # Unbound
    BY <2>2
  <2> QED BY <1>1, <1>2, <1>5, <2>3
<1> QED BY <1>a, <1>4, <1>5 DEF Handed

------------------------------------------------------------------------------
(* Fresh caches satisfy the invariant.                                     *)
LEMMA InitHolds == Init => IInv
<1> SUFFICES ASSUME Init PROVE IInv
  OBVIOUS
<1>1. "normal" \in Modes /\ FreshRow("normal") \in Row /\ FreshRow("normal").mode = "normal"
      /\ Counts(FreshRow("normal")) = <<0, 0, 0>>
  <2>1. "normal" \in Modes
    BY DEF Modes
  <2> QED BY <2>1, FreshTyped
<1>2. \A c \in Caches, l \in Layers :
        /\ rows[c][l] = NewRows(c)
        /\ rows[c][l] \in Seq(Row) /\ Len(rows[c][l]) \in {0, Batch[c]}
        /\ \A r \in DOMAIN rows[c][l] : rows[c][l][r] = FreshRow("normal")
        /\ Level(rows[c][l])
  <2>1. \A c \in Caches, l \in Layers : rows[c][l] = NewRows(c)
    BY DEF Init
  <2> QED BY <2>1, NewRowsTyped
<1>3. rows \in [Caches -> [Layers -> Seq(Row)]]
  <2>1. \A c \in Caches : NewRows(c) \in Seq(Row)
    BY NewRowsTyped
  <2>2. rows = [c \in Caches |-> [l \in Layers |-> NewRows(c)]]
    BY DEF Init
  <2> QED BY <2>1, <2>2
<1>4. Typed
  <2>1. mode \in [Caches -> Modes] /\ scopes \in Seq(Scope) /\ impl \in Impls
    BY <1>1 DEF Init, Impls
  <2> QED BY <1>2, <1>3, <2>1 DEF Init, Typed
<1>5. Scoped
  BY DEF Init, Scoped, ImplOf, KernelAmong
<1>6. Together /\ Handed
  BY <1>1, <1>2 DEF Init, Together, Handed
<1>7. Stepwise
  <2> SUFFICES ASSUME NEW c \in Caches PROVE InStepAt(c, <<0, 0, 0>>)
    BY DEF Stepwise, Triples
  <2>1. \A k : ~Done(c, k)
    BY DEF Init, Done
  <2>2. \A l, k \in Layers : rows[c][l] = rows[c][k]
    BY <1>2
  <2> QED BY <1>1, <1>2, <2>1, <2>2 DEF InStepAt
<1>8. OwnMiddle
  BY DEF Init, OwnMiddle, NothingSeen
<1> QED BY <1>4, <1>5, <1>6, <1>7, <1>8 DEF IInv

(* Every step keeps the invariant.                                         *)
LEMMA NextKeeps == IInv /\ [Next]_vars => IInv'
<1> SUFFICES ASSUME IInv, [Next]_vars PROVE IInv'
  OBVIOUS
<1>1. Typed /\ Scoped /\ Flow /\ OwnMiddle /\ Handed
  BY DEF IInv, Flow
<1>2. ASSUME Typed' /\ Flow', UNCHANGED scopeVars, attended' = NothingSeen
      PROVE  IInv'
  <2>1. Scoped'
    BY <1>1, <1>2 DEF Scoped, scopeVars, ImplOf, KernelAmong
  <2>2. OwnMiddle'
    BY <1>2 DEF OwnMiddle, NothingSeen
  <2> QED BY <1>2, <2>1, <2>2 DEF IInv, Flow
<1>3. ASSUME Scoped', OwnMiddle', scopes' \in Seq(Scope), impl' \in Impls,
             UNCHANGED <<mode, rows, forward, failed, torn>>
      PROVE  IInv'
  <2>1. Typed'
    BY <1>1, <1>3 DEF Typed
  <2>2. Together'
    BY <1>1, <1>3 DEF Flow, Together, Level, Counts
  <2>3. Handed'
    BY <1>1, <1>3 DEF Flow, Handed
  <2>4. Stepwise'
    BY <1>1, <1>3 DEF Flow, Stepwise, InStepAt, Done
  <2> QED BY <1>3, <2>1, <2>2, <2>3, <2>4 DEF IInv, Flow
<1>4. ASSUME NEW b, forward # Idle, forward.out # <<>>, forward' = Advance,
             \/ b = Unbound /\ Delegates
             \/ b = bound /\ bound # Unbound /\ ~Delegates,
             attended' = Saw(b), UNCHANGED <<scopeVars, mode, rows, failed, torn>>
      PROVE  IInv'
  <2>1. Typed' /\ Flow'
    BY <1>1, <1>4, AdvanceKeeps DEF scopeVars
  <2>2. Scoped'
    BY <1>1, <1>4 DEF Scoped, scopeVars, ImplOf, KernelAmong
  <2>3. Saw(b).inScope => Saw(b).own
    BY <1>1, <1>4, AttendsOwn
  <2>4. OwnMiddle'
    BY <1>4, <2>3 DEF OwnMiddle
  <2> QED BY <2>1, <2>2, <2>4 DEF IInv, Flow
<1>5. ASSUME NEW c \in Caches, Attach(c)
      PROVE  IInv'
  <2>1. OwnMiddle'
    BY <1>5 DEF Attach, OwnMiddle, NothingSeen
  <2> QED BY <1>1, <1>3, <1>5, <2>1, AttachScoped DEF Attach
<1>6. CASE Detach
  <2>1. OwnMiddle'
    BY <1>6 DEF Detach, OwnMiddle, NothingSeen
  <2> QED BY <1>1, <1>3, <1>6, <2>1, DetachScoped DEF Detach
<1>7. ASSUME NEW c \in Caches, Consolidate(c)
      PROVE  IInv'
  <2>1. UNCHANGED scopeVars /\ attended' = NothingSeen
    BY <1>7 DEF Consolidate
  <2> QED BY <1>1, <1>2, <1>7, <2>1, ConsolidateKeeps
<1>8. ASSUME NEW c \in Caches, Reset(c)
      PROVE  IInv'
  <2>1. UNCHANGED scopeVars /\ attended' = NothingSeen
    BY <1>8 DEF Reset
  <2> QED BY <1>1, <1>2, <1>8, <2>1, ResetKeeps
<1>9. ASSUME NEW c \in Caches, NEW m \in Modes, SetMode(c, m)
      PROVE  IInv'
  <2>1. UNCHANGED scopeVars /\ attended' = NothingSeen
    BY <1>9 DEF SetMode
  <2> QED BY <1>1, <1>2, <1>9, <2>1, SetModeKeeps
<1>10. ASSUME NEW c \in Caches, NEW q \in 1 .. MaxForward, StartForward(c, q)
       PROVE  IInv'
  <2>1. UNCHANGED scopeVars /\ attended' = NothingSeen
    BY <1>10 DEF StartForward
  <2> QED BY <1>1, <1>2, <1>10, <2>1, StartForwardKeeps
<1>11. CASE UpdateLayer
  <2>1. UNCHANGED scopeVars /\ attended' = NothingSeen
    BY <1>11 DEF UpdateLayer
  <2> QED BY <1>1, <1>2, <1>11, <2>1, UpdateLayerKeeps
<1>12. CASE UpdateRejected
  <2>1. UNCHANGED scopeVars /\ attended' = NothingSeen
    BY <1>12 DEF UpdateRejected
  <2> QED BY <1>1, <1>2, <1>12, <2>1, UpdateRejectedKeeps
<1>13. CASE AttendReturned
  BY <1>4, <1>13 DEF AttendReturned
<1>14. CASE AttendFactored
  BY <1>4, <1>14 DEF AttendFactored
<1>15. CASE AttendRaises
  <2>1. UNCHANGED scopeVars /\ attended' = NothingSeen
    BY <1>15 DEF AttendRaises
  <2> QED BY <1>1, <1>2, <1>15, <2>1, RaiseKeeps
<1>16. ASSUME NEW r \in 1 .. (IF forward = Idle THEN 0 ELSE Batch[forward.by]), UpdateFails(r)
       PROVE  IInv'
  <2>1. UNCHANGED scopeVars /\ attended' = NothingSeen /\ forward # Idle
    BY <1>16 DEF UpdateFails
  <2>2. r \in 1 .. Batch[forward.by]
    BY <2>1
  <2> QED BY <1>1, <1>2, <1>16, <2>1, <2>2, UpdateFailsKeeps
<1>17. ASSUME NEW c \in Caches, NEW l \in Layers, NEW r \in 1 .. Batch[c],
              ConsolidateFails(c, l, r)
       PROVE  IInv'
  <2>1. UNCHANGED scopeVars /\ attended' = NothingSeen
    BY <1>17 DEF ConsolidateFails
  <2> QED BY <1>1, <1>2, <1>17, <2>1, ConsolidateFailsKeeps
<1>18. CASE UNCHANGED vars
  <2>1. Scoped'
    BY <1>1, <1>18 DEF vars, Scoped, ImplOf, KernelAmong
  <2>2. OwnMiddle'
    BY <1>1, <1>18 DEF vars, OwnMiddle
  <2> QED BY <1>1, <1>3, <1>18, <2>1, <2>2 DEF vars, Typed
<1> QED BY <1>5, <1>6, <1>7, <1>8, <1>9, <1>10, <1>11, <1>12, <1>13, <1>14, <1>15, <1>16,
           <1>17, <1>18 DEF Next

(* The invariant holds in every reachable state.                           *)
THEOREM Inductive == Spec => []IInv
<1>1. Init => IInv
  BY InitHolds
<1>2. IInv /\ [Next]_vars => IInv'
  BY NextKeeps
<1> QED BY <1>1, <1>2, PTL DEF Spec

(* A forward in its own cache's scope alone sees each column of its rows'  *)
(* middle once, through the keys update returned or the kernel, also after *)
(* an absorb of a decode step or a consolidate raised; nothing is said     *)
(* between a prefill that raised and the reset (attach_kernel,             *)
(* kernel_middles).                                                        *)
THEOREM OwnMiddleAttended == Spec => []OwnMiddle
<1>1. IInv => OwnMiddle
  BY DEF IInv
<1> QED BY <1>1, Inductive, PTL

(* Whatever was nested or raised, a cache is bound only while a scope of   *)
(* its own is open, and the model is back on plain attention once no       *)
(* kernel cache's scope is (attach_kernel's `finally`).                    *)
THEOREM NothingLeftBehind == Spec => []NothingKeptAlive
<1>1. IInv => NothingKeptAlive
  <2> SUFFICES ASSUME Typed, Scoped PROVE NothingKeptAlive
    BY DEF IInv
  <2>0. PICK n \in Nat : n = Len(scopes)
    BY DEF Typed
  <2>1. DOMAIN scopes = 1 .. n
    BY <2>0 DEF Typed
  <2>2. bound # Unbound => bound \in {scopes[i].cache : i \in DOMAIN scopes}
    BY <2>0, <2>1 DEF Scoped
  <2>3. ASSUME {scopes[i].cache : i \in DOMAIN scopes} \cap Kernel = {}
        PROVE  impl = "sdpa"
    BY <2>0, <2>1, <2>3 DEF Scoped, ImplOf, KernelAmong
  <2> QED BY <2>2, <2>3 DEF NothingKeptAlive
<1> QED BY <1>1, Inductive, PTL

(* Between forwards the rows and layers of a cache that no forward and no  *)
(* consolidate left midway are at one token count, whatever the mode       *)
(* switches, the consolidations and the resets inside an open block        *)
(* (_update_rows, _set_mode, consolidate, _reset_state).                   *)
THEOREM RowsStayInStep == Spec => []RowsInStep
<1>1. IInv => RowsInStep
  <2> SUFFICES ASSUME Typed, Stepwise, forward = Idle, NEW c \in Caches \ failed
               PROVE  /\ Cardinality({<<row.len, row.ring, row.mid>> :
                                        row \in UNION {Range(rows[c][l]) : l \in Layers}}) <= 1
                      /\ Uniform(rows[c], Len)
    BY DEF IInv, RowsInStep
  <2> DEFINE counts == {<<row.len, row.ring, row.mid>> :
                          row \in UNION {Range(rows[c][l]) : l \in Layers}}
  <2>1. PICK a \in Triples : InStepAt(c, a)
    BY DEF Stepwise
  <2>2. \A l \in Layers : ~Done(c, l)
    BY NotDone
  <2>3. counts \in SUBSET {a}
    <3> SUFFICES ASSUME NEW l \in Layers, NEW r \in DOMAIN rows[c][l]
                 PROVE  <<rows[c][l][r].len, rows[c][l][r].ring, rows[c][l][r].mid>> = a
      BY DEF Range
    <3> QED BY <2>1, <2>2 DEF InStepAt, Counts
  <2>4. Cardinality(counts) <= 1
    <3> HIDE DEF counts
    <3>1. IsFiniteSet({a}) /\ Cardinality({a}) = 1
      BY FS_Singleton
    <3> QED BY <2>3, <3>1, FS_Subset
  <2>5. DOMAIN rows[c] = Layers
    BY DEF Typed
  <2>6. \A l, k \in Layers : Len(rows[c][l]) = Len(rows[c][k])
    <3> SUFFICES ASSUME NEW l \in Layers, NEW k \in Layers
                 PROVE  Len(rows[c][l]) = Len(rows[c][k])
      OBVIOUS
    <3>1. rows[c][l] = <<>> <=> rows[c][k] = <<>>
      BY <2>1, <2>2 DEF InStepAt
    <3>2. /\ rows[c][l] = <<>> <=> Len(rows[c][l]) = 0
          /\ rows[c][k] = <<>> <=> Len(rows[c][k]) = 0
      BY RowFacts
    <3>3. Len(rows[c][l]) \in {0, Batch[c]} /\ Len(rows[c][k]) \in {0, Batch[c]}
      BY DEF Typed
    <3> QED BY <3>1, <3>2, <3>3
  <2>7. Uniform(rows[c], Len)
    BY <2>5, <2>6 DEF Uniform
  <2> QED BY <2>4, <2>7
<1> QED BY <1>1, Inductive, PTL

(***************************************************************************)
(* The drivers of the evaluation axes: what the inductive invariant says.  *)
(***************************************************************************)

Marks == Nat \X Nat \X Nat
CacheStates == [init : BOOLEAN, codes : Seq(Nat), t : Nat, fp16 : Seq(Nat), top : Seq(Nat),
                fourD : BOOLEAN, mode : {"normal", "ingest", "score"}, diag : Seq(Marks)]
AtSample == {"prefill", "bill", "run", "next"}
Footprints == [sample : Nat, tokens : SUBSET Nat, top : SUBSET Nat, residual : Nat]
AxisRows == [arm : Nat, status : {"ok", "refused", "fault"}, footprint : Footprints]

(* An arm the axis is about, and has a branch for.                         *)
Covered == plan.covers /\ ~Skips(job.axis, arm)

(* The shape of the variables; a sample is only started of an arm the axis *)
(* is about and covers.                                                    *)
SweepTyped ==
  /\ job \in [axis : Axes, arms : Seq(Arms), ctx : Contexts, chunk : Chunks]
  /\ pc \in AtSample \cup {"arm", "done", "dead"}
  /\ at \in 1 .. Len(job.arms) /\ sample \in Nat \ {0} /\ fed \in Nat
  /\ cache \in CacheStates /\ cache.t <= Len(cache.codes)
  /\ billed \in Footprints /\ axisRows \in Seq(AxisRows) /\ crashes \in Nat
  /\ pc \in AtSample => Covered

(* Everything a quantized cache holds, in order.                           *)
Whole(c) == Dequantize(c) \o c.fp16
FoldsWhenFull(c) == c.fourD <=> c.fp16 # <<>>

(* The tokens fed after the first n.                                       *)
FedAfter(n) == Positions(n, fed - n)

(* During the prefill the cache holds what it was fed: all in one forward  *)
(* unless the arm may take it in chunks.                                   *)
InChunks == arm.kind = "quant" \/ (streaming /\ plan.ingests)
Prefilled ==
  pc = "prefill" =>
    /\ fed <= job.ctx
    /\ ~InChunks => fed \in {0, job.ctx}
    /\ streaming => /\ cache.fp16 = FedAfter(0) /\ hooked
                    /\ cache.mode = IF plan.ingests THEN "ingest" ELSE "normal"
    /\ arm.kind \in {"full", "press", "quant_faithful"} =>
         cache.fp16 = FedAfter(0) /\ cache.top = FedAfter(0)
    /\ arm.kind \in {"quant", "press_quant"} =>
         /\ Whole(cache) = FedAfter(0) /\ FoldsWhenFull(cache)
         /\ cache.init <=> fed > 0
         /\ arm.kind = "press_quant" => cache.fp16 = <<>>

(* The tokens an arm's prefill drops, below and on the last layer.         *)
Dropped(a) == CASE a.kind = "press" -> job.ctx - Keep - (IF a.perLayer THEN 1 ELSE 0)
                [] a.kind = "press_quant" -> job.ctx - Keep
                [] OTHER -> 0
DroppedTop(a) == CASE a.kind = "press" -> job.ctx - Keep + (IF a.perLayer THEN 1 ELSE 0)
                   [] a.kind = "press_quant" -> job.ctx - Keep
                   [] OTHER -> 0

(* After it the cache holds what survived and what it was fed since, but   *)
(* for a streaming cache that only scores.                                 *)
Decoded ==
  pc \in {"bill", "run", "next"} =>
    /\ fed >= job.ctx
    /\ pc = "bill" => fed = job.ctx
    /\ streaming =>
         /\ cache.fp16 = IF job.axis = "ppl" THEN Positions(0, job.ctx) ELSE FedAfter(0)
         /\ pc # "next" => /\ cache.mode = IF job.axis = "ppl" THEN "score" ELSE "normal"
                           /\ job.axis # "persist" => hooked
    /\ arm.kind \in {"full", "press"} =>
         cache.fp16 = FedAfter(Dropped(arm)) /\ cache.top = FedAfter(DroppedTop(arm))
    /\ quantized =>
         /\ Whole(cache) = FedAfter(Dropped(arm)) /\ FoldsWhenFull(cache) /\ cache.init
    /\ arm.kind = "quant_faithful" /\ Residual > 0
         /\ (pc = "bill" \/ (job.axis = "longbench" /\ Residual > 1)) =>
           Len(cache.fp16) = fed % Residual

(* What was billed is what survived the prefill.                           *)
Footprinted ==
  /\ billed # NotBilled =>
       /\ billed.tokens = (Dropped(arm) + 1) .. job.ctx
       /\ billed.top = (DroppedTop(arm) + 1) .. job.ctx
       /\ arm.kind = "quant_faithful" /\ Residual > 0 => billed.residual = job.ctx % Residual
  /\ pc \in {"run", "next"} /\ plan.recorded /\ arm.kind \in BilledFirst(job.axis) =>
       billed # NotBilled

(* The diagnostic rows of the caches before the one at hand.               *)
Behind(d) == \/ d[1] < at
             \/ d[1] = at /\ \/ d[2] < sample \/ pc \in {"done", "dead"}
                             \/ d[2] = sample /\ pc = "next"

(* The axes that drain; the rows of a cache, which only a bug cache has.   *)
Drains == job.axis \in {"ppl", "ruler", "longbench"}
OwnRows(diag, upTo) ==
  /\ IsInjective(diag)
  /\ \A d \in ToSet(diag) : d[1] = at /\ d[2] = sample /\ d[3] <= upTo
  /\ arm.kind # "bug" => diag = <<>>

(* The rows that were emitted are of caches before, each once; the rows    *)
(* that were produced and are not are the cache's at hand.                 *)
Emitting ==
  /\ emitted \in Seq(Marks) /\ IsInjective(emitted) /\ ToSet(emitted) \subseteq made
  /\ \A d \in ToSet(emitted) : Behind(d)
  /\ Sampling => OwnRows(cache.diag, fed) /\ ToSet(cache.diag) \subseteq made
  /\ Drains => made \subseteq ToSet(emitted) \cup (IF Sampling THEN ToSet(cache.diag) ELSE {})

SweepInv == SweepTyped /\ Prefilled /\ Decoded /\ Footprinted /\ Emitting
              /\ EveryArmAnswers

------------------------------------------------------------------------------
(* Positions, and the quantized store.                                     *)

(* A stretch of positions.                                                 *)
LEMMA PositionsFacts ==
  ASSUME NEW a \in Nat, NEW n \in Nat
  PROVE  /\ Positions(a, n) \in Seq(Nat) /\ Len(Positions(a, n)) = n
         /\ \A i \in 1 .. n : Positions(a, n)[i] = a + i
         /\ Range(Positions(a, n)) = (a + 1) .. (a + n)
<1>1. /\ Positions(a, n) \in Seq(Nat) /\ Len(Positions(a, n)) = n
      /\ DOMAIN Positions(a, n) = 1 .. n
      /\ \A i \in 1 .. n : Positions(a, n)[i] = a + i
  BY DEF Positions
<1>2. Range(Positions(a, n)) = {a + i : i \in 1 .. n}
  BY <1>1 DEF Range
<1>3. \A x \in (a + 1) .. (a + n) : x - a \in 1 .. n /\ x = a + (x - a)
  OBVIOUS
<1>4. {a + i : i \in 1 .. n} = (a + 1) .. (a + n)
  BY <1>3
<1>5. QED
  BY <1>1, <1>2, <1>4

(* Two sequences, one after the other.                                     *)
Joins(u, s, t) ==
  /\ Len(u) = Len(s) + Len(t)
  /\ \A i \in 1 .. Len(s) : u[i] = s[i]
  /\ \A i \in 1 .. Len(t) : u[Len(s) + i] = t[i]

(* Concatenation puts them so.                                             *)
LEMMA ConcatFacts ==
  ASSUME NEW S, NEW s \in Seq(S), NEW t \in Seq(S)
  PROVE  s \o t \in Seq(S) /\ Joins(s \o t, s, t)
<1>1. s \o t \in Seq(S) /\ Len(s \o t) = Len(s) + Len(t)
  OBVIOUS
<1>2. \A i \in 1 .. Len(s) : (s \o t)[i] = s[i]
  OBVIOUS
<1>3. \A i \in 1 .. Len(t) : (s \o t)[Len(s) + i] = t[i]
  OBVIOUS
<1>4. QED
  BY <1>1, <1>2, <1>3 DEF Joins

(* A sequence that is the one after the other.                             *)
LEMMA ConcatIs ==
  ASSUME NEW S, NEW s \in Seq(S), NEW t \in Seq(S), NEW u \in Seq(S),
         Len(u) = Len(s) + Len(t), \A i \in 1 .. Len(s) : u[i] = s[i],
         \A i \in 1 .. Len(t) : u[Len(s) + i] = t[i]
  PROVE  s \o t = u
<1>1. /\ s \o t \in Seq(S) /\ Len(s \o t) = Len(s) + Len(t) /\ Len(s) \in Nat /\ Len(t) \in Nat
      /\ \A i \in 1 .. Len(s) : (s \o t)[i] = s[i]
      /\ \A i \in 1 .. Len(t) : (s \o t)[Len(s) + i] = t[i]
  OBVIOUS
<1>2. PICK v \in Seq(S) : v = s \o t
  BY <1>1
<1>3. \A i \in 1 .. Len(v) : v[i] = u[i]
  <2>1. SUFFICES ASSUME NEW i \in 1 .. Len(v)
                 PROVE  v[i] = u[i]
    OBVIOUS
  <2>2. CASE i <= Len(s)
    BY <1>1, <1>2, <2>2
  <2>3. CASE ~(i <= Len(s))
    <3>1. i - Len(s) \in 1 .. Len(t) /\ i = Len(s) + (i - Len(s))
      BY <1>1, <1>2, <2>3
    <3>2. PICK k \in 1 .. Len(t) : i = Len(s) + k
      BY <3>1
    <3>3. QED
      BY <1>1, <1>2, <3>2
  <2>4. QED
    BY <2>2, <2>3
<1>4. QED
  BY <1>1, <1>2, <1>3, SeqEqual

(* Two stretches of positions, one after the other.                        *)
LEMMA PositionsJoin ==
  ASSUME NEW a \in Nat, NEW m \in Nat, NEW n \in Nat
  PROVE  Positions(a, m) \o Positions(a + m, n) = Positions(a, m + n)
<1>1. PICK s \in Seq(Nat) : /\ s = Positions(a, m) /\ Len(s) = m
                            /\ \A i \in 1 .. m : s[i] = a + i
  BY PositionsFacts
<1>2. PICK t \in Seq(Nat) : /\ t = Positions(a + m, n) /\ Len(t) = n
                            /\ \A i \in 1 .. n : t[i] = (a + m) + i
  <2>1. a + m \in Nat
    OBVIOUS
  <2>2. QED
    BY <2>1, PositionsFacts
<1>3. PICK u \in Seq(Nat) : /\ u = Positions(a, m + n) /\ Len(u) = m + n
                            /\ \A i \in 1 .. m + n : u[i] = a + i
  <2>1. m + n \in Nat
    OBVIOUS
  <2>2. QED
    BY <2>1, PositionsFacts
<1>4. \A i \in 1 .. m : u[i] = s[i]
  BY <1>1, <1>3
<1>5. \A i \in 1 .. n : u[m + i] = t[i]
  <2>1. \A i \in 1 .. n : m + i \in 1 .. m + n /\ a + (m + i) = (a + m) + i
    OBVIOUS
  <2>2. QED
    BY <1>2, <1>3, <2>1
<1>6. s \o t = u
  <2>1. Len(u) = Len(s) + Len(t)
    BY <1>1, <1>2, <1>3
  <2>2. \A i \in 1 .. Len(s) : u[i] = s[i]
    BY <1>1, <1>4
  <2>3. \A i \in 1 .. Len(t) : u[Len(s) + i] = t[i]
    BY <1>1, <1>2, <1>5
  <2>4. QED
    BY <2>1, <2>2, <2>3, ConcatIs
<1>7. QED
  BY <1>1, <1>2, <1>3, <1>6

(* What is left of a stretch without its first k positions, and those.     *)
LEMMA PositionsSplit ==
  ASSUME NEW a \in Nat, NEW n \in Nat, NEW k \in 0 .. n
  PROVE  /\ SubSeq(Positions(a, n), 1, k) = Positions(a, k)
         /\ SubSeq(Positions(a, n), k + 1, n) = Positions(a + k, n - k)
<1> DEFINE s == Positions(a, n)
           t == Positions(a, k)
           u == Positions(a + k, n - k)
<1>1. s \in Seq(Nat) /\ Len(s) = n /\ \A i \in 1 .. n : s[i] = a + i
  BY PositionsFacts
<1>2. t \in Seq(Nat) /\ Len(t) = k /\ \A i \in 1 .. k : t[i] = a + i
  BY PositionsFacts
<1>3. u \in Seq(Nat) /\ Len(u) = n - k /\ \A i \in 1 .. n - k : u[i] = (a + k) + i
  <2>1. a + k \in Nat /\ n - k \in Nat
    OBVIOUS
  <2>2. QED
    BY <2>1, PositionsFacts
<1> HIDE DEF s, t, u
<1>4. SubSeq(s, 1, k) = t
  <2>1. SubSeq(s, 1, k) \in Seq(Nat) /\ Len(SubSeq(s, 1, k)) = k
    BY <1>1
  <2>2. \A i \in 1 .. k : SubSeq(s, 1, k)[i] = t[i]
    BY <1>1, <1>2
  <2>3. QED
    BY <1>2, <2>1, <2>2, SeqEqual
<1>5. SubSeq(s, k + 1, n) = u
  <2>1. SubSeq(s, k + 1, n) \in Seq(Nat) /\ Len(SubSeq(s, k + 1, n)) = n - k
    BY <1>1
  <2>2. \A i \in 1 .. n - k : SubSeq(s, k + 1, n)[i] = u[i]
    BY <1>1, <1>3
  <2>3. QED
    BY <1>3, <2>1, <2>2, SeqEqual
<1>6. QED
  BY <1>4, <1>5 DEF s, t, u

(* Quantizing keys stores them in place of what was there; the padding is  *)
(* never read back.                                                        *)
LEMMA QuantizeFacts ==
  ASSUME NEW c \in CacheStates, NEW keys \in Seq(Nat)
  PROVE  LET q == Quantize(c, keys)
         IN /\ q \in CacheStates /\ q.t <= Len(q.codes) /\ q.init /\ Dequantize(q) = keys
            /\ q.fp16 = c.fp16 /\ q.top = c.top /\ q.fourD = c.fourD
            /\ q.mode = c.mode /\ q.diag = c.diag
<1>1. Group \in Nat \ {0} /\ Len(keys) \in Nat
  BY SweepAssumption
<1>2. PICK pad \in Nat : pad = (Group - (Len(keys) % Group)) % Group
  BY <1>1
<1>3. Len(keys) = 0 => pad = 0
  BY <1>1, <1>2
<1>4. PICK tail : tail = [i \in 1 .. pad |-> Last(keys)]
  OBVIOUS
<1>5. tail \in Seq(Nat)
  <2>1. CASE pad = 0
    BY <1>4, <2>1
  <2>2. CASE pad # 0
    <3>1. Len(keys) \in 1 .. Len(keys)
      BY <1>1, <1>3, <2>2
    <3>2. Last(keys) \in Nat
      BY <3>1 DEF Last
    <3>3. QED
      BY <1>4, <3>2
  <2>3. QED
    BY <2>1, <2>2
<1>6. PICK codes : codes = keys \o tail
  OBVIOUS
<1>7. /\ codes \in Seq(Nat) /\ Len(keys) <= Len(codes)
      /\ SubSeq(codes, 1, Len(keys)) = keys
  <2>1. /\ codes \in Seq(Nat) /\ Len(codes) = Len(keys) + Len(tail) /\ Len(tail) \in Nat
        /\ \A i \in 1 .. Len(keys) : codes[i] = keys[i]
    BY <1>1, <1>5, <1>6
  <2>2. /\ SubSeq(codes, 1, Len(keys)) \in Seq(Nat)
        /\ Len(SubSeq(codes, 1, Len(keys))) = Len(keys)
        /\ \A i \in 1 .. Len(keys) : SubSeq(codes, 1, Len(keys))[i] = codes[i]
    BY <1>1, <2>1
  <2>3. SubSeq(codes, 1, Len(keys)) = keys
    BY <2>1, <2>2, SeqEqual
  <2>4. QED
    BY <1>1, <2>1, <2>3
<1>8. PICK q : q = Quantize(c, keys)
  OBVIOUS
<1>9. q = [c EXCEPT !.init = TRUE, !.t = Len(keys), !.codes = codes]
  BY <1>2, <1>4, <1>6, <1>8 DEF Quantize
<1>10. /\ q.init /\ q.t = Len(keys) /\ q.codes = codes /\ q.fp16 = c.fp16 /\ q.top = c.top
       /\ q.fourD = c.fourD /\ q.mode = c.mode /\ q.diag = c.diag
       /\ q \in CacheStates
  BY <1>1, <1>7, <1>9 DEF CacheStates
<1>11. Dequantize(q) = keys
  BY <1>7, <1>10 DEF Dequantize
<1>12. QED
  BY <1>7, <1>8, <1>10, <1>11

(* Three sequences, one after the other.                                   *)
LEMMA Associates ==
  ASSUME NEW S, NEW d \in Seq(S), NEW f \in Seq(S), NEW g \in Seq(S)
  PROVE  (d \o f) \o g = d \o (f \o g)
<1>1. PICK s \in Seq(S) : s = d \o f /\ Joins(s, d, f)
  BY ConcatFacts
<1>2. PICK t \in Seq(S) : t = f \o g /\ Joins(t, f, g)
  BY ConcatFacts
<1>3. PICK u \in Seq(S) : u = d \o t /\ Joins(u, d, t)
  BY ConcatFacts
<1>4. Len(d) \in Nat /\ Len(f) \in Nat /\ Len(g) \in Nat
  OBVIOUS
<1>5. Len(u) = Len(s) + Len(g)
  BY <1>1, <1>2, <1>3, <1>4 DEF Joins
<1>6. \A i \in 1 .. Len(s) : u[i] = s[i]
  <2>1. SUFFICES ASSUME NEW i \in 1 .. Len(s)
                 PROVE  u[i] = s[i]
    OBVIOUS
  <2>2. CASE i <= Len(d)
    BY <1>1, <1>3, <1>4, <2>2 DEF Joins
  <2>3. CASE ~(i <= Len(d))
    <3>1. i - Len(d) \in 1 .. Len(f) /\ i = Len(d) + (i - Len(d))
      BY <1>1, <1>4, <2>3 DEF Joins
    <3>2. PICK k \in 1 .. Len(f) : i = Len(d) + k
      BY <3>1
    <3>3. k \in 1 .. Len(t)
      BY <1>2, <1>4 DEF Joins
    <3>4. QED
      BY <1>1, <1>2, <1>3, <3>2, <3>3 DEF Joins
  <2>4. QED
    BY <2>2, <2>3
<1>7. \A i \in 1 .. Len(g) : u[Len(s) + i] = g[i]
  <2>1. SUFFICES ASSUME NEW i \in 1 .. Len(g)
                 PROVE  u[Len(s) + i] = g[i]
    OBVIOUS
  <2>2. Len(f) + i \in 1 .. Len(t) /\ Len(s) + i = Len(d) + (Len(f) + i)
    BY <1>1, <1>2, <1>4 DEF Joins
  <2>3. QED
    BY <1>2, <1>3, <2>2 DEF Joins
<1>8. s \o g = u
  BY <1>5, <1>6, <1>7, ConcatIs
<1>9. QED
  BY <1>1, <1>2, <1>3, <1>8

(* What a quantized cache holds is a sequence of its two parts.            *)
LEMMA WholeFacts ==
  ASSUME NEW c \in CacheStates, c.t <= Len(c.codes)
  PROVE  /\ Dequantize(c) \in Seq(Nat) /\ c.fp16 \in Seq(Nat) /\ Whole(c) \in Seq(Nat)
         /\ c.fp16 = <<>> => Whole(c) = Dequantize(c)
<1>1. c.codes \in Seq(Nat) /\ c.t \in Nat /\ c.fp16 \in Seq(Nat)
  BY DEF CacheStates
<1>2. Dequantize(c) \in Seq(Nat)
  BY <1>1 DEF Dequantize
<1>3. PICK d \in Seq(Nat) : d = Dequantize(c)
  BY <1>2
<1>4. PICK f \in Seq(Nat) : f = c.fp16
  BY <1>1
<1>5. d \o f \in Seq(Nat) /\ d \o <<>> = d
  BY <1>3, <1>4, ConcatEmptySeq
<1>6. QED
  BY <1>1, <1>3, <1>4, <1>5 DEF Whole

(* A fold: everything is in the store, and nothing beside it.              *)
LEMMA FoldFacts ==
  ASSUME NEW c \in CacheStates, NEW keys \in Seq(Nat)
  PROVE  LET q == Emptied(Quantize(c, keys))
         IN /\ q \in CacheStates /\ q.t <= Len(q.codes) /\ q.init
            /\ Whole(q) = keys /\ FoldsWhenFull(q) /\ q.fp16 = <<>>
            /\ q.mode = c.mode /\ q.diag = c.diag
<1>1. PICK z : z = Quantize(c, keys)
  OBVIOUS
<1>2. /\ z \in CacheStates /\ z.t <= Len(z.codes) /\ z.init /\ Dequantize(z) = keys
      /\ z.mode = c.mode /\ z.diag = c.diag
  BY <1>1, QuantizeFacts
<1>3. PICK q : q = Emptied(z)
  OBVIOUS
<1>4. /\ q \in CacheStates /\ q.t = z.t /\ q.codes = z.codes /\ q.init = z.init
      /\ q.fp16 = <<>> /\ q.fourD = FALSE /\ q.mode = z.mode /\ q.diag = z.diag
  <2>0. PICK no \in BOOLEAN : no = FALSE
    OBVIOUS
  <2>1. PICK e \in Seq(Nat) : e = <<>>
    <3>1. <<>> \in Seq(Nat)
      OBVIOUS
    <3>2. QED
      BY <3>1, Zenon
  <2>2. q = [z EXCEPT !.fp16 = e, !.fourD = no]
    BY <1>3, <2>0, <2>1 DEF Emptied
  <2>3. /\ q \in CacheStates /\ q.t = z.t /\ q.codes = z.codes /\ q.init = z.init
        /\ q.fp16 = e /\ q.fourD = no /\ q.mode = z.mode /\ q.diag = z.diag
    BY <1>2, <2>2 DEF CacheStates
  <2>4. QED
    BY <2>0, <2>1, <2>3
<1>5. Dequantize(q) = keys
  BY <1>2, <1>4 DEF Dequantize
<1>6. Whole(q) = keys
  BY <1>2, <1>4, <1>5, WholeFacts
<1>7. QED
  BY <1>1, <1>2, <1>3, <1>4, <1>6 DEF FoldsWhenFull

(* An update adds the new keys at the end, folded or not.                  *)
LEMMA QuantUpdateFacts ==
  ASSUME NEW c \in CacheStates, c.t <= Len(c.codes), FoldsWhenFull(c),
         NEW new \in Seq(Nat), new # <<>>, c.init \/ Whole(c) = <<>>
  PROVE  LET q == QuantUpdate(c, new)
         IN /\ q \in CacheStates /\ q.t <= Len(q.codes) /\ q.init
            /\ Whole(q) = Whole(c) \o new /\ FoldsWhenFull(q)
            /\ q.mode = c.mode /\ q.diag = c.diag
            /\ c.init => q.fp16 = IF c.fp16 # <<>> /\ Len(c.fp16) + 1 >= Residual
                                  THEN <<>> ELSE c.fp16 \o new
<1>1. PICK q : q = QuantUpdate(c, new)
  OBVIOUS
<1>2. PICK d \in Seq(Nat), f \in Seq(Nat) : d = Dequantize(c) /\ f = c.fp16
  BY WholeFacts
<1>3. Whole(c) = d \o f
  BY <1>2 DEF Whole
<1>4. (d \o f) \o new \in Seq(Nat) /\ (d \o f) \o new = d \o (f \o new) /\ f \o new \in Seq(Nat)
  <2>1. d \o f \in Seq(Nat) /\ f \o new \in Seq(Nat)
    OBVIOUS
  <2>2. (d \o f) \o new \in Seq(Nat)
    BY <2>1
  <2>3. (d \o f) \o new = d \o (f \o new)
    BY Associates, SMTT(60)
  <2>4. QED
    BY <2>1, <2>2, <2>3
<1>5. CASE ~c.init
  <2>1. q = Emptied(Quantize(c, new))
    BY <1>1, <1>5 DEF QuantUpdate
  <2>2. Whole(c) \o new = new
    BY <1>5, ConcatEmptySeq
  <2>3. QED
    BY <1>1, <1>5, <2>1, <2>2, FoldFacts
<1>6. CASE c.init /\ c.fourD /\ Len(c.fp16) + 1 >= Residual
  <2>1. q = Emptied(Quantize(c, (d \o f) \o new))
    BY <1>1, <1>2, <1>6 DEF QuantUpdate
  <2>2. PICK keys \in Seq(Nat) : keys = (d \o f) \o new
    BY <1>4
  <2>3. /\ q \in CacheStates /\ q.t <= Len(q.codes) /\ q.init
        /\ Whole(q) = keys /\ FoldsWhenFull(q) /\ q.fp16 = <<>>
        /\ q.mode = c.mode /\ q.diag = c.diag
    BY <2>1, <2>2, FoldFacts
  <2>4. c.fp16 # <<>>
    BY <1>6 DEF FoldsWhenFull
  <2>5. QED
    BY <1>1, <1>3, <1>6, <2>2, <2>3, <2>4
<1>7. CASE c.init /\ ~(c.fourD /\ Len(c.fp16) + 1 >= Residual)
  <2>1. q = [c EXCEPT !.fp16 = c.fp16 \o new, !.fourD = TRUE]
    BY <1>1, <1>7 DEF QuantUpdate
  <2>2. PICK g \in Seq(Nat) : g = c.fp16 \o new
    BY <1>2, <1>4
  <2>3. /\ q \in CacheStates /\ q.t = c.t /\ q.codes = c.codes /\ q.init = c.init
        /\ q.fp16 = g /\ q.fourD = TRUE /\ q.mode = c.mode /\ q.diag = c.diag
    BY <2>1, <2>2 DEF CacheStates
  <2>4. Dequantize(q) = d
    BY <1>2, <2>3 DEF Dequantize
  <2>5. Whole(q) = Whole(c) \o new
    BY <1>2, <1>3, <1>4, <2>2, <2>3, <2>4 DEF Whole
  <2>6. q.fp16 # <<>>
    BY <1>2, <2>2, <2>3, ConcatEqualIffEmpty
  <2>7. FoldsWhenFull(q)
    BY <2>3, <2>6 DEF FoldsWhenFull
  <2>8. ~(c.fp16 # <<>> /\ Len(c.fp16) + 1 >= Residual)
    BY <1>7 DEF FoldsWhenFull
  <2>9. QED
    BY <1>1, <1>7, <2>2, <2>3, <2>5, <2>7, <2>8
<1>8. QED
  BY <1>5, <1>6, <1>7

(* A flush changes where the keys are, and nothing of what is held.        *)
LEMMA FlushFacts ==
  ASSUME NEW c \in CacheStates, c.t <= Len(c.codes), FoldsWhenFull(c), c.init
  PROVE  LET q == Flush(c)
         IN /\ q \in CacheStates /\ q.t <= Len(q.codes) /\ q.init
            /\ Whole(q) = Whole(c) /\ FoldsWhenFull(q)
            /\ q.mode = c.mode /\ q.diag = c.diag
<1>1. CASE ~c.fourD \/ c.fp16 = <<>>
  BY <1>1 DEF Flush
<1>2. CASE ~(~c.fourD \/ c.fp16 = <<>>)
  <2>1. PICK keys \in Seq(Nat) : keys = Whole(c)
    BY WholeFacts
  <2>2. Flush(c) = Emptied(Quantize(c, keys))
    BY <1>2, <2>1 DEF Flush, Whole
  <2>3. QED
    BY <2>1, <2>2, FoldFacts
<1>3. QED
  BY <1>1, <1>2

------------------------------------------------------------------------------
(* The plans of the axes, and the forwards.                                *)

(* The arm under way.                                                      *)
LEMMA ArmFacts ==
  ASSUME SweepTyped
  PROVE  /\ arm \in Arms /\ arm.kind \in Kinds /\ arm.perLayer \in BOOLEAN
         /\ arm.perLayer => arm.kind = "press"
         /\ job.axis \in Axes /\ job.ctx \in Nat /\ job.chunk \in Nat
         /\ Keep \in Nat /\ Keep > 1 /\ job.ctx > Keep
         /\ Residual \in Nat /\ job.ctx >= Residual
<1>1. job.arms \in Seq(Arms) /\ at \in 1 .. Len(job.arms)
  BY DEF SweepTyped
<1>2. arm \in Arms
  BY <1>1 DEF arm
<1>3. job.axis \in Axes /\ job.ctx \in Contexts /\ job.chunk \in Chunks
  BY DEF SweepTyped
<1>4. /\ Keep \in Nat /\ Keep > 1 /\ Residual \in Nat
      /\ job.ctx \in Nat /\ job.chunk \in Nat /\ job.ctx > Keep /\ job.ctx >= Residual
  BY <1>3, SweepAssumption
<1>5. arm.kind \in Kinds /\ arm.perLayer \in BOOLEAN /\ (arm.perLayer => arm.kind = "press")
  BY <1>2, SweepAssumption
<1>6. QED
  BY <1>2, <1>3, <1>4, <1>5

(* What the axes do with an arm.                                           *)
LEMMA PlanFacts ==
  ASSUME NEW x \in Axes, NEW a \in Arms
  PROVE  LET p == Plan(x, a)
         IN /\ p.samples \in Nat \ {0} /\ p.after \in Nat /\ p.step \in Nat \ {0}
            /\ p.covers \in BOOLEAN
            /\ p.recorded <=> x \in {"ppl", "ruler", "longbench"}
            /\ p.ingests <=> (p.recorded => Chunked(a))
            /\ x = "ppl" /\ p.covers => a.kind # "press_quant" /\ ~a.perLayer
            /\ x # "ppl" /\ (a.kind \in {"bug", "shadow"} \/ a.perLayer) => p.step = 1
            /\ x = "longbench" => p.step = 1
            /\ x = "persist" => p.after = 0
<1>1. PICK p : p = Plan(x, a)
  OBVIOUS
<1>2. /\ Window \in Nat \ {0} /\ Query \in Nat \ {0} /\ MaxNew \in Nat \ {0}
      /\ NumSamples \in Nat \ {0}
      /\ x \in {"ppl", "ruler", "longbench", "latency", "persist", "kernel_check"}
  BY SweepAssumption
<1>3. CASE x = "ppl"
  <2>1. p = PplPlan(a)
    BY <1>1, <1>3 DEF Plan
  <2>2. p.samples \in Nat \ {0} /\ p.after \in Nat /\ p.step \in Nat \ {0}
    BY <1>2, <2>1 DEF PplPlan
  <2>3. p.covers \in BOOLEAN
    BY <2>1 DEF PplPlan
  <2>4. p.recorded <=> x \in {"ppl", "ruler", "longbench"}
    BY <1>3, <2>1 DEF PplPlan
  <2>5. p.ingests <=> (p.recorded => Chunked(a))
    BY <2>1 DEF PplPlan
  <2>6. p.covers => a.kind # "press_quant" /\ ~a.perLayer
    BY <2>1 DEF PplPlan
  <2>7. QED
    BY <1>1, <1>3, <2>2, <2>3, <2>4, <2>5, <2>6
<1>4. CASE x = "ruler"
  <2>1. p = RulerPlan(a)
    BY <1>1, <1>4 DEF Plan
  <2>2. Query + MaxNew \in Nat
    BY <1>2
  <2>3. p.samples \in Nat \ {0} /\ p.after \in Nat /\ p.step \in Nat \ {0}
    BY <1>2, <2>1, <2>2 DEF RulerPlan
  <2>4. p.covers \in BOOLEAN
    BY <2>1 DEF RulerPlan
  <2>5. p.recorded <=> x \in {"ppl", "ruler", "longbench"}
    BY <1>4, <2>1 DEF RulerPlan
  <2>6. p.ingests <=> (p.recorded => Chunked(a))
    BY <2>1 DEF RulerPlan
  <2>7. a.kind \in {"bug", "shadow"} \/ a.perLayer => p.step = 1
    BY <2>1 DEF RulerPlan, Block
  <2>8. QED
    BY <1>1, <1>4, <2>3, <2>4, <2>5, <2>6, <2>7
<1>5. CASE x = "longbench"
  <2>1. p = LongbenchPlan(a)
    BY <1>1, <1>5 DEF Plan
  <2>2. 1 + MaxNew \in Nat
    BY <1>2
  <2>3. p.samples \in Nat \ {0} /\ p.after \in Nat /\ p.step \in Nat \ {0}
    BY <1>2, <2>1, <2>2 DEF LongbenchPlan
  <2>4. p.covers \in BOOLEAN
    BY <2>1 DEF LongbenchPlan
  <2>5. p.recorded <=> x \in {"ppl", "ruler", "longbench"}
    BY <1>5, <2>1 DEF LongbenchPlan
  <2>6. p.ingests <=> (p.recorded => Chunked(a))
    BY <2>1 DEF LongbenchPlan
  <2>7. p.step = 1
    BY <2>1 DEF LongbenchPlan
  <2>8. QED
    BY <1>1, <1>5, <2>3, <2>4, <2>5, <2>6, <2>7
<1>6. CASE x = "latency"
  <2>1. p = LatencyPlan(a)
    BY <1>1, <1>6 DEF Plan
  <2>2. p.samples \in Nat \ {0} /\ p.after \in Nat /\ p.step \in Nat \ {0}
    BY <1>2, <2>1 DEF LatencyPlan
  <2>3. p.covers \in BOOLEAN
    BY <2>1 DEF LatencyPlan
  <2>4. p.recorded <=> x \in {"ppl", "ruler", "longbench"}
    BY <1>6, <2>1 DEF LatencyPlan
  <2>5. p.ingests <=> (p.recorded => Chunked(a))
    BY <2>1 DEF LatencyPlan
  <2>6. p.step = 1
    BY <2>1 DEF LatencyPlan
  <2>7. QED
    BY <1>1, <1>6, <2>2, <2>3, <2>4, <2>5, <2>6
<1>7. CASE x = "persist"
  <2>1. p = PersistPlan(a)
    BY <1>1, <1>7 DEF Plan
  <2>2. p.samples \in Nat \ {0} /\ p.after \in Nat /\ p.step \in Nat \ {0}
    BY <1>2, <2>1 DEF PersistPlan
  <2>3. p.covers \in BOOLEAN
    BY <2>1 DEF PersistPlan
  <2>4. p.recorded <=> x \in {"ppl", "ruler", "longbench"}
    BY <1>7, <2>1 DEF PersistPlan
  <2>5. p.ingests <=> (p.recorded => Chunked(a))
    BY <2>1 DEF PersistPlan
  <2>6. p.step = 1 /\ p.after = 0
    BY <2>1 DEF PersistPlan
  <2>7. QED
    BY <1>1, <1>7, <2>2, <2>3, <2>4, <2>5, <2>6
<1>8. CASE x = "kernel_check"
  <2>1. p = KernelCheckPlan(a)
    BY <1>1, <1>8 DEF Plan
  <2>2. p.samples \in Nat \ {0} /\ p.after \in Nat /\ p.step \in Nat \ {0}
    BY <1>2, <2>1 DEF KernelCheckPlan
  <2>3. p.covers \in BOOLEAN
    BY <2>1 DEF KernelCheckPlan
  <2>4. p.recorded <=> x \in {"ppl", "ruler", "longbench"}
    BY <1>8, <2>1 DEF KernelCheckPlan
  <2>5. p.ingests <=> (p.recorded => Chunked(a))
    BY <2>1 DEF KernelCheckPlan
  <2>6. p.step = 1
    BY <2>1 DEF KernelCheckPlan
  <2>7. QED
    BY <1>1, <1>8, <2>2, <2>3, <2>4, <2>5, <2>6
<1>9. QED
  BY <1>2, <1>3, <1>4, <1>5, <1>6, <1>7, <1>8

(* A forward takes a token at least, and a prefill's none of the answer.   *)
LEMMA StepFacts ==
  ASSUME SweepTyped
  PROVE  /\ RunStep \in Nat \ {0}
         /\ fed < job.ctx => PrefillStep \in Nat \ {0} /\ fed + PrefillStep <= job.ctx
<1>1. /\ arm \in Arms /\ job.axis \in Axes /\ job.ctx \in Nat /\ job.chunk \in Nat
      /\ fed \in Nat
  BY ArmFacts DEF SweepTyped
<1>2. RunStep \in Nat \ {0}
  BY <1>1, PlanFacts DEF RunStep, plan
<1>3. ASSUME fed < job.ctx
      PROVE  PrefillStep \in Nat \ {0} /\ fed + PrefillStep <= job.ctx
  <2>1. PICK step : step = IF /\ 0 < job.chunk /\ job.chunk < job.ctx
                              /\ (arm.chunkable \/ ~plan.recorded)
                              /\ (streaming \/ arm.kind = "quant")
                           THEN job.chunk ELSE job.ctx
    OBVIOUS
  <2>2. step \in Nat \ {0}
    BY <1>1, <1>3, <2>1
  <2>3. PrefillStep = IF fed + step <= job.ctx THEN step ELSE job.ctx - fed
    BY <2>1 DEF PrefillStep
  <2>4. QED
    BY <1>1, <1>3, <2>2, <2>3
<1>4. QED
  BY <1>2, <1>3

------------------------------------------------------------------------------
(* What a forward leaves, and that none is refused.                        *)

(* A streaming cache that scores; a faithful arm before its quantization.  *)
Scoring == cache.mode = "score" /\ cache.fp16 # <<>>
Dynamic == arm.kind = "quant_faithful" /\ pc = "prefill"

(* A streaming cache: scoring leaves nothing, else the tokens and a row.   *)
LEMMA StreamUpdate ==
  ASSUME SweepTyped, streaming, NEW n \in Nat
  PROVE  LET u == Update(cache, n)
         IN /\ u \in CacheStates /\ u.t = cache.t /\ u.codes = cache.codes
            /\ u.mode = cache.mode
            /\ Scoring => u = cache
            /\ ~Scoring => /\ u.fp16 = cache.fp16 \o Positions(fed, n)
                           /\ u.diag = IF arm.kind = "bug"
                                       THEN Append(cache.diag, <<at, sample, fed + n>>)
                                       ELSE cache.diag
<1>1. cache \in CacheStates /\ fed \in Nat /\ at \in Nat /\ sample \in Nat
  <2>1. job.arms \in Seq(Arms)
    BY DEF SweepTyped
  <2>2. Len(job.arms) \in Nat
    BY <2>1
  <2>3. QED
    BY <2>2 DEF SweepTyped
<1>2. PICK u : u = Update(cache, n)
  OBVIOUS
<1>3. CASE Scoring
  <2>1. u = cache
    BY <1>2, <1>3 DEF Update, Scoring, streaming, quantized
  <2>2. QED
    BY <1>1, <1>2, <1>3, <2>1
<1>4. CASE ~Scoring
  <2>0. PICK told : told = IF arm.kind = "bug"
                           THEN Append(cache.diag, <<at, sample, fed + n>>) ELSE cache.diag
    OBVIOUS
  <2>1. u = [cache EXCEPT !.fp16 = cache.fp16 \o Positions(fed, n), !.diag = told]
    BY <1>2, <1>4, <2>0 DEF Update, Scoring, streaming, quantized
  <2>2. PICK f \in Seq(Nat) : f = cache.fp16 \o Positions(fed, n)
    <3>1. cache.fp16 \in Seq(Nat) /\ Positions(fed, n) \in Seq(Nat)
      BY <1>1, PositionsFacts DEF CacheStates
    <3>2. PICK g \in Seq(Nat), h \in Seq(Nat) : g = cache.fp16 /\ h = Positions(fed, n)
      BY <3>1
    <3>3. g \o h \in Seq(Nat)
      OBVIOUS
    <3>4. QED
      BY <3>2, <3>3
  <2>3. PICK e \in Seq(Marks) : e = told
    <3>1. fed + n \in Nat
      BY <1>1
    <3>2. <<at, sample, fed + n>> \in Marks
      BY <1>1, <3>1 DEF Marks
    <3>3. cache.diag \in Seq(Marks)
      BY <1>1 DEF CacheStates
    <3>4. PICK d \in Seq(Marks), m \in Marks : d = cache.diag /\ m = <<at, sample, fed + n>>
      BY <3>2, <3>3
    <3>5. Append(d, m) \in Seq(Marks)
      OBVIOUS
    <3>6. told \in Seq(Marks)
      BY <2>0, <3>4, <3>5
    <3>7. QED
      BY <3>6
  <2>4. /\ u \in CacheStates /\ u.t = cache.t /\ u.codes = cache.codes
        /\ u.mode = cache.mode /\ u.fp16 = f /\ u.diag = e
    BY <1>1, <2>1, <2>2, <2>3 DEF CacheStates
  <2>5. QED
    BY <1>2, <1>4, <2>0, <2>2, <2>3, <2>4
<1>5. QED
  BY <1>3, <1>4

(* A plain cache: the tokens on every layer.                               *)
LEMMA PlainUpdate ==
  ASSUME SweepTyped, ~streaming, quantized => Dynamic, NEW n \in Nat
  PROVE  LET u == Update(cache, n)
         IN /\ u \in CacheStates /\ u.t = cache.t /\ u.codes = cache.codes
            /\ u.mode = cache.mode /\ u.diag = cache.diag
            /\ u.fp16 = cache.fp16 \o Positions(fed, n)
            /\ u.top = cache.top \o Positions(fed, n)
<1>1. cache \in CacheStates /\ fed \in Nat
  BY DEF SweepTyped
<1>2. PICK u : u = Update(cache, n)
  OBVIOUS
<1>3. u = [cache EXCEPT !.fp16 = cache.fp16 \o Positions(fed, n),
                        !.top = cache.top \o Positions(fed, n)]
  BY <1>2 DEF Update, Dynamic
<1>4. PICK f \in Seq(Nat), h \in Seq(Nat), p \in Seq(Nat) :
        f = cache.fp16 /\ h = cache.top /\ p = Positions(fed, n)
  BY <1>1, PositionsFacts DEF CacheStates
<1>5. f \o p \in Seq(Nat) /\ h \o p \in Seq(Nat)
  OBVIOUS
<1>6. PICK x \in Seq(Nat), y \in Seq(Nat) : x = f \o p /\ y = h \o p
  BY <1>5
<1>7. /\ u \in CacheStates /\ u.t = cache.t /\ u.codes = cache.codes
      /\ u.mode = cache.mode /\ u.diag = cache.diag /\ u.fp16 = x /\ u.top = y
  BY <1>1, <1>3, <1>4, <1>6 DEF CacheStates
<1>8. QED
  BY <1>2, <1>4, <1>6, <1>7

(* A quantized cache: the tokens after what it held.                       *)
LEMMA StoreUpdate ==
  ASSUME SweepTyped, quantized, ~Dynamic, FoldsWhenFull(cache), NEW n \in Nat \ {0},
         cache.init \/ Whole(cache) = <<>>
  PROVE  LET u == Update(cache, n)
         IN /\ u \in CacheStates /\ u.t <= Len(u.codes)
            /\ u.mode = cache.mode /\ u.diag = cache.diag
            /\ Whole(u) = Whole(cache) \o Positions(fed, n) /\ FoldsWhenFull(u) /\ u.init
            /\ cache.init => u.fp16 = IF cache.fp16 # <<>> /\ Len(cache.fp16) + 1 >= Residual
                                      THEN <<>> ELSE cache.fp16 \o Positions(fed, n)
<1>1. cache \in CacheStates /\ cache.t <= Len(cache.codes) /\ fed \in Nat
  BY DEF SweepTyped
<1>2. PICK new \in Seq(Nat) : new = Positions(fed, n) /\ Len(new) = n
  BY <1>1, PositionsFacts
<1>3. Update(cache, n) = QuantUpdate(cache, new)
  BY <1>2 DEF Update, streaming, quantized, Dynamic
<1>4. new # <<>>
  BY <1>2
<1>5. PICK u : u = QuantUpdate(cache, new)
  OBVIOUS
<1>6. /\ u \in CacheStates /\ u.t <= Len(u.codes) /\ u.init
      /\ Whole(u) = Whole(cache) \o new /\ FoldsWhenFull(u)
      /\ u.mode = cache.mode /\ u.diag = cache.diag
      /\ cache.init => u.fp16 = IF cache.fp16 # <<>> /\ Len(cache.fp16) + 1 >= Residual
                                THEN <<>> ELSE cache.fp16 \o new
  BY <1>1, <1>4, <1>5, QuantUpdateFacts
<1>7. QED
  BY <1>2, <1>3, <1>5, <1>6

(* What was fed so far, and what is fed next.                              *)
LEMMA FedGrows ==
  ASSUME NEW a \in Nat, NEW n \in Nat, fed \in Nat, a <= fed
  PROVE  FedAfter(a) \o Positions(fed, n) = Positions(a, (fed + n) - a)
<1>1. fed - a \in Nat /\ fed = a + (fed - a) /\ (fed - a) + n = (fed + n) - a
  OBVIOUS
<1>2. PICK m \in Nat : m = fed - a
  BY <1>1
<1>3. Positions(a, m) \o Positions(a + m, n) = Positions(a, m + n)
  BY PositionsJoin
<1>4. QED
  BY <1>1, <1>2, <1>3 DEF FedAfter

(* How much of the context an arm drops.                                   *)
LEMMA DroppedFacts ==
  ASSUME SweepTyped
  PROVE  /\ Dropped(arm) \in Nat /\ Dropped(arm) <= job.ctx
         /\ DroppedTop(arm) \in Nat /\ DroppedTop(arm) <= job.ctx
         /\ ~arm.perLayer => DroppedTop(arm) = Dropped(arm)
         /\ arm.kind \notin {"press", "press_quant"} => Dropped(arm) = 0
         /\ arm.kind = "press_quant" => Dropped(arm) = job.ctx - Keep
BY ArmFacts DEF Dropped, DroppedTop

(* The arms that take no chunks take the context in one forward.           *)
LEMMA WholeForward ==
  ASSUME SweepTyped, ~InChunks, fed = 0
  PROVE  PrefillStep = job.ctx
<1>1. /\ arm \in Arms /\ job.axis \in Axes /\ job.ctx \in Nat /\ job.chunk \in Nat
      /\ plan.ingests <=> (plan.recorded => Chunked(arm))
  BY ArmFacts, PlanFacts DEF plan
<1>2. ~ /\ 0 < job.chunk /\ job.chunk < job.ctx
        /\ arm.chunkable \/ ~plan.recorded
        /\ streaming \/ arm.kind = "quant"
  BY <1>1 DEF InChunks, Chunked
<1>3. PrefillStep = IF fed + job.ctx <= job.ctx THEN job.ctx ELSE job.ctx - fed
  BY <1>2 DEF PrefillStep
<1>4. QED
  BY <1>1, <1>3

(* No forward that a driver makes is refused: a streaming prefill that     *)
(* does not ingest is one forward, and no block follows it.                *)
LEMMA NoRefusal ==
  ASSUME SweepTyped, Prefilled, Decoded, Forwarding
  PROVE  ~ForwardRefused(cache, Step)
<1>1. /\ arm \in Arms /\ job.axis \in Axes /\ job.ctx \in Nat /\ arm.kind \in Kinds
      /\ fed \in Nat
      /\ arm.perLayer => arm.kind = "press"
  BY ArmFacts DEF SweepTyped
<1>2. CASE pc = "prefill"
  <2>1. fed < job.ctx /\ Step = PrefillStep
    BY <1>2 DEF Forwarding, Step
  <2>2. CASE streaming
    <3>1. /\ cache.fp16 = FedAfter(0) /\ hooked
          /\ cache.mode = IF plan.ingests THEN "ingest" ELSE "normal"
      BY <1>2, <2>2 DEF Prefilled
    <3>2. CASE plan.ingests
      BY <2>2, <3>1, <3>2 DEF ForwardRefused
    <3>3. CASE ~plan.ingests
      <4>1. ~InChunks
        BY <2>2, <3>3 DEF InChunks, streaming
      <4>2. fed = 0
        BY <1>1, <1>2, <2>1, <4>1 DEF Prefilled
      <4>3. cache.fp16 = <<>>
        BY <3>1, <4>2, PositionsFacts DEF FedAfter
      <4>4. QED
        BY <2>2, <4>3 DEF ForwardRefused
    <3>4. QED
      BY <3>2, <3>3
  <2>3. CASE ~streaming /\ ~quantized
    <3>1. arm.kind \in {"full", "press"}
      BY <1>1, <2>3 DEF streaming, quantized, Kinds
    <3>2. cache.fp16 = FedAfter(0) /\ cache.top = FedAfter(0)
      BY <1>2, <3>1 DEF Prefilled
    <3>3. QED
      BY <2>3, <3>2 DEF ForwardRefused
  <2>4. CASE quantized
    BY <2>4 DEF ForwardRefused, streaming, quantized
  <2>5. QED
    BY <2>2, <2>3, <2>4
<1>3. CASE pc = "run"
  <2>1. fed < job.ctx + plan.after /\ Step = RunStep /\ fed >= job.ctx
    BY <1>3 DEF Forwarding, Step, Decoded
  <2>2. plan.covers
    BY <1>3 DEF SweepTyped, AtSample, Covered
  <2>3. /\ job.axis = "persist" => plan.after = 0
        /\ job.axis # "ppl" /\ (arm.kind \in {"bug", "shadow"} \/ arm.perLayer) => plan.step = 1
        /\ job.axis = "ppl" => ~arm.perLayer
    BY <1>1, <2>2, PlanFacts DEF plan
  <2>4. CASE streaming
    <3>1. job.axis # "persist"
      <4>1. SUFFICES ASSUME job.axis = "persist"
                     PROVE  FALSE
        OBVIOUS
      <4>2. fed < job.ctx + 0
        BY <2>1, <2>3, <4>1, Zenon
      <4>3. QED
        BY <1>1, <2>1, <4>2
    <3>2. hooked /\ cache.mode = IF job.axis = "ppl" THEN "score" ELSE "normal"
      BY <1>3, <2>4, <3>1 DEF Decoded
    <3>3. job.axis # "ppl" => RunStep = 1
      BY <2>3, <2>4 DEF RunStep, streaming
    <3>4. QED
      BY <2>1, <2>4, <3>2, <3>3 DEF ForwardRefused
  <2>5. CASE ~streaming /\ ~quantized
    <3>1. arm.kind \in {"full", "press"}
      BY <1>1, <2>5 DEF streaming, quantized, Kinds
    <3>2. cache.fp16 = FedAfter(Dropped(arm)) /\ cache.top = FedAfter(DroppedTop(arm))
      BY <1>3, <3>1 DEF Decoded
    <3>3. CASE arm.perLayer
      BY <2>1, <2>3, <2>5, <3>3 DEF ForwardRefused, RunStep
    <3>4. CASE ~arm.perLayer
      BY <2>5, <3>2, <3>4, DroppedFacts DEF ForwardRefused
    <3>5. QED
      BY <3>3, <3>4
  <2>6. CASE quantized
    BY <2>6 DEF ForwardRefused, streaming, quantized
  <2>7. QED
    BY <2>4, <2>5, <2>6
<1>4. QED
  BY <1>2, <1>3 DEF Forwarding

------------------------------------------------------------------------------
(* The ends of arms, and what is drained.                                  *)

(* A row with nothing twice in it, and another: one after the other.       *)
LEMMA InjectiveJoin ==
  ASSUME NEW S, NEW s \in Seq(S), NEW t \in Seq(S), IsInjective(s), IsInjective(t),
         ToSet(s) \cap ToSet(t) = {}
  PROVE  /\ s \o t \in Seq(S) /\ IsInjective(s \o t)
         /\ ToSet(s \o t) = ToSet(s) \cup ToSet(t)
<1>1. PICK u \in Seq(S) : u = s \o t /\ Joins(u, s, t)
  BY ConcatFacts
<1>2. /\ Len(s) \in Nat /\ Len(t) \in Nat
      /\ DOMAIN s = 1 .. Len(s) /\ DOMAIN t = 1 .. Len(t) /\ DOMAIN u = 1 .. Len(u)
  OBVIOUS
<1>3. ASSUME NEW i \in 1 .. Len(u)
      PROVE  \/ i \in 1 .. Len(s) /\ u[i] = s[i] /\ u[i] \in ToSet(s)
             \/ /\ i - Len(s) \in 1 .. Len(t) /\ u[i] = t[i - Len(s)]
                /\ u[i] \in ToSet(t)
  <2>1. CASE i <= Len(s)
    <3>1. i \in 1 .. Len(s)
      BY <1>2, <2>1
    <3>2. u[i] = s[i]
      BY <1>1, <3>1 DEF Joins
    <3>3. QED
      BY <1>2, <3>1, <3>2 DEF ToSet
  <2>2. CASE ~(i <= Len(s))
    <3>1. PICK k \in 1 .. Len(t) : i = Len(s) + k
      <4>1. i - Len(s) \in 1 .. Len(t) /\ i = Len(s) + (i - Len(s))
        BY <1>1, <1>2, <2>2 DEF Joins
      <4>2. QED
        BY <4>1
    <3>2. u[i] = t[k]
      BY <1>1, <3>1 DEF Joins
    <3>3. i - Len(s) = k
      BY <1>2, <3>1
    <3>4. QED
      BY <1>2, <3>1, <3>2, <3>3 DEF ToSet
  <2>3. QED
    BY <2>1, <2>2
<1>4. ASSUME NEW i \in 1 .. Len(u), NEW j \in 1 .. Len(u), u[i] = u[j]
      PROVE  i = j
  <2>1. i \in Int /\ j \in Int
    OBVIOUS
  <2>2. CASE i \in 1 .. Len(s) /\ u[i] = s[i] /\ u[i] \in ToSet(s)
    <3>1. j \in 1 .. Len(s) /\ u[j] = s[j]
      BY <1>3, <1>4, <2>2
    <3>2. QED
      BY <1>2, <1>4, <2>2, <3>1 DEF IsInjective
  <2>3. CASE i - Len(s) \in 1 .. Len(t) /\ u[i] = t[i - Len(s)] /\ u[i] \in ToSet(t)
    <3>1. j - Len(s) \in 1 .. Len(t) /\ u[j] = t[j - Len(s)]
      BY <1>3, <1>4, <2>3
    <3>2. i - Len(s) = j - Len(s)
      BY <1>2, <1>4, <2>3, <3>1 DEF IsInjective
    <3>3. QED
      BY <1>2, <2>1, <3>2
  <2>4. QED
    BY <1>3, <2>2, <2>3
<1>5. IsInjective(u)
  BY <1>2, <1>4 DEF IsInjective
<1>6. ToSet(u) \subseteq ToSet(s) \cup ToSet(t)
  BY <1>2, <1>3 DEF ToSet
<1>7. ToSet(s) \subseteq ToSet(u)
  <2>1. \A i \in 1 .. Len(s) : i \in 1 .. Len(u) /\ u[i] = s[i]
    BY <1>1, <1>2 DEF Joins
  <2>2. QED
    BY <1>2, <2>1 DEF ToSet
<1>8. ToSet(t) \subseteq ToSet(u)
  <2>1. \A i \in 1 .. Len(t) : Len(s) + i \in 1 .. Len(u) /\ u[Len(s) + i] = t[i]
    BY <1>1, <1>2 DEF Joins
  <2>2. QED
    BY <1>2, <2>1 DEF ToSet
<1>9. QED
  BY <1>1, <1>5, <1>6, <1>7, <1>8

(* While an arm is under way nothing about it changes.                     *)
LEMMA SameArm ==
  ASSUME UNCHANGED <<job, at>>
  PROVE  /\ arm' = arm /\ plan' = plan /\ streaming' = streaming /\ quantized' = quantized
         /\ InChunks' = InChunks
         /\ Dropped(arm)' = Dropped(arm) /\ DroppedTop(arm)' = DroppedTop(arm)
         /\ Covered' = Covered
<1>1. arm' = arm
  BY DEF arm
<1>2. plan' = plan
  BY <1>1 DEF plan, Plan, PplPlan, RulerPlan, LongbenchPlan, LatencyPlan, PersistPlan,
              KernelCheckPlan, Chunked, Block
<1>3. streaming' = streaming /\ quantized' = quantized
  BY <1>1 DEF streaming, quantized
<1>4. InChunks' = InChunks
  BY <1>1, <1>2, <1>3 DEF InChunks
<1>5. Dropped(arm)' = Dropped(arm) /\ DroppedTop(arm)' = DroppedTop(arm)
  BY <1>1 DEF Dropped, DroppedTop
<1>6. Covered' = Covered
  BY <1>1, <1>2 DEF Covered, Skips
<1>7. QED
  BY <1>1, <1>2, <1>3, <1>4, <1>5, <1>6

(* A fresh cache.                                                          *)
LEMMA FreshFacts ==
  /\ FreshCache \in CacheStates /\ FreshCache.t = 0 /\ FreshCache.codes = <<>>
  /\ FreshCache.fp16 = <<>> /\ FreshCache.top = <<>> /\ FreshCache.diag = <<>>
  /\ FreshCache.init = FALSE /\ FreshCache.fourD = FALSE /\ FreshCache.mode = "normal"
<1>1. PICK e \in Seq(Nat) : e = <<>>
  <2>1. <<>> \in Seq(Nat)
    OBVIOUS
  <2>2. QED
    BY <2>1, Zenon
<1>2. PICK d \in Seq(Marks) : d = <<>>
  <2>1. <<>> \in Seq(Marks)
    OBVIOUS
  <2>2. QED
    BY <2>1, Zenon
<1>3. PICK no \in BOOLEAN : no = FALSE
  OBVIOUS
<1>4. PICK c : c = [init |-> no, codes |-> e, t |-> 0, fp16 |-> e, top |-> e,
                    fourD |-> no, mode |-> "normal", diag |-> d]
  OBVIOUS
<1>5. /\ c \in CacheStates /\ c.t = 0 /\ c.codes = e /\ c.fp16 = e /\ c.top = e /\ c.diag = d
      /\ c.init = no /\ c.fourD = no /\ c.mode = "normal"
  BY <1>4 DEF CacheStates
<1>6. FreshCache = c
  BY <1>1, <1>2, <1>3, <1>4 DEF FreshCache
<1>7. QED
  BY <1>1, <1>2, <1>3, <1>5, <1>6

(* The rows that were drained: each once, of arms at or before this one,   *)
(* and on the axes that drain every row that was produced.                 *)
DrainedRows(e, m) ==
  /\ e \in Seq(Marks) /\ IsInjective(e) /\ ToSet(e) \subseteq m
  /\ \A d \in ToSet(e) : d[1] <= at
  /\ Drains => m \subseteq ToSet(e)

(* The arms some rows are of, and those up to the k-th to be answered.     *)
ArmsOf(told) == {told[i].arm : i \in DOMAIN told}
Answered(k) == {a \in 1 .. k : ~Skips(job.axis, job.arms[a])}

(* An arm behind, with a row of its own or, when it is skipped, none.      *)
LEMMA ArmLeft ==
  ASSUME SweepInv, Cleared, pc # "done", DrainedRows(emitted', made'), crashes' \in Nat,
         at' \in 1 .. Len(job.arms), axisRows' \in Seq(AxisRows), EveryArmAnswers',
         \/ at' = at + 1 /\ pc' = "arm"
         \/ at' = at /\ pc' \in {"done", "dead"}
  PROVE  SweepInv'
<1>1. /\ job' = job /\ sample' = 1 /\ fed' = 0 /\ cache' = FreshCache /\ billed' = NotBilled
      /\ pc' \in {"dead", "done", "arm"} /\ job.arms \in Seq(Arms) /\ at \in 1 .. Len(job.arms)
      /\ job \in [axis : Axes, arms : Seq(Arms), ctx : Contexts, chunk : Chunks]
  BY DEF Cleared, SweepInv, SweepTyped
<1>2. at \in Nat
  <2>1. Len(job.arms) \in Nat
    BY <1>1
  <2>2. QED
    BY <1>1, <2>1
<1>3. NotBilled \in Footprints
  <2>1. PICK e \in SUBSET Nat : e = {}
    OBVIOUS
  <2>2. NotBilled = [sample |-> 0, tokens |-> e, top |-> e, residual |-> 0]
    BY <2>1 DEF NotBilled
  <2>3. QED
    BY <2>2 DEF Footprints
<1>4. SweepTyped'
  BY <1>1, <1>3, FreshFacts DEF SweepTyped, AtSample
<1>5. Prefilled' /\ Decoded'
  BY <1>1 DEF Prefilled, Decoded
<1>6. Footprinted'
  BY <1>1 DEF Footprinted
<1>7. Emitting'
  <2>1. /\ emitted' \in Seq(Marks) /\ IsInjective(emitted') /\ ToSet(emitted') \subseteq made'
        /\ Drains => made' \subseteq ToSet(emitted')
    BY DEF DrainedRows
  <2>2. \A d \in ToSet(emitted') : Behind(d)'
    <3>1. SUFFICES ASSUME NEW d \in ToSet(emitted')
                   PROVE  Behind(d)'
      OBVIOUS
    <3>2. d \in Marks
      <4>1. PICK e \in Seq(Marks) : e = emitted'
        BY <2>1
      <4>2. QED
        BY <4>1, <3>1 DEF ToSet
    <3>3. d[1] \in Nat /\ d[1] <= at
      BY <3>2, <3>1 DEF Marks, DrainedRows
    <3>4. QED
      BY <1>1, <1>2, <3>3 DEF Behind
  <2>3. ~Sampling' /\ Drains' = Drains
    BY <1>1 DEF Sampling, Drains
  <2>4. QED
    BY <1>1, <2>1, <2>2, <2>3 DEF Emitting
<1>8. QED
  BY <1>4, <1>5, <1>6, <1>7 DEF SweepInv

(* The end of an arm.                                                      *)
LEMMA ArmOver ==
  ASSUME SweepInv, NEW status \in {"ok", "refused", "fault"}, EndArm(status),
         pc # "done", ~Skips(job.axis, arm), DrainedRows(emitted', made'), crashes' \in Nat
  PROVE  SweepInv'
<1>1. /\ job' = job /\ Cleared /\ pc' \in {"dead", "done", "arm"}
  BY DEF EndArm, Cleared, NextArm
<1>2. /\ job \in [axis : Axes, arms : Seq(Arms), ctx : Contexts, chunk : Chunks]
      /\ at \in 1 .. Len(job.arms) /\ Len(job.arms) \in Nat
      /\ billed \in Footprints /\ axisRows \in Seq(AxisRows)
  <2>1. job.arms \in Seq(Arms)
    BY DEF SweepInv, SweepTyped
  <2>2. Len(job.arms) \in Nat
    BY <2>1
  <2>3. QED
    BY <2>2 DEF SweepInv, SweepTyped
<1>3. /\ [arm |-> at, status |-> status, footprint |-> billed] \in AxisRows
      /\ AxisRow(status).arm = at /\ AxisRow(status).status = status
  <2>1. at \in Nat
    BY <1>2
  <2>2. QED
    BY <1>2, <2>1 DEF AxisRow, AxisRows
<1>4. PICK row \in AxisRows :
        row = AxisRow(status) /\ row.arm = at /\ row.status = status
  BY <1>3 DEF AxisRow
<1>5. /\ \A i \in DOMAIN axisRows : axisRows[i].status # "error"
      /\ \A i, k \in DOMAIN axisRows : i < k => axisRows[i].arm < axisRows[k].arm
      /\ ArmsOf(axisRows) = Answered(at - 1)
  BY DEF SweepInv, EveryArmAnswers, ArmsOf, Answered
<1>6. PICK earlier \in Seq(AxisRows) : earlier = axisRows
  BY <1>2
<1>7. PICK lines \in Seq(AxisRows) : lines = Append(earlier, row)
  <2>1. Append(earlier, row) \in Seq(AxisRows)
    OBVIOUS
  <2>2. QED
    BY <2>1
<1>8. /\ Len(earlier) \in Nat /\ DOMAIN earlier = 1 .. Len(earlier)
      /\ DOMAIN lines = 1 .. (Len(earlier) + 1)
      /\ \A i \in 1 .. Len(earlier) : lines[i] = earlier[i]
      /\ lines[Len(earlier) + 1] = row
  BY <1>7
<1>9. \A i \in DOMAIN earlier : earlier[i].arm \in Nat /\ earlier[i].arm < at
  <2>1. SUFFICES ASSUME NEW i \in DOMAIN earlier
                 PROVE  earlier[i].arm \in Nat /\ earlier[i].arm < at
    OBVIOUS
  <2>2. earlier[i].arm \in Answered(at - 1)
    BY <1>5, <1>6 DEF ArmsOf
  <2>3. earlier[i].arm \in 1 .. at - 1
    BY <2>2 DEF Answered
  <2>4. QED
    BY <1>2, <2>3
<1>10. /\ \A i \in DOMAIN lines : lines[i].status # "error"
       /\ \A i, k \in DOMAIN lines : i < k => lines[i].arm < lines[k].arm
       /\ ArmsOf(lines) = Answered(at)
  <2>1. \A i \in DOMAIN lines : (i \in DOMAIN earlier /\ lines[i] = earlier[i])
                                 \/ (i = Len(earlier) + 1 /\ lines[i] = row)
    BY <1>8
  <2>2. \A i \in DOMAIN lines : lines[i].status # "error"
    BY <1>4, <1>5, <1>6, <2>1
  <2>3. \A i, k \in DOMAIN lines : i < k => lines[i].arm < lines[k].arm
    <3>1. SUFFICES ASSUME NEW i \in DOMAIN lines, NEW k \in DOMAIN lines, i < k
                   PROVE  lines[i].arm < lines[k].arm
      OBVIOUS
    <3>2. i \in DOMAIN earlier /\ lines[i] = earlier[i]
      BY <1>8, <2>1, <3>1
    <3>3. CASE k \in DOMAIN earlier /\ lines[k] = earlier[k]
      BY <1>5, <1>6, <3>1, <3>2, <3>3
    <3>4. CASE k = Len(earlier) + 1 /\ lines[k] = row
      BY <1>4, <1>9, <3>2, <3>4
    <3>5. QED
      BY <2>1, <3>3, <3>4
  <2>4. ArmsOf(lines) = ArmsOf(earlier) \cup {at}
    <3>1. ArmsOf(lines) \subseteq ArmsOf(earlier) \cup {at}
      BY <1>4, <2>1 DEF ArmsOf
    <3>2. ArmsOf(earlier) \subseteq ArmsOf(lines)
      <4>1. \A i \in DOMAIN earlier : i \in DOMAIN lines /\ lines[i].arm = earlier[i].arm
        BY <1>8
      <4>2. QED
        BY <4>1 DEF ArmsOf
    <3>3. at \in ArmsOf(lines)
      BY <1>4, <1>8 DEF ArmsOf
    <3>4. QED
      BY <3>1, <3>2, <3>3
  <2>5. Answered(at) = Answered(at - 1) \cup {at}
    BY <1>2 DEF Answered, arm
  <2>6. QED
    BY <1>5, <1>6, <2>2, <2>3, <2>4, <2>5
<1>11. /\ at' \in 1 .. Len(job.arms) /\ axisRows' \in Seq(AxisRows) /\ EveryArmAnswers'
       /\ \/ at' = at + 1 /\ pc' = "arm"
          \/ at' = at /\ pc' \in {"done", "dead"}
  <2>1. CASE job.axis = "persist" /\ status # "ok"
    <3>1. pc' = "dead" /\ axisRows' = axisRows /\ at' = at
      BY <2>1 DEF EndArm
    <3>2. EveryArmAnswers'
      BY <1>1, <1>5, <3>1 DEF EveryArmAnswers, ArmsOf, Answered
    <3>3. QED
      BY <1>2, <3>1, <3>2
  <2>2. CASE ~(job.axis = "persist" /\ status # "ok")
    <3>1. /\ axisRows' = lines
          /\ pc' = IF at = Len(job.arms) THEN "done" ELSE "arm"
          /\ at' = IF at = Len(job.arms) THEN at ELSE at + 1
      BY <1>4, <1>6, <1>7, <2>2 DEF EndArm, NextArm, RowsWith
    <3>2. (IF pc' = "done" THEN at' ELSE at' - 1) = at
      BY <1>2, <3>1
    <3>3. EveryArmAnswers'
      BY <1>1, <1>10, <3>1, <3>2 DEF EveryArmAnswers, ArmsOf, Answered
    <3>4. QED
      BY <1>2, <3>1, <3>3
  <2>3. QED
    BY <2>1, <2>2
<1>12. QED
  BY <1>1, <1>11, ArmLeft

(* What a cache leaves is drained behind the lines so far: it is all that  *)
(* was produced and not emitted.                                           *)
LEMMA DrainFacts ==
  ASSUME SweepTyped, Emitting, Sampling, NEW raised \in BOOLEAN,
         NEW diag \in Seq(Marks), NEW f, OwnRows(diag, f), ToSet(cache.diag) \subseteq ToSet(diag),
         Drain(diag, raised), made' = made \cup ToSet(diag)
  PROVE  /\ DrainedRows(emitted', made')
         /\ \A d \in ToSet(emitted') : Behind(d) \/ (d[1] = at /\ d[2] = sample)
<1>1. /\ emitted \in Seq(Marks) /\ IsInjective(emitted) /\ ToSet(emitted) \subseteq made
      /\ \A d \in ToSet(emitted) : Behind(d)
      /\ Drains => made \subseteq ToSet(emitted) \cup ToSet(cache.diag)
      /\ IsInjective(diag) /\ \A d \in ToSet(diag) : d[1] = at /\ d[2] = sample
      /\ arm.kind # "bug" => diag = <<>>
  BY DEF Emitting, OwnRows
<1>2. at \in Nat /\ sample \in Nat
  <2>1. job.arms \in Seq(Arms)
    BY DEF SweepTyped
  <2>2. Len(job.arms) \in Nat
    BY <2>1
  <2>3. QED
    BY <2>2 DEF SweepTyped
<1>3. \A d \in ToSet(emitted) : d[1] \in Nat /\ d[1] <= at
  <2>1. SUFFICES ASSUME NEW d \in ToSet(emitted)
                 PROVE  d[1] \in Nat /\ d[1] <= at
    OBVIOUS
  <2>2. d \in Marks
    <3>1. PICK e \in Seq(Marks) : e = emitted
      BY <1>1
    <3>2. QED
      BY <2>1, <3>1 DEF ToSet
  <2>3. d[1] \in Nat /\ Behind(d)
    BY <1>1, <2>1, <2>2 DEF Marks
  <2>4. QED
    BY <1>2, <2>3 DEF Behind
<1>4. plan.recorded <=> Drains
  BY ArmFacts, PlanFacts DEF plan, Drains
<1>5. CASE plan.recorded /\ arm.kind = "bug"
  <2>1. emitted' = emitted \o diag
    BY <1>5 DEF Drain, Emitted
  <2>2. ToSet(emitted) \cap ToSet(diag) = {}
    <3>1. SUFFICES ASSUME NEW d \in ToSet(emitted), d \in ToSet(diag)
                   PROVE  FALSE
      OBVIOUS
    <3>2. d[1] = at /\ d[2] = sample /\ Behind(d)
      BY <1>1, <3>1
    <3>3. QED
      BY <1>2, <3>2 DEF Behind, Sampling
  <2>3. /\ emitted' \in Seq(Marks) /\ IsInjective(emitted')
        /\ ToSet(emitted') = ToSet(emitted) \cup ToSet(diag)
    BY <1>1, <2>1, <2>2, InjectiveJoin
  <2>4. ToSet(emitted') \subseteq made' /\ (Drains => made' \subseteq ToSet(emitted'))
    BY <1>1, <2>3
  <2>5. \A d \in ToSet(emitted') : d[1] <= at
    BY <1>1, <1>2, <1>3, <2>3
  <2>6. \A d \in ToSet(emitted') : Behind(d) \/ (d[1] = at /\ d[2] = sample)
    BY <1>1, <2>3
  <2>7. QED
    BY <2>3, <2>4, <2>5, <2>6 DEF DrainedRows
<1>6. CASE ~(plan.recorded /\ arm.kind = "bug")
  <2>1. emitted' = emitted
    BY <1>6 DEF Drain
  <2>2. Drains => ToSet(diag) = {}
    BY <1>1, <1>4, <1>6 DEF ToSet
  <2>3. Drains => made' \subseteq ToSet(emitted)
    BY <1>1, <2>2
  <2>4. QED
    BY <1>1, <1>3, <2>1, <2>3 DEF DrainedRows
<1>7. QED
  BY <1>5, <1>6

(* The rows so far are of this arm or of one before.                       *)
LEMMA RowsSoFar ==
  ASSUME SweepTyped, Emitting
  PROVE  at \in Nat /\ (~Sampling => DrainedRows(emitted, made))
<1>1. at \in Nat
  <2>1. job.arms \in Seq(Arms)
    BY DEF SweepTyped
  <2>2. Len(job.arms) \in Nat
    BY <2>1
  <2>3. QED
    BY <2>2 DEF SweepTyped
<1>2. \A d \in ToSet(emitted) : d[1] <= at
  <2>1. SUFFICES ASSUME NEW d \in ToSet(emitted)
                 PROVE  d[1] <= at
    OBVIOUS
  <2>2. d \in Marks
    <3>1. PICK e \in Seq(Marks) : e = emitted
      BY DEF Emitting
    <3>2. QED
      BY <3>1, <2>1 DEF ToSet
  <2>3. d[1] \in Nat /\ Behind(d)
    BY <2>1, <2>2 DEF Marks, Emitting
  <2>4. QED
    BY <1>1, <2>3 DEF Behind
<1>3. QED
  BY <1>1, <1>2 DEF DrainedRows, Emitting

------------------------------------------------------------------------------
(* The steps that preserve the invariant.                                  *)

(* Rows of one sample, up to a token.                                      *)
MarksUpTo(s, a, b, f) == \A d \in ToSet(s) : d[1] = a /\ d[2] = b /\ d[3] <= f

(* A row that is later than all of a cache's is new.                       *)
LEMMA AppendMark ==
  ASSUME NEW s \in Seq(Marks), IsInjective(s), NEW a \in Nat, NEW b \in Nat, NEW f \in Nat,
         MarksUpTo(s, a, b, f), NEW g \in Nat, f < g
  PROVE  IsInjective(Append(s, <<a, b, g>>)) /\ MarksUpTo(Append(s, <<a, b, g>>), a, b, g)
<1>1. PICK m \in Marks : m = <<a, b, g>> /\ m[1] = a /\ m[2] = b /\ m[3] = g
  <2>1. <<a, b, g>> \in Marks
    BY DEF Marks
  <2>2. PICK m \in Marks : m = <<a, b, g>>
    BY <2>1
  <2>3. QED
    BY <2>2
<1>2. PICK u \in Seq(Marks) : u = Append(s, m)
  <2>1. Append(s, m) \in Seq(Marks)
    OBVIOUS
  <2>2. QED
    BY <2>1
<1>3. /\ Len(s) \in Nat /\ DOMAIN s = 1 .. Len(s) /\ DOMAIN u = 1 .. Len(s) + 1
      /\ \A i \in 1 .. Len(s) : u[i] = s[i]
  BY <1>2
<1>4. u[Len(s) + 1] = m
  BY <1>2, <1>3
<1>5. \A i \in 1 .. Len(s) : s[i] \in Marks /\ s[i] \in ToSet(s) /\ s[i][3] \in Nat
  <2>1. \A i \in 1 .. Len(s) : s[i] \in Marks
    OBVIOUS
  <2>2. \A d \in Marks : d[3] \in Nat
    BY DEF Marks
  <2>3. QED
    BY <1>3, <2>1, <2>2 DEF ToSet
<1>6. \A i \in 1 .. Len(s) : s[i] # m
  <2>1. SUFFICES ASSUME NEW i \in 1 .. Len(s), s[i] = m
                 PROVE  FALSE
    OBVIOUS
  <2>2. s[i][3] <= f /\ s[i][3] = g
    BY <1>1, <1>5, <2>1 DEF MarksUpTo
  <2>3. QED
    BY <2>2
<1>7. IsInjective(u)
  <2>1. SUFFICES ASSUME NEW i \in 1 .. Len(s) + 1, NEW j \in 1 .. Len(s) + 1, u[i] = u[j]
                 PROVE  i = j
    BY <1>3 DEF IsInjective
  <2>2. CASE i = Len(s) + 1 \/ j = Len(s) + 1
    <3>1. ~(i \in 1 .. Len(s)) \/ u[i] # m
      BY <1>3, <1>6
    <3>2. ~(j \in 1 .. Len(s)) \/ u[j] # m
      BY <1>3, <1>6
    <3>3. QED
      BY <1>3, <1>4, <2>1, <2>2, <3>1, <3>2
  <2>3. CASE i # Len(s) + 1 /\ j # Len(s) + 1
    <3>1. i \in 1 .. Len(s) /\ j \in 1 .. Len(s)
      BY <1>3, <2>3
    <3>2. s[i] = s[j]
      BY <1>3, <2>1, <3>1
    <3>3. QED
      BY <1>3, <3>1, <3>2 DEF IsInjective
  <2>4. QED
    BY <2>2, <2>3
<1>8. \A d \in ToSet(u) : d[1] = a /\ d[2] = b /\ d[3] <= g
  <2>1. SUFFICES ASSUME NEW i \in 1 .. Len(s) + 1
                 PROVE  u[i][1] = a /\ u[i][2] = b /\ u[i][3] <= g
    BY <1>3 DEF ToSet
  <2>2. CASE i = Len(s) + 1
    BY <1>1, <1>4, <2>2
  <2>3. CASE i # Len(s) + 1
    <3>1. i \in 1 .. Len(s)
      BY <1>3, <2>3
    <3>2. s[i][1] = a /\ s[i][2] = b /\ s[i][3] <= f /\ s[i][3] \in Nat
      BY <1>5, <3>1 DEF MarksUpTo
    <3>3. QED
      BY <1>3, <3>1, <3>2
  <2>4. QED
    BY <2>2, <2>3
<1>9. QED
  BY <1>1, <1>2, <1>7, <1>8 DEF MarksUpTo

(* When a quantized cache is updated, it holds only what it holds once.    *)
LEMMA StoreReady ==
  ASSUME SweepTyped, Prefilled, Decoded, pc \in {"prefill", "run"}, quantized, ~Dynamic
  PROVE  FoldsWhenFull(cache) /\ (cache.init \/ Whole(cache) = <<>>)
<1>1. fed \in Nat /\ ~streaming
  BY DEF SweepTyped, streaming, quantized
<1>2. CASE pc = "run"
  BY <1>2 DEF Decoded
<1>3. CASE pc = "prefill"
  <2>1. arm.kind \in {"quant", "press_quant"}
    BY <1>3 DEF quantized, Dynamic
  <2>2. Whole(cache) = FedAfter(0) /\ FoldsWhenFull(cache) /\ (cache.init <=> fed > 0)
    BY <1>3, <2>1 DEF Prefilled
  <2>3. CASE fed = 0
    BY <2>2, <2>3, PositionsFacts DEF FedAfter
  <2>4. CASE fed # 0
    BY <1>1, <2>2, <2>4
  <2>5. QED
    BY <2>3, <2>4
<1>4. QED
  BY <1>2, <1>3

(* What a forward leaves is a cache, with the rows of this sample.         *)
LEMMA ForwardLeaves ==
  ASSUME SweepTyped, Prefilled, Decoded, Emitting, pc \in {"prefill", "run"},
         NEW n \in Nat \ {0}
  PROVE  LET u == Update(cache, n)
         IN /\ u \in CacheStates /\ u.t <= Len(u.codes) /\ u.mode = cache.mode
            /\ OwnRows(u.diag, fed + n) /\ ToSet(cache.diag) \subseteq ToSet(u.diag)
<1>1. /\ cache \in CacheStates /\ cache.t <= Len(cache.codes) /\ fed \in Nat /\ at \in Nat
      /\ sample \in Nat /\ cache.diag \in Seq(Marks)
  BY RowsSoFar DEF SweepTyped, CacheStates
<1>2. /\ IsInjective(cache.diag)
      /\ \A d \in ToSet(cache.diag) : d[1] = at /\ d[2] = sample /\ d[3] <= fed
      /\ arm.kind # "bug" => cache.diag = <<>>
  BY DEF Emitting, Sampling, OwnRows
<1>3. \A d \in ToSet(cache.diag) : d[1] = at /\ d[2] = sample /\ d[3] <= fed + n
  <2>1. SUFFICES ASSUME NEW d \in ToSet(cache.diag)
                 PROVE  d[3] <= fed + n
    BY <1>2
  <2>2. d \in Marks
    <3>1. PICK q \in Seq(Marks) : q = cache.diag
      BY <1>1
    <3>2. QED
      BY <3>1, <2>1 DEF ToSet
  <2>3. d[3] \in Nat /\ d[3] <= fed
    BY <1>2, <2>1, <2>2 DEF Marks
  <2>4. QED
    BY <1>1, <2>3
<1>4. PICK u : u = Update(cache, n)
  OBVIOUS
<1>5. CASE streaming
  <2>1. /\ u \in CacheStates /\ u.t = cache.t /\ u.codes = cache.codes /\ u.mode = cache.mode
        /\ Scoring => u = cache
        /\ ~Scoring => u.diag = IF arm.kind = "bug"
                                THEN Append(cache.diag, <<at, sample, fed + n>>)
                                ELSE cache.diag
    BY <1>4, <1>5, StreamUpdate
  <2>2. CASE Scoring \/ arm.kind # "bug"
    <3>1. u.diag = cache.diag
      BY <2>1, <2>2
    <3>2. QED
      BY <1>1, <1>2, <1>3, <1>4, <2>1, <3>1 DEF OwnRows
  <2>3. CASE ~(Scoring \/ arm.kind # "bug")
    <3>1. PICK q \in Seq(Marks), a \in Nat, b \in Nat, f \in Nat, g \in Nat :
            q = cache.diag /\ a = at /\ b = sample /\ f = fed /\ g = fed + n /\ f < g
      <4>1. fed + n \in Nat /\ fed < fed + n
        BY <1>1
      <4>2. QED
        BY <1>1, <4>1
    <3>2. PICK v : v = Append(q, <<a, b, g>>)
      OBVIOUS
    <3>3. IsInjective(v) /\ \A d \in ToSet(v) : d[1] = a /\ d[2] = b /\ d[3] <= g
      <4>1. IsInjective(q) /\ MarksUpTo(q, a, b, f)
        BY <1>2, <3>1 DEF MarksUpTo
      <4>2. IsInjective(v) /\ MarksUpTo(v, a, b, g)
        BY <3>1, <3>2, <4>1, AppendMark
      <4>3. QED
        BY <4>2 DEF MarksUpTo
    <3>4. u.diag = v
      BY <2>1, <2>3, <3>1, <3>2
    <3>5. ToSet(q) \subseteq ToSet(v)
      <4>1. /\ DOMAIN q = 1 .. Len(q) /\ Len(q) \in Nat /\ DOMAIN v = 1 .. (Len(q) + 1)
            /\ \A i \in 1 .. Len(q) : v[i] = q[i]
        BY <3>2
      <4>2. QED
        BY <4>1 DEF ToSet
    <3>6. OwnRows(u.diag, fed + n) /\ ToSet(cache.diag) \subseteq ToSet(u.diag)
      BY <2>3, <3>1, <3>3, <3>4, <3>5 DEF OwnRows
    <3>7. QED
      BY <1>1, <1>4, <2>1, <3>6
  <2>4. QED
    BY <2>2, <2>3
<1>6. CASE ~streaming /\ (quantized => Dynamic)
  <2>1. /\ u \in CacheStates /\ u.t = cache.t /\ u.codes = cache.codes /\ u.mode = cache.mode
        /\ u.diag = cache.diag
    BY <1>4, <1>6, PlainUpdate
  <2>2. QED
    BY <1>1, <1>2, <1>3, <1>4, <2>1 DEF OwnRows
<1>7. CASE quantized /\ ~Dynamic
  <2>1. FoldsWhenFull(cache) /\ (cache.init \/ Whole(cache) = <<>>)
    BY <1>7, StoreReady
  <2>2. /\ u \in CacheStates /\ u.t <= Len(u.codes) /\ u.mode = cache.mode
        /\ u.diag = cache.diag
    BY <1>4, <1>7, <2>1, StoreUpdate
  <2>3. QED
    BY <1>2, <1>3, <1>4, <2>2 DEF OwnRows
<1>8. QED
  BY <1>5, <1>6, <1>7

(* The arms that end by an exception, at once or with a sample under way.  *)
LEMMA RefuseArmKeeps ==
  ASSUME SweepInv, RefuseArm
  PROVE  SweepInv'
<1>1. DrainedRows(emitted, made) /\ crashes \in Nat /\ ~Skips(job.axis, arm)
  BY RowsSoFar DEF SweepInv, SweepTyped, Sampling, RefuseArm
<1>2. DrainedRows(emitted', made') /\ crashes' \in Nat
  BY <1>1 DEF RefuseArm
<1>3. QED
  BY <1>1, <1>2, ArmOver DEF RefuseArm

(* An arm that is skipped leaves no row.                                   *)
LEMMA SkipArmKeeps ==
  ASSUME SweepInv, SkipArm
  PROVE  SweepInv'
<1>1. /\ DrainedRows(emitted, made) /\ crashes \in Nat /\ pc = "arm" /\ Cleared
      /\ Skips(job.axis, job.arms[at]) /\ EveryArmAnswers
      /\ at \in 1 .. Len(job.arms) /\ axisRows \in Seq(AxisRows) /\ job.arms \in Seq(Arms)
      /\ UNCHANGED <<job, axisRows, emitted, made, crashes>>
      /\ pc' = IF at = Len(job.arms) THEN "done" ELSE "arm"
      /\ at' = IF at = Len(job.arms) THEN at ELSE at + 1
  BY RowsSoFar DEF SweepInv, SweepTyped, Sampling, SkipArm, NextArm, Cleared, arm
<1>2. Len(job.arms) \in Nat /\ at \in Nat
  <2>1. Len(job.arms) \in Nat
    BY <1>1
  <2>2. QED
    BY <1>1, <2>1
<1>3. Answered(at) = Answered(at - 1)
  BY <1>1, <1>2 DEF Answered
<1>4. (IF pc' = "done" THEN at' ELSE at' - 1) = at
  BY <1>1, <1>2
<1>5. EveryArmAnswers'
  BY <1>1, <1>3, <1>4 DEF EveryArmAnswers, Answered
<1>6. QED
  BY <1>1, <1>2, <1>5, ArmLeft

(* An arm whose samples are over.                                          *)
LEMMA FinishArmKeeps ==
  ASSUME SweepInv, FinishArm
  PROVE  SweepInv'
<1>1. DrainedRows(emitted, made) /\ crashes \in Nat /\ ~Skips(job.axis, arm)
  BY RowsSoFar DEF SweepInv, SweepTyped, Sampling, AtSample, Covered, FinishArm
<1>2. DrainedRows(emitted', made') /\ crashes' \in Nat
  BY <1>1 DEF FinishArm
<1>3. QED
  BY <1>1, <1>2, ArmOver DEF FinishArm

(* A forward fails only by an outside fault, and its cache is drained.     *)
LEMMA ForwardFailsKeeps ==
  ASSUME SweepInv, ForwardFails
  PROVE  SweepInv'
<1>1. /\ SweepTyped /\ Prefilled /\ Decoded /\ Emitting /\ Forwarding
      /\ ~ForwardRefused(cache, Step) /\ pc \in {"prefill", "run"} /\ Sampling
      /\ ~Skips(job.axis, arm) /\ cache \in CacheStates
  <2>1. SweepTyped /\ Prefilled /\ Decoded /\ Emitting /\ Forwarding
    BY DEF SweepInv, ForwardFails
  <2>2. QED
    BY <2>1, NoRefusal DEF Forwarding, Sampling, SweepTyped, AtSample, Covered
<1>2. /\ EndArm("fault") /\ crashes' = crashes + 1 /\ crashes \in Nat
      /\ \E left \in {cache, Update(cache, Step)} : Produced(left) /\ Drain(left.diag, TRUE)
  BY <1>1 DEF ForwardFails, SweepTyped
<1>3. Step \in Nat \ {0}
  BY <1>1, StepFacts DEF Step, Forwarding
<1>4. PICK n \in Nat \ {0} : n = Step
  BY <1>3
<1>5. PICK u : u = Update(cache, n)
  OBVIOUS
<1>6. u \in CacheStates /\ OwnRows(u.diag, fed + n) /\ ToSet(cache.diag) \subseteq ToSet(u.diag)
  BY <1>1, <1>5, ForwardLeaves
<1>7. PICK left \in {cache, u} : Produced(left) /\ Drain(left.diag, TRUE)
  BY <1>2, <1>4, <1>5
<1>8. /\ left.diag \in Seq(Marks) /\ ToSet(cache.diag) \subseteq ToSet(left.diag)
      /\ OwnRows(left.diag, fed) \/ OwnRows(left.diag, fed + n)
  BY <1>1, <1>6, <1>7 DEF CacheStates, Emitting
<1>9. PICK q \in Seq(Marks), f \in {fed, fed + n} : q = left.diag /\ OwnRows(q, f)
  BY <1>8
<1>10. Drain(q, TRUE) /\ made' = made \cup ToSet(q)
  BY <1>7, <1>9 DEF Produced, Range, ToSet
<1>11. DrainedRows(emitted', made')
  BY <1>1, <1>8, <1>9, <1>10, DrainFacts
<1>12. crashes' \in Nat /\ pc # "done"
  BY <1>1, <1>2
<1>13. QED
  BY <1>1, <1>2, <1>11, <1>12, ArmOver

------------------------------------------------------------------------------
(* The steps of a sample.                                                  *)

(* A step within an arm leaves its rows alone.                             *)
LEMMA RowsKept ==
  ASSUME EveryArmAnswers, UNCHANGED <<job, at, axisRows>>, pc # "done", pc' # "done"
  PROVE  EveryArmAnswers'
BY DEF EveryArmAnswers

(* A step that emits nothing leaves what was emitted behind it.            *)
LEMMA EmittedKept ==
  ASSUME SweepTyped, Emitting, UNCHANGED <<job, at, sample, emitted>>,
         pc = "arm" \/ Sampling, Sampling', OwnRows(cache'.diag, fed'),
         Sampling => ToSet(cache.diag) \subseteq ToSet(cache'.diag),
         made' = made \cup ToSet(cache'.diag)
  PROVE  Emitting'
<1>1. \A d \in ToSet(emitted) : Behind(d)'
  BY DEF Emitting, Behind, Sampling
<1>2. Drains' = Drains
  BY DEF Drains
<1>3. OwnRows(cache.diag, fed)'
  BY DEF OwnRows, arm
<1>4. Drains => made \subseteq ToSet(emitted) \cup ToSet(cache'.diag)
  BY DEF Emitting
<1>5. ToSet(emitted) \subseteq made' /\ ToSet(cache'.diag) \subseteq made'
  BY DEF Emitting
<1>6. Drains => made' \subseteq ToSet(emitted) \cup ToSet(cache'.diag)
  BY <1>4
<1>7. QED
  BY <1>1, <1>2, <1>3, <1>5, <1>6 DEF Emitting

(* So does one that leaves the cache's rows alone.                         *)
LEMMA RowsHeld ==
  ASSUME SweepTyped, Emitting, UNCHANGED <<job, at, sample, emitted, made, fed>>,
         Sampling, Sampling', cache'.diag = cache.diag
  PROVE  Emitting'
<1>1. OwnRows(cache'.diag, fed') /\ ToSet(cache'.diag) \subseteq made
  BY DEF Emitting
<1>2. made' = made \cup ToSet(cache'.diag)
  BY <1>1
<1>3. QED
  BY <1>1, <1>2, EmittedKept

(* A sample starts with nothing held and its scope open.                   *)
LEMMA StartSampleKeeps ==
  ASSUME SweepInv, StartSample
  PROVE  SweepInv'
<1>1. /\ SweepTyped /\ Emitting /\ EveryArmAnswers /\ Footprinted
      /\ UNCHANGED <<job, at, sample, billed, axisRows, emitted, made, crashes>>
      /\ pc = "arm" /\ pc' = "prefill" /\ fed' = 0 /\ Covered
  BY DEF SweepInv, StartSample, Covered
<1>2. /\ arm' = arm /\ plan' = plan /\ Covered' = Covered
      /\ streaming' = streaming /\ quantized' = quantized
      /\ InChunks' = InChunks
      /\ Dropped(arm)' = Dropped(arm) /\ DroppedTop(arm)' = DroppedTop(arm)
  BY <1>1, SameArm
<1>3. job.ctx \in Nat /\ job.axis \in Axes
  BY <1>1, ArmFacts
<1>4. PICK m \in {"normal", "ingest", "score"} :
        m = IF streaming /\ plan.ingests THEN "ingest" ELSE "normal"
  OBVIOUS
<1>5. cache' = [FreshCache EXCEPT !.mode = m]
  BY <1>4 DEF StartSample
<1>6. /\ cache' \in CacheStates /\ cache'.t = 0 /\ cache'.codes = <<>> /\ cache'.fp16 = <<>>
      /\ cache'.top = <<>> /\ cache'.diag = <<>> /\ cache'.init = FALSE
      /\ cache'.fourD = FALSE /\ cache'.mode = m
  <2>1. PICK c \in CacheStates : c = FreshCache
    BY FreshFacts
  <2>2. cache' = [c EXCEPT !.mode = m]
    BY <1>5, <2>1
  <2>3. /\ cache' \in CacheStates /\ cache'.t = c.t /\ cache'.codes = c.codes
        /\ cache'.fp16 = c.fp16 /\ cache'.top = c.top /\ cache'.diag = c.diag
        /\ cache'.init = c.init /\ cache'.fourD = c.fourD /\ cache'.mode = m
    BY <2>2 DEF CacheStates
  <2>4. QED
    BY <2>1, <2>3, FreshFacts
<1>7. SweepTyped'
  <2>1. cache'.t <= Len(cache'.codes)
    BY <1>6
  <2>2. job' \in [axis : Axes, arms : Seq(Arms), ctx : Contexts, chunk : Chunks]
        /\ at' \in 1 .. Len(job'.arms) /\ sample' \in Nat \ {0} /\ fed' \in Nat
    BY <1>1 DEF SweepTyped
  <2>3. billed' \in Footprints /\ axisRows' \in Seq(AxisRows) /\ crashes' \in Nat
    BY <1>1 DEF SweepTyped
  <2>4. pc' \in AtSample /\ Covered'
    BY <1>1, <1>2 DEF AtSample
  <2>5. QED
    BY <1>6, <2>1, <2>2, <2>3, <2>4 DEF SweepTyped
<1>8. Prefilled'
  <2>1. FedAfter(0)' = <<>>
    <3>1. FedAfter(0)' = Positions(0, 0 - 0)
      BY <1>1 DEF FedAfter, Positions
    <3>2. QED
      BY <3>1, PositionsFacts
  <2>2. Whole(cache)' = <<>>
    <3>1. PICK c \in CacheStates : c = cache'
      BY <1>6
    <3>2. Dequantize(c) = <<>>
      BY <1>6, <3>1 DEF Dequantize
    <3>3. Whole(c) = <<>>
      BY <1>6, <3>1, <3>2, WholeFacts
    <3>4. QED
      BY <3>1, <3>3 DEF Whole, Dequantize
  <2>3. FoldsWhenFull(cache)'
    BY <1>6 DEF FoldsWhenFull
  <2>4. job.axis \in {"ppl", "ruler", "longbench", "latency", "persist", "kernel_check"}
    BY <1>3, SweepAssumption
  <2>5. streaming => hooked'
    BY <2>4 DEF StartSample, Attached
  <2>6. QED
    BY <1>1, <1>2, <1>3, <1>4, <1>6, <2>1, <2>2, <2>3, <2>5 DEF Prefilled
<1>9. Decoded'
  BY <1>1 DEF Decoded
<1>10. Footprinted'
  <2>1. billed # NotBilled =>
          /\ billed'.tokens = (Dropped(arm)' + 1) .. job'.ctx
          /\ billed'.top = (DroppedTop(arm)' + 1) .. job'.ctx
          /\ arm'.kind = "quant_faithful" /\ Residual > 0 =>
               billed'.residual = job'.ctx % Residual
    BY <1>1, <1>2 DEF Footprinted
  <2>2. NotBilled' = NotBilled
    BY DEF NotBilled
  <2>3. QED
    BY <1>1, <2>1, <2>2 DEF Footprinted
<1>11. Emitting'
  <2>1. ToSet(cache'.diag) = {} /\ OwnRows(cache'.diag, fed')
    BY <1>6 DEF OwnRows, IsInjective, ToSet
  <2>2. ~Sampling /\ Sampling' /\ made' = made \cup ToSet(cache'.diag)
    BY <1>1, <2>1 DEF Sampling
  <2>3. QED
    BY <1>1, <2>1, <2>2, EmittedKept
<1>12. QED
  BY <1>1, <1>7, <1>8, <1>9, <1>10, <1>11, RowsKept DEF SweepInv

(* The next sample starts over.                                            *)
LEMMA NextSampleKeeps ==
  ASSUME SweepInv, NextSample
  PROVE  SweepInv'
<1>1. /\ SweepTyped /\ Emitting /\ EveryArmAnswers /\ Footprinted
      /\ UNCHANGED <<job, at, billed, axisRows, emitted, made, crashes>>
      /\ pc = "next" /\ pc' = "arm" /\ fed' = 0 /\ cache' = FreshCache
      /\ sample' = sample + 1
  BY DEF SweepInv, NextSample
<1>2. /\ arm' = arm /\ plan' = plan /\ Covered' = Covered /\ Dropped(arm)' = Dropped(arm)
      /\ DroppedTop(arm)' = DroppedTop(arm) /\ NotBilled' = NotBilled
  BY <1>1, SameArm DEF NotBilled
<1>3. SweepTyped'
  <2>1. cache'.t <= Len(cache'.codes) /\ cache' \in CacheStates
    BY <1>1, FreshFacts
  <2>2. job' \in [axis : Axes, arms : Seq(Arms), ctx : Contexts, chunk : Chunks]
        /\ at' \in 1 .. Len(job'.arms) /\ sample' \in Nat \ {0} /\ fed' \in Nat
    BY <1>1 DEF SweepTyped
  <2>3. billed' \in Footprints /\ axisRows' \in Seq(AxisRows) /\ crashes' \in Nat
    BY <1>1 DEF SweepTyped
  <2>4. QED
    BY <1>1, <2>1, <2>2, <2>3 DEF SweepTyped, AtSample
<1>4. Prefilled' /\ Decoded'
  BY <1>1 DEF Prefilled, Decoded
<1>5. Footprinted'
  <2>1. billed # NotBilled =>
          /\ billed'.tokens = (Dropped(arm)' + 1) .. job'.ctx
          /\ billed'.top = (DroppedTop(arm)' + 1) .. job'.ctx
          /\ arm'.kind = "quant_faithful" /\ Residual > 0 =>
               billed'.residual = job'.ctx % Residual
    BY <1>1, <1>2 DEF Footprinted
  <2>2. QED
    BY <1>1, <1>2, <2>1 DEF Footprinted
<1>6. Emitting'
  <2>1. \A d \in ToSet(emitted) : Behind(d)'
    <3>1. SUFFICES ASSUME NEW d \in ToSet(emitted)
                   PROVE  Behind(d)'
      OBVIOUS
    <3>2. Behind(d) /\ sample \in Nat
      BY <1>1 DEF Emitting, SweepTyped
    <3>3. CASE d[1] < at
      BY <1>1, <3>3 DEF Behind
    <3>4. CASE d[1] = at /\ d[2] < sample
      <4>1. d \in Marks
        <5>1. PICK e \in Seq(Marks) : e = emitted
          BY <1>1 DEF Emitting
        <5>2. QED
          BY <5>1, <3>1 DEF ToSet
      <4>2. d[2] \in Nat
        BY <4>1 DEF Marks
      <4>3. d[2] < sample + 1
        BY <3>2, <3>4, <4>2
      <4>4. QED
        BY <1>1, <3>4, <4>3 DEF Behind
    <3>5. CASE d[1] = at /\ d[2] = sample
      <4>1. d[2] < sample + 1
        BY <3>2, <3>5
      <4>2. QED
        BY <1>1, <3>5, <4>1 DEF Behind
    <3>6. QED
      BY <1>1, <3>2, <3>3, <3>4, <3>5 DEF Behind
  <2>2. ~Sampling /\ ~Sampling' /\ Drains' = Drains
    BY <1>1 DEF Sampling, Drains
  <2>3. QED
    BY <1>1, <2>1, <2>2 DEF Emitting
<1>7. QED
  BY <1>1, <1>3, <1>4, <1>5, <1>6, RowsKept DEF SweepInv

------------------------------------------------------------------------------
(* The forwards of a sample.                                               *)

(* What a forward that was not refused leaves alone.                       *)
Forwards(n) ==
  /\ cache' = Update(cache, n) /\ fed' = fed + n /\ pc \in {"prefill", "run"}
  /\ Produced(cache')
  /\ UNCHANGED <<job, pc, at, sample, hooked, billed, axisRows, emitted, crashes>>

(* The shape, the bill, the rows and the diagnostics after a forward.      *)
LEMMA ForwardShape ==
  ASSUME SweepInv, NEW n \in Nat \ {0}, Forwards(n)
  PROVE  /\ SweepTyped' /\ Footprinted' /\ Emitting' /\ EveryArmAnswers'
         /\ cache'.mode = cache.mode
<1>1. /\ SweepTyped /\ Prefilled /\ Decoded /\ Emitting /\ EveryArmAnswers /\ Footprinted
      /\ UNCHANGED <<job, pc, at, sample, hooked, billed, axisRows, emitted, crashes>>
      /\ pc \in {"prefill", "run"} /\ cache' = Update(cache, n) /\ fed' = fed + n
  BY DEF SweepInv, Forwards
<1>2. /\ arm' = arm /\ plan' = plan /\ Covered' = Covered
      /\ Dropped(arm)' = Dropped(arm) /\ DroppedTop(arm)' = DroppedTop(arm)
      /\ NotBilled' = NotBilled
  BY <1>1, SameArm DEF NotBilled
<1>3. /\ cache' \in CacheStates /\ cache'.t <= Len(cache'.codes) /\ cache'.mode = cache.mode
      /\ OwnRows(cache'.diag, fed') /\ ToSet(cache.diag) \subseteq ToSet(cache'.diag)
  BY <1>1, ForwardLeaves
<1>4. SweepTyped'
  <2>1. /\ job' \in [axis : Axes, arms : Seq(Arms), ctx : Contexts, chunk : Chunks]
        /\ at' \in 1 .. Len(job'.arms) /\ sample' \in Nat \ {0} /\ fed' \in Nat
    BY <1>1 DEF SweepTyped
  <2>2. billed' \in Footprints /\ axisRows' \in Seq(AxisRows) /\ crashes' \in Nat
    BY <1>1 DEF SweepTyped
  <2>3. pc' \in AtSample /\ Covered'
    BY <1>1, <1>2 DEF SweepTyped, AtSample
  <2>4. QED
    BY <1>3, <2>1, <2>2, <2>3 DEF SweepTyped
<1>5. Footprinted'
  <2>1. billed # NotBilled =>
          /\ billed'.tokens = (Dropped(arm)' + 1) .. job'.ctx
          /\ billed'.top = (DroppedTop(arm)' + 1) .. job'.ctx
          /\ arm'.kind = "quant_faithful" /\ Residual > 0 =>
               billed'.residual = job'.ctx % Residual
    BY <1>1, <1>2 DEF Footprinted
  <2>2. pc' \in {"run", "next"} /\ plan'.recorded /\ arm'.kind \in BilledFirst(job'.axis) =>
          billed' # NotBilled
    BY <1>1, <1>2 DEF Footprinted
  <2>3. BilledFirst(job.axis)' = BilledFirst(job'.axis)
    BY DEF BilledFirst
  <2>4. QED
    BY <1>1, <1>2, <2>1, <2>2, <2>3 DEF Footprinted
<1>6. Emitting'
  <2>1. Sampling /\ Sampling' /\ made' = made \cup ToSet(cache'.diag)
    BY <1>1 DEF Forwards, Sampling, Produced, Range, ToSet
  <2>2. QED
    BY <1>1, <1>3, <2>1, EmittedKept
<1>7. QED
  BY <1>1, <1>3, <1>4, <1>5, <1>6, RowsKept

(* The positions fed so far, after a step.                                 *)
LEMMA FedPrimed ==
  ASSUME NEW a \in Nat, NEW n \in Nat, fed \in Nat, fed' = fed + n, a <= fed
  PROVE  FedAfter(a)' = FedAfter(a) \o Positions(fed, n)
<1>1. FedAfter(a) \o Positions(fed, n) = Positions(a, (fed + n) - a)
  BY FedGrows
<1>2. FedAfter(a)' = Positions(a, fed' - a)
  BY DEF FedAfter, Positions
<1>3. QED
  BY <1>1, <1>2

(* A forward of the prefill.                                               *)
LEMMA PrefillForwardKeeps ==
  ASSUME SweepInv, PrefillForward
  PROVE  SweepInv'
<1>1. /\ SweepTyped /\ Prefilled /\ Decoded /\ fed < job.ctx /\ pc = "prefill"
      /\ cache' = Update(cache, PrefillStep) /\ fed' = fed + PrefillStep /\ Produced(cache')
      /\ UNCHANGED <<job, pc, at, sample, hooked, billed, axisRows, emitted, crashes>>
  BY DEF SweepInv, PrefillForward
<1>2. PICK n \in Nat \ {0} : n = PrefillStep /\ fed + n <= job.ctx
  BY <1>1, StepFacts
<1>3. Forwards(n) /\ cache' = Update(cache, n) /\ fed' = fed + n
  BY <1>1, <1>2 DEF Forwards
<1>4. SweepTyped' /\ Footprinted' /\ Emitting' /\ EveryArmAnswers' /\ cache'.mode = cache.mode
  BY <1>3, ForwardShape
<1>5. /\ arm' = arm /\ plan' = plan /\ streaming' = streaming /\ quantized' = quantized
      /\ InChunks' = InChunks
  BY <1>1, SameArm
<1>6. fed \in Nat /\ fed' \in Nat /\ job.ctx \in Nat /\ fed' > 0
  <2>1. fed \in Nat /\ job.ctx \in Nat
    BY <1>1, ArmFacts DEF SweepTyped
  <2>2. QED
    BY <2>1, <1>3
<1>7. FedAfter(0)' = FedAfter(0) \o Positions(fed, n)
  BY <1>3, <1>6, FedPrimed
<1>8. fed' <= job'.ctx /\ (~InChunks' => fed' \in {0, job'.ctx})
  <2>1. fed' <= job'.ctx
    BY <1>1, <1>2, <1>3
  <2>2. ASSUME ~InChunks
        PROVE  fed' = job.ctx
    <3>1. fed = 0
      BY <1>1, <1>6, <2>2 DEF Prefilled
    <3>2. n = job.ctx
      BY <1>1, <1>2, <2>2, <3>1, WholeForward
    <3>3. QED
      BY <1>3, <1>6, <3>1, <3>2
  <2>3. QED
    BY <1>1, <1>5, <2>1, <2>2
<1>9. streaming => /\ cache'.fp16 = FedAfter(0)' /\ hooked'
                   /\ cache'.mode = IF plan.ingests THEN "ingest" ELSE "normal"
  <2>1. SUFFICES ASSUME streaming
                 PROVE  /\ cache'.fp16 = FedAfter(0)' /\ hooked'
                        /\ cache'.mode = IF plan.ingests THEN "ingest" ELSE "normal"
    OBVIOUS
  <2>2. /\ cache.fp16 = FedAfter(0) /\ hooked
        /\ cache.mode = IF plan.ingests THEN "ingest" ELSE "normal"
    BY <1>1, <2>1 DEF Prefilled
  <2>3. ~Scoring
    BY <2>2 DEF Scoring
  <2>4. cache'.fp16 = cache.fp16 \o Positions(fed, n)
    BY <1>1, <1>3, <2>1, <2>3, StreamUpdate
  <2>5. QED
    BY <1>1, <1>4, <1>7, <2>2, <2>4
<1>10. arm.kind \in {"full", "press", "quant_faithful"} =>
         cache'.fp16 = FedAfter(0)' /\ cache'.top = FedAfter(0)'
  <2>1. SUFFICES ASSUME arm.kind \in {"full", "press", "quant_faithful"}
                 PROVE  cache'.fp16 = FedAfter(0)' /\ cache'.top = FedAfter(0)'
    OBVIOUS
  <2>2. cache.fp16 = FedAfter(0) /\ cache.top = FedAfter(0)
    BY <1>1, <2>1 DEF Prefilled
  <2>3. ~streaming /\ (quantized => Dynamic)
    BY <1>1, <2>1 DEF streaming, quantized, Dynamic
  <2>4. /\ cache'.fp16 = cache.fp16 \o Positions(fed, n)
        /\ cache'.top = cache.top \o Positions(fed, n)
    BY <1>1, <1>3, <2>3, PlainUpdate
  <2>5. QED
    BY <1>7, <2>2, <2>4
<1>11. arm.kind \in {"quant", "press_quant"} =>
         /\ Whole(cache)' = FedAfter(0)' /\ FoldsWhenFull(cache)'
         /\ cache'.init <=> fed' > 0
         /\ arm.kind = "press_quant" => cache'.fp16 = <<>>
  <2>1. SUFFICES ASSUME arm.kind \in {"quant", "press_quant"}
                 PROVE  /\ Whole(cache)' = FedAfter(0)' /\ FoldsWhenFull(cache)'
                        /\ cache'.init <=> fed' > 0
                        /\ arm.kind = "press_quant" => cache'.fp16 = <<>>
    OBVIOUS
  <2>2. /\ Whole(cache) = FedAfter(0) /\ FoldsWhenFull(cache) /\ (cache.init <=> fed > 0)
        /\ arm.kind = "press_quant" => cache.fp16 = <<>>
    BY <1>1, <2>1 DEF Prefilled
  <2>3. quantized /\ ~Dynamic
    BY <1>1, <2>1 DEF quantized, Dynamic
  <2>4. cache.init \/ Whole(cache) = <<>>
    BY <1>1, <2>3, StoreReady
  <2>5. PICK u : u = Update(cache, n)
    OBVIOUS
  <2>6. Whole(u) = Whole(cache) \o Positions(fed, n) /\ FoldsWhenFull(u) /\ u.init
    BY <1>1, <2>2, <2>3, <2>4, <2>5, StoreUpdate
  <2>7. Whole(cache)' = Whole(u) /\ FoldsWhenFull(cache)' /\ cache'.init
    BY <1>3, <2>5, <2>6 DEF Whole, Dequantize, FoldsWhenFull
  <2>8. arm.kind = "press_quant" => cache'.fp16 = <<>>
    <3>1. SUFFICES ASSUME arm.kind = "press_quant"
                   PROVE  cache'.fp16 = <<>>
      OBVIOUS
    <3>2. ~InChunks
      BY <3>1 DEF InChunks, streaming
    <3>3. fed = 0
      BY <1>1, <1>6, <3>2 DEF Prefilled
    <3>4. ~cache.init
      BY <2>2, <3>3
    <3>5. PICK new \in Seq(Nat) : new = Positions(fed, n)
      BY <1>6, PositionsFacts
    <3>6. u = Emptied(Quantize(cache, new))
      BY <2>3, <2>5, <3>1, <3>4, <3>5
         DEF Update, QuantUpdate, streaming, quantized, Dynamic
    <3>7. u.fp16 = <<>>
      BY <1>1, <3>6, FoldFacts DEF SweepTyped
    <3>8. QED
      BY <1>3, <2>5, <3>7
  <2>9. QED
    BY <1>6, <1>7, <2>2, <2>6, <2>7, <2>8
<1>12. Prefilled'
  BY <1>1, <1>5, <1>8, <1>9, <1>10, <1>11 DEF Prefilled
<1>13. Decoded'
  BY <1>1 DEF Decoded
<1>14. QED
  BY <1>4, <1>12, <1>13 DEF SweepInv

(* The length of two sequences, and of none.                               *)
LEMMA LenFacts ==
  ASSUME NEW S, NEW s \in Seq(S), NEW t \in Seq(S)
  PROVE  /\ Len(s \o t) = Len(s) + Len(t)
         /\ Len(s) = 0 => s = <<>>
OBVIOUS

(* A faithful residual of R tokens at most, one token later.               *)
LEMMA ResidualTurns ==
  ASSUME NEW r \in Nat, NEW t \in Nat, r > 1
  PROVE  IF t % r # 0 /\ (t % r) + 1 >= r THEN (t + 1) % r = 0 ELSE (t + 1) % r = (t % r) + 1
<1>1. r \in Nat \ {0} /\ t + 1 \in Nat
  OBVIOUS
<1>2. PICK a : a = t % r
  OBVIOUS
<1>3. PICK b : b = (t + 1) % r
  OBVIOUS
<1>4. a \in 0 .. r - 1 /\ (b = 0 => a = r - 1) /\ (b # 0 => b = a + 1)
  BY <1>1, <1>2, <1>3, NextModulo
<1>5. b \in 0 .. r - 1
  BY <1>1, <1>3, DivMod
<1>6. IF a # 0 /\ a + 1 >= r THEN b = 0 ELSE b = a + 1
  BY <1>4, <1>5
<1>7. QED
  BY <1>2, <1>3, <1>6

(* A forward of the window, the query or the answer.                       *)
LEMMA RunForwardKeeps ==
  ASSUME SweepInv, RunForward
  PROVE  SweepInv'
<1>1. /\ SweepTyped /\ Prefilled /\ Decoded /\ fed < job.ctx + plan.after /\ pc = "run"
      /\ cache' = Update(cache, RunStep) /\ fed' = fed + RunStep /\ Produced(cache')
      /\ UNCHANGED <<job, pc, at, sample, hooked, billed, axisRows, emitted, crashes>>
  BY DEF SweepInv, RunForward
<1>2. PICK n \in Nat \ {0} : n = RunStep
  BY <1>1, StepFacts
<1>3. Forwards(n) /\ cache' = Update(cache, n) /\ fed' = fed + n
  BY <1>1, <1>2 DEF Forwards
<1>4. SweepTyped' /\ Footprinted' /\ Emitting' /\ EveryArmAnswers' /\ cache'.mode = cache.mode
  BY <1>3, ForwardShape
<1>5. /\ arm' = arm /\ plan' = plan /\ streaming' = streaming /\ quantized' = quantized
      /\ Dropped(arm)' = Dropped(arm) /\ DroppedTop(arm)' = DroppedTop(arm)
  BY <1>1, SameArm
<1>6. fed \in Nat /\ fed' \in Nat /\ job.ctx \in Nat /\ fed >= job.ctx /\ fed' >= job.ctx
  <2>1. fed \in Nat /\ job.ctx \in Nat /\ fed >= job.ctx
    BY <1>1, ArmFacts DEF SweepTyped, Decoded
  <2>2. QED
    BY <2>1, <1>3
<1>7. job.ctx > 0 /\ Residual \in Nat /\ arm \in Arms /\ job.axis \in Axes
  <2>1. job.ctx > Keep /\ Keep \in Nat
    BY <1>1, ArmFacts
  <2>2. QED
    BY <1>1, <1>6, <2>1, ArmFacts
<1>8. streaming =>
         /\ cache'.fp16 = IF job.axis = "ppl" THEN Positions(0, job.ctx) ELSE FedAfter(0)'
         /\ cache'.mode = IF job.axis = "ppl" THEN "score" ELSE "normal"
         /\ job.axis # "persist" => hooked'
  <2>1. SUFFICES ASSUME streaming
                 PROVE  /\ cache'.fp16 = IF job.axis = "ppl" THEN Positions(0, job.ctx)
                                         ELSE FedAfter(0)'
                        /\ cache'.mode = IF job.axis = "ppl" THEN "score" ELSE "normal"
                        /\ job.axis # "persist" => hooked'
    OBVIOUS
  <2>2. /\ cache.fp16 = IF job.axis = "ppl" THEN Positions(0, job.ctx) ELSE FedAfter(0)
        /\ cache.mode = IF job.axis = "ppl" THEN "score" ELSE "normal"
        /\ job.axis # "persist" => hooked
    BY <1>1, <2>1 DEF Decoded
  <2>3. CASE job.axis = "ppl"
    <3>1. Positions(0, job.ctx) # <<>>
      <4>1. Len(Positions(0, job.ctx)) = job.ctx
        BY <1>6, PositionsFacts
      <4>2. QED
        BY <1>6, <1>7, <4>1
    <3>2. Scoring
      BY <2>2, <2>3, <3>1 DEF Scoring
    <3>3. cache' = cache
      BY <1>1, <1>3, <2>1, <3>2, StreamUpdate
    <3>4. QED
      BY <1>1, <2>2, <2>3, <3>3
  <2>4. CASE job.axis # "ppl"
    <3>1. ~Scoring
      BY <2>2, <2>4 DEF Scoring
    <3>2. cache'.fp16 = cache.fp16 \o Positions(fed, n)
      BY <1>1, <1>3, <2>1, <3>1, StreamUpdate
    <3>3. FedAfter(0)' = FedAfter(0) \o Positions(fed, n)
      BY <1>3, <1>6, FedPrimed
    <3>4. QED
      BY <1>1, <1>4, <2>2, <2>4, <3>2, <3>3
  <2>5. QED
    BY <2>3, <2>4
<1>9. arm.kind \in {"full", "press"} =>
         cache'.fp16 = FedAfter(Dropped(arm))' /\ cache'.top = FedAfter(DroppedTop(arm))'
  <2>1. SUFFICES ASSUME arm.kind \in {"full", "press"}
                 PROVE  /\ cache'.fp16 = FedAfter(Dropped(arm))'
                        /\ cache'.top = FedAfter(DroppedTop(arm))'
    OBVIOUS
  <2>2. cache.fp16 = FedAfter(Dropped(arm)) /\ cache.top = FedAfter(DroppedTop(arm))
    BY <1>1, <2>1 DEF Decoded
  <2>3. ~streaming /\ (quantized => Dynamic)
    BY <2>1 DEF streaming, quantized
  <2>4. /\ cache'.fp16 = cache.fp16 \o Positions(fed, n)
        /\ cache'.top = cache.top \o Positions(fed, n)
    BY <1>1, <1>3, <2>3, PlainUpdate
  <2>5. PICK a \in Nat, b \in Nat : a = Dropped(arm) /\ b = DroppedTop(arm) /\ a <= fed /\ b <= fed
    <3>1. Dropped(arm) \in Nat /\ Dropped(arm) <= fed
      BY <1>1, <1>6, DroppedFacts
    <3>2. DroppedTop(arm) \in Nat /\ DroppedTop(arm) <= fed
      BY <1>1, <1>6, DroppedFacts
    <3>3. QED
      BY <3>1, <3>2
  <2>6. /\ FedAfter(a)' = FedAfter(a) \o Positions(fed, n)
        /\ FedAfter(b)' = FedAfter(b) \o Positions(fed, n)
    BY <1>3, <1>6, <2>5, FedPrimed
  <2>7. FedAfter(Dropped(arm))' = FedAfter(a)' /\ FedAfter(DroppedTop(arm))' = FedAfter(b)'
    BY <1>5, <2>5 DEF FedAfter
  <2>8. QED
    BY <2>2, <2>4, <2>5, <2>6, <2>7
<1>10. quantized =>
         /\ Whole(cache)' = FedAfter(Dropped(arm))' /\ FoldsWhenFull(cache)' /\ cache'.init
         /\ arm.kind = "quant_faithful" /\ Residual > 1 /\ job.axis = "longbench" =>
              Len(cache'.fp16) = fed' % Residual
  <2>1. SUFFICES ASSUME quantized
                 PROVE  /\ Whole(cache)' = FedAfter(Dropped(arm))' /\ FoldsWhenFull(cache)'
                        /\ cache'.init
                        /\ arm.kind = "quant_faithful" /\ Residual > 1
                             /\ job.axis = "longbench" =>
                             Len(cache'.fp16) = fed' % Residual
    OBVIOUS
  <2>2. Whole(cache) = FedAfter(Dropped(arm)) /\ FoldsWhenFull(cache) /\ cache.init
    BY <1>1, <2>1 DEF Decoded
  <2>3. ~Dynamic
    BY <1>1 DEF Dynamic
  <2>4. PICK u : u = Update(cache, n)
    OBVIOUS
  <2>5. /\ Whole(u) = Whole(cache) \o Positions(fed, n) /\ FoldsWhenFull(u) /\ u.init
        /\ u.fp16 = IF cache.fp16 # <<>> /\ Len(cache.fp16) + 1 >= Residual
                    THEN <<>> ELSE cache.fp16 \o Positions(fed, n)
    BY <1>1, <2>1, <2>2, <2>3, <2>4, StoreUpdate
  <2>6. Whole(cache)' = Whole(u) /\ FoldsWhenFull(cache)' /\ cache'.init /\ cache'.fp16 = u.fp16
    BY <1>3, <2>4, <2>5 DEF Whole, Dequantize, FoldsWhenFull
  <2>7. PICK a \in Nat : a = Dropped(arm) /\ a <= fed
    <3>1. Dropped(arm) \in Nat /\ Dropped(arm) <= fed
      BY <1>1, <1>6, DroppedFacts
    <3>2. QED
      BY <3>1
  <2>8. FedAfter(a)' = FedAfter(a) \o Positions(fed, n)
    BY <1>3, <1>6, <2>7, FedPrimed
  <2>9. FedAfter(Dropped(arm))' = FedAfter(a)'
    BY <1>5, <2>7 DEF FedAfter
  <2>10. ASSUME arm.kind = "quant_faithful", Residual > 1, job.axis = "longbench"
         PROVE  Len(cache'.fp16) = fed' % Residual
    <3>1. Len(cache.fp16) = fed % Residual
      BY <1>1, <1>7, <2>10 DEF Decoded
    <3>2. n = 1
      BY <1>2, <1>7, <2>10, PlanFacts DEF RunStep, plan
    <3>3. PICK s \in Seq(Nat), k \in Nat : s = cache.fp16 /\ k = Len(s) /\ k = fed % Residual
      <4>1. cache.fp16 \in Seq(Nat)
        BY <1>1 DEF SweepTyped, CacheStates
      <4>2. QED
        BY <3>1, <4>1
    <3>4. IF k # 0 /\ k + 1 >= Residual THEN (fed + 1) % Residual = 0
          ELSE (fed + 1) % Residual = k + 1
      <4>1. PICK r \in Nat, f \in Nat : r = Residual /\ f = fed /\ r > 1
        BY <1>6, <1>7, <2>10
      <4>2. IF f % r # 0 /\ (f % r) + 1 >= r THEN (f + 1) % r = 0
            ELSE (f + 1) % r = (f % r) + 1
        BY <4>1, ResidualTurns
      <4>3. QED
        BY <3>3, <4>1, <4>2
    <3>5. CASE k # 0 /\ k + 1 >= Residual
      <4>1. cache'.fp16 = <<>>
        BY <2>5, <2>6, <3>3, <3>5
      <4>2. QED
        BY <1>3, <3>2, <3>4, <3>5, <4>1
    <3>6. CASE ~(k # 0 /\ k + 1 >= Residual)
      <4>1. PICK t \in Seq(Nat) : t = Positions(fed, 1) /\ Len(t) = 1
        BY <1>6, PositionsFacts
      <4>2. Len(s \o t) = k + 1
        BY <3>3, <4>1, LenFacts
      <4>3. k = 0 => s = <<>>
        BY <3>3, LenFacts
      <4>4. cache'.fp16 = s \o t
        BY <2>5, <2>6, <3>2, <3>3, <3>6, <4>1, <4>3
      <4>5. QED
        BY <1>3, <3>2, <3>4, <3>6, <4>2, <4>4
    <3>7. QED
      BY <3>5, <3>6
  <2>11. QED
    BY <2>2, <2>5, <2>6, <2>7, <2>8, <2>9, <2>10
<1>11. Decoded'
  <2>1. FedAfter(0)' = Positions(0, fed' - 0)
    BY DEF FedAfter, Positions
  <2>2. streaming' =>
         /\ cache'.fp16 = IF job'.axis = "ppl" THEN Positions(0, job'.ctx) ELSE FedAfter(0)'
         /\ pc' # "next" =>
              /\ cache'.mode = IF job'.axis = "ppl" THEN "score" ELSE "normal"
              /\ job'.axis # "persist" => hooked'
    BY <1>1, <1>5, <1>8
  <2>3. arm'.kind \in {"full", "press"} =>
         cache'.fp16 = FedAfter(Dropped(arm))' /\ cache'.top = FedAfter(DroppedTop(arm))'
    BY <1>5, <1>9
  <2>4. quantized' =>
         /\ Whole(cache)' = FedAfter(Dropped(arm))' /\ FoldsWhenFull(cache)' /\ cache'.init
    BY <1>5, <1>10
  <2>5. arm'.kind = "quant_faithful" /\ Residual > 0
         /\ (pc' = "bill" \/ (job'.axis = "longbench" /\ Residual > 1)) =>
           Len(cache'.fp16) = fed' % Residual
    BY <1>1, <1>5, <1>10 DEF quantized
  <2>6. QED
    BY <1>1, <1>6, <2>2, <2>3, <2>4, <2>5 DEF Decoded
<1>12. Prefilled'
  BY <1>1 DEF Prefilled
<1>13. QED
  BY <1>4, <1>11, <1>12 DEF SweepInv

------------------------------------------------------------------------------
(* The end of a prefill.                                                   *)

(* What a press keeps on each layer: the end of the context.               *)
LEMMA PressKeeps ==
  ASSUME SweepTyped, arm.kind = "press", fed = job.ctx, cache.top = FedAfter(0)
  PROVE  LET u == Compress(cache)
         IN /\ u \in CacheStates /\ u.t = cache.t /\ u.codes = cache.codes /\ u.diag = cache.diag
            /\ u.fp16 = FedAfter(Dropped(arm)) /\ u.top = FedAfter(DroppedTop(arm))
<1>1. /\ job.ctx \in Nat /\ Keep \in Nat /\ Keep > 1 /\ job.ctx > Keep
      /\ cache \in CacheStates
  BY ArmFacts DEF SweepTyped
<1>2. PICK n \in Nat, off \in {0, 1} : n = job.ctx /\ off = IF arm.perLayer THEN 1 ELSE 0
  BY <1>1
<1>3. PICK s \in Seq(Nat) : s = Positions(0, n) /\ Len(s) = n
  BY PositionsFacts
<1>4. cache.top = s
  <2>1. n - 0 = n
    OBVIOUS
  <2>2. QED
    BY <1>2, <1>3, <2>1 DEF FedAfter
<1>5. \A k \in 0 .. n : SubSeq(s, n + 1 - k, n) = Positions(n - k, k)
  <2>1. SUFFICES ASSUME NEW k \in 0 .. n
                 PROVE  SubSeq(s, n + 1 - k, n) = Positions(n - k, k)
    OBVIOUS
  <2>2. PICK j \in 0 .. n : j = n - k
    OBVIOUS
  <2>3. SubSeq(s, j + 1, n) = Positions(0 + j, n - j)
    BY <1>3, <2>2, PositionsSplit
  <2>4. j + 1 = n + 1 - k /\ 0 + j = n - k /\ n - j = k
    BY <2>2
  <2>5. QED
    BY <2>3, <2>4
<1>6. PICK f \in Seq(Nat), h \in Seq(Nat) :
        f = SubSeq(s, n + 1 - (Keep + off), n) /\ h = SubSeq(s, n + 1 - (Keep - off), n)
  <2>1. Keep + off \in 0 .. n /\ Keep - off \in 0 .. n
    BY <1>1, <1>2
  <2>2. PICK k \in 0 .. n, l \in 0 .. n : k = Keep + off /\ l = Keep - off
    BY <2>1
  <2>3. n - k \in Nat /\ n - l \in Nat /\ k \in Nat /\ l \in Nat
    OBVIOUS
  <2>4. Positions(n - k, k) \in Seq(Nat) /\ Positions(n - l, l) \in Seq(Nat)
    BY <2>3, PositionsFacts
  <2>5. QED
    BY <1>5, <2>2, <2>4
<1>7. f = FedAfter(Dropped(arm)) /\ h = FedAfter(DroppedTop(arm))
  <2>1. Keep + off \in 0 .. n /\ Keep - off \in 0 .. n
    BY <1>1, <1>2
  <2>2. PICK k \in 0 .. n, l \in 0 .. n : k = Keep + off /\ l = Keep - off
    BY <2>1
  <2>3. f = Positions(n - k, k) /\ h = Positions(n - l, l)
    BY <1>5, <1>6, <2>2
  <2>4. Dropped(arm) = n - k /\ DroppedTop(arm) = n - l
    BY <1>1, <1>2, <2>2 DEF Dropped, DroppedTop
  <2>5. n - (n - k) = k /\ n - (n - l) = l
    OBVIOUS
  <2>6. QED
    BY <1>2, <2>3, <2>4, <2>5 DEF FedAfter
<1>8. PICK u : u = Compress(cache)
  OBVIOUS
<1>9. u = [cache EXCEPT !.fp16 = f, !.top = h]
  BY <1>2, <1>3, <1>4, <1>6, <1>8 DEF Compress
<1>10. /\ u \in CacheStates /\ u.t = cache.t /\ u.codes = cache.codes /\ u.diag = cache.diag
       /\ u.fp16 = f /\ u.top = h
  BY <1>1, <1>9 DEF CacheStates
<1>11. QED
  BY <1>7, <1>8, <1>10

(* What a press keeps of a quantized cache: the same, in its store.        *)
LEMMA PressedStore ==
  ASSUME SweepTyped, arm.kind = "press_quant", fed = job.ctx, Whole(cache) = FedAfter(0),
         cache.fp16 = <<>>
  PROVE  LET u == Compress(cache)
         IN /\ u \in CacheStates /\ u.t <= Len(u.codes) /\ u.diag = cache.diag /\ u.init
            /\ Whole(u) = FedAfter(Dropped(arm)) /\ FoldsWhenFull(u)
<1>1. /\ job.ctx \in Nat /\ Keep \in Nat /\ Keep > 1 /\ job.ctx > Keep
      /\ cache \in CacheStates /\ cache.t <= Len(cache.codes)
  BY ArmFacts DEF SweepTyped
<1>2. PICK n \in Nat : n = job.ctx
  BY <1>1
<1>3. PICK s \in Seq(Nat) : s = Positions(0, n) /\ Len(s) = n
  BY PositionsFacts
<1>4. Dequantize(cache) = s
  <2>1. Dequantize(cache) = Whole(cache)
    BY <1>1, WholeFacts
  <2>2. n - 0 = n
    OBVIOUS
  <2>3. QED
    BY <1>2, <1>3, <2>1, <2>2 DEF FedAfter
<1>5. PICK j \in 0 .. n : j = n - Keep
  BY <1>1, <1>2
<1>6. SubSeq(s, j + 1, n) = Positions(0 + j, n - j)
  BY <1>3, PositionsSplit
<1>7. PICK keys \in Seq(Nat) : keys = Positions(j, n - j)
  <2>1. n - j \in Nat /\ j \in Nat
    OBVIOUS
  <2>2. QED
    BY <2>1, PositionsFacts
<1>8. Compress(cache) = Emptied(Quantize(cache, keys))
  <2>1. n + 1 - Keep = j + 1 /\ 0 + j = j
    BY <1>1, <1>5
  <2>2. keys = SubSeq(s, n + 1 - Keep, n)
    BY <1>6, <1>7, <2>1
  <2>3. QED
    BY <1>3, <1>4, <2>2 DEF Compress
<1>9. keys = FedAfter(Dropped(arm))
  BY <1>2, <1>5, <1>7 DEF FedAfter, Dropped
<1>10. PICK u : u = Compress(cache)
  OBVIOUS
<1>11. /\ u \in CacheStates /\ u.t <= Len(u.codes) /\ u.diag = cache.diag /\ u.init
       /\ Whole(u) = keys /\ FoldsWhenFull(u)
  BY <1>1, <1>8, <1>10, FoldFacts
<1>12. QED
  BY <1>9, <1>10, <1>11

(* The post-hoc quantization: whole blocks of R in the store, the rest of  *)
(* the context beside it.                                                  *)
LEMMA FaithfulKeeps ==
  ASSUME NEW n \in Nat, Residual \in Nat
  PROVE  LET u == QuantizeAfterPrefill(Positions(0, n))
         IN /\ u \in CacheStates /\ u.t <= Len(u.codes) /\ u.diag = <<>> /\ u.init
            /\ Whole(u) = Positions(0, n) /\ FoldsWhenFull(u)
            /\ Residual > 0 => Len(u.fp16) = n % Residual
<1>1. PICK s \in Seq(Nat) : s = Positions(0, n) /\ Len(s) = n
  BY PositionsFacts
<1>2. PICK cut \in 0 .. n : cut = Cut(n) /\ (Residual > 0 => n - cut = n % Residual)
  <2>1. CASE Residual = 0
    BY <2>1 DEF Cut
  <2>2. CASE Residual # 0
    <3>1. PICK r \in Nat \ {0} : r = Residual
      BY <2>2
    <3>2. PICK q \in Nat, m \in 0 .. r - 1 : n = q * r + m /\ m = n % r
      BY DivMod
    <3>3. m <= n
      <4>1. q * r \in Nat
        OBVIOUS
      <4>2. QED
        BY <3>2, <4>1
    <3>4. n - m \in 0 .. n /\ n - (n - m) = m
      <4>1. \A x \in 0 .. n : n - x \in 0 .. n /\ n - (n - x) = x
        OBVIOUS
      <4>2. m \in 0 .. n
        BY <3>3
      <4>3. QED
        BY <4>1, <4>2, Zenon
    <3>5. Cut(n) = n - (n % Residual)
      BY <2>2 DEF Cut
    <3>6. Cut(n) = n - m /\ n % Residual = m
      BY <3>1, <3>2, <3>5
    <3>7. QED
      BY <3>4, <3>6
  <2>3. QED
    BY <2>1, <2>2
<1>3. PICK a \in Seq(Nat), b \in Seq(Nat) :
        /\ a = Positions(0, cut) /\ b = Positions(cut, n - cut) /\ Len(b) = n - cut
        /\ a = SubSeq(s, 1, cut) /\ b = SubSeq(s, cut + 1, n) /\ a \o b = s
  <2>1. cut \in Nat /\ n - cut \in Nat /\ 0 + cut = cut /\ cut + (n - cut) = n
    OBVIOUS
  <2>2. PICK m \in Nat : m = n - cut
    BY <2>1
  <2>3. Positions(0, cut) \o Positions(0 + cut, m) = Positions(0, cut + m)
    BY <2>1, PositionsJoin
  <2>4. /\ SubSeq(s, 1, cut) = Positions(0, cut)
        /\ SubSeq(s, cut + 1, n) = Positions(0 + cut, n - cut)
    BY <1>1, PositionsSplit
  <2>5. Positions(0, cut) \in Seq(Nat) /\ Positions(cut, m) \in Seq(Nat)
        /\ Len(Positions(cut, m)) = m
    BY <2>1, PositionsFacts
  <2>6. QED
    BY <1>1, <2>1, <2>2, <2>3, <2>4, <2>5
<1>4. PICK z : z = Quantize(FreshCache, a)
  OBVIOUS
<1>5. /\ z \in CacheStates /\ z.t <= Len(z.codes) /\ z.init /\ Dequantize(z) = a
      /\ z.diag = <<>>
  BY <1>4, FreshFacts, QuantizeFacts
<1>6. PICK four \in BOOLEAN : four = (cut < n)
  <2>1. (cut < n) \in BOOLEAN
    OBVIOUS
  <2>2. QED
    BY <2>1, Zenon
<1>7. PICK u : u = QuantizeAfterPrefill(s)
  OBVIOUS
<1>8. u = [z EXCEPT !.fp16 = b, !.fourD = four]
  BY <1>1, <1>2, <1>3, <1>4, <1>6, <1>7 DEF QuantizeAfterPrefill
<1>9. /\ u \in CacheStates /\ u.t = z.t /\ u.codes = z.codes /\ u.init = z.init
      /\ u.fp16 = b /\ u.fourD = four /\ u.diag = z.diag
  BY <1>5, <1>8 DEF CacheStates
<1>10. Whole(u) = s
  BY <1>3, <1>5, <1>9 DEF Whole, Dequantize
<1>11. FoldsWhenFull(u)
  <2>1. b # <<>> <=> cut < n
    BY <1>3, LenFacts
  <2>2. QED
    BY <1>6, <1>9, <2>1 DEF FoldsWhenFull
<1>12. QED
  BY <1>1, <1>2, <1>3, <1>5, <1>7, <1>9, <1>10, <1>11

------------------------------------------------------------------------------
(* The bill, and the inductive invariant.                                  *)

(* What a cache holds after the prefill, of the kinds that hold anything.  *)
Survives ==
  /\ streaming => /\ cache'.fp16 = FedAfter(0)
                  /\ cache'.mode = IF job.axis = "ppl" THEN "score" ELSE "normal"
  /\ arm.kind \in {"full", "press"} =>
       cache'.fp16 = FedAfter(Dropped(arm)) /\ cache'.top = FedAfter(DroppedTop(arm))
  /\ quantized =>
       Whole(cache') = FedAfter(Dropped(arm)) /\ FoldsWhenFull(cache') /\ cache'.init
  /\ arm.kind = "quant_faithful" /\ Residual > 0 => Len(cache'.fp16) = fed % Residual

(* The prefill's tail leaves a cache that holds what survives, and rows of *)
(* this sample.                                                            *)
LEMMA PrefillEnds ==
  ASSUME SweepTyped, Prefilled, Emitting, EndPrefill
  PROVE  /\ cache' \in CacheStates /\ cache'.t <= Len(cache'.codes)
         /\ cache'.diag \in {cache.diag, <<>>} /\ Survives
<1>1. /\ pc = "prefill" /\ fed = job.ctx /\ cache \in CacheStates
      /\ cache.t <= Len(cache.codes) /\ fed \in Nat
  BY DEF EndPrefill, SweepTyped
<1>2. /\ arm.kind \in Kinds /\ job.ctx \in Nat /\ job.ctx > 0 /\ Residual \in Nat
  <2>1. job.ctx > Keep /\ Keep \in Nat /\ job.ctx \in Nat
    BY ArmFacts
  <2>2. QED
    BY <2>1, ArmFacts
<1>3. PICK c : c = cache'
  OBVIOUS
<1>4. CASE arm.kind \in {"bug", "shadow"}
  <2>1. streaming /\ ~quantized
    BY <1>4 DEF streaming, quantized
  <2>2. PICK m \in {"normal", "ingest", "score"} :
          m = IF job.axis = "ppl" THEN "score" ELSE "normal"
    OBVIOUS
  <2>3. c = [cache EXCEPT !.mode = m]
    BY <1>3, <1>4, <2>1, <2>2 DEF EndPrefill
  <2>4. /\ c \in CacheStates /\ c.t = cache.t /\ c.codes = cache.codes /\ c.mode = m
        /\ c.diag = cache.diag /\ c.fp16 = cache.fp16
    BY <1>1, <2>3 DEF CacheStates
  <2>5. cache.fp16 = FedAfter(0)
    BY <1>1, <2>1 DEF Prefilled
  <2>6. QED
    BY <1>1, <1>3, <1>4, <2>1, <2>2, <2>4, <2>5 DEF Survives
<1>5. CASE arm.kind = "full"
  <2>1. ~streaming /\ ~quantized
    BY <1>5 DEF streaming, quantized
  <2>2. cache' = cache
    BY <1>5, <2>1 DEF EndPrefill
  <2>3. cache.fp16 = FedAfter(0) /\ cache.top = FedAfter(0)
    BY <1>1, <1>5 DEF Prefilled
  <2>4. Dropped(arm) = 0 /\ DroppedTop(arm) = 0
    BY <1>5 DEF Dropped, DroppedTop
  <2>5. QED
    BY <1>1, <1>5, <2>1, <2>2, <2>3, <2>4 DEF Survives
<1>6. CASE arm.kind = "press"
  <2>1. ~streaming /\ ~quantized
    BY <1>6 DEF streaming, quantized
  <2>2. c = Compress(cache)
    BY <1>3, <1>6 DEF EndPrefill, streaming
  <2>3. cache.top = FedAfter(0)
    BY <1>1, <1>6 DEF Prefilled
  <2>4. /\ c \in CacheStates /\ c.t = cache.t /\ c.codes = cache.codes /\ c.diag = cache.diag
        /\ c.fp16 = FedAfter(Dropped(arm)) /\ c.top = FedAfter(DroppedTop(arm))
    BY <1>1, <1>6, <2>2, <2>3, PressKeeps
  <2>5. QED
    BY <1>1, <1>3, <1>6, <2>1, <2>4 DEF Survives
<1>7. CASE arm.kind = "press_quant"
  <2>1. ~streaming
    BY <1>7 DEF streaming
  <2>2. c = Compress(cache)
    BY <1>3, <1>7 DEF EndPrefill, streaming
  <2>3. Whole(cache) = FedAfter(0) /\ cache.fp16 = <<>>
    BY <1>1, <1>7 DEF Prefilled
  <2>4. /\ c \in CacheStates /\ c.t <= Len(c.codes) /\ c.diag = cache.diag /\ c.init
        /\ Whole(c) = FedAfter(Dropped(arm)) /\ FoldsWhenFull(c)
    BY <1>1, <1>7, <2>2, <2>3, PressedStore
  <2>5. QED
    BY <1>3, <1>7, <2>1, <2>4 DEF Survives
<1>8. CASE arm.kind = "quant"
  <2>1. ~streaming /\ Dropped(arm) = 0
    BY <1>8 DEF streaming, Dropped
  <2>2. c = Flush(cache)
    BY <1>3, <1>8 DEF EndPrefill, streaming
  <2>3. Whole(cache) = FedAfter(0) /\ FoldsWhenFull(cache) /\ cache.init
    BY <1>1, <1>2, <1>8 DEF Prefilled
  <2>4. /\ c \in CacheStates /\ c.t <= Len(c.codes) /\ c.init
        /\ Whole(c) = Whole(cache) /\ FoldsWhenFull(c) /\ c.diag = cache.diag
    BY <1>1, <2>2, <2>3, FlushFacts
  <2>5. QED
    BY <1>3, <1>8, <2>1, <2>3, <2>4 DEF Survives
<1>9. CASE arm.kind = "quant_faithful"
  <2>1. ~streaming /\ Dropped(arm) = 0
    BY <1>9 DEF streaming, Dropped
  <2>2. c = QuantizeAfterPrefill(cache.fp16)
    BY <1>3, <1>9 DEF EndPrefill, streaming
  <2>3. cache.fp16 = FedAfter(0)
    BY <1>1, <1>9 DEF Prefilled
  <2>4. PICK n \in Nat : n = fed /\ n - 0 = n
    BY <1>1
  <2>5. c = QuantizeAfterPrefill(Positions(0, n)) /\ FedAfter(0) = Positions(0, n)
    BY <2>2, <2>3, <2>4 DEF FedAfter
  <2>6. /\ c \in CacheStates /\ c.t <= Len(c.codes) /\ c.diag = <<>> /\ c.init
        /\ Whole(c) = Positions(0, n) /\ FoldsWhenFull(c)
        /\ Residual > 0 => Len(c.fp16) = n % Residual
    BY <1>2, <2>5, FaithfulKeeps
  <2>7. QED
    BY <1>3, <1>9, <2>1, <2>4, <2>5, <2>6 DEF Survives
<1>10. QED
  BY <1>2, <1>4, <1>5, <1>6, <1>7, <1>8, <1>9 DEF Kinds

(* The end of a prefill.                                                   *)
LEMMA EndPrefillKeeps ==
  ASSUME SweepInv, EndPrefill
  PROVE  SweepInv'
<1>1. /\ SweepTyped /\ Prefilled /\ Emitting /\ EveryArmAnswers /\ Footprinted
      /\ UNCHANGED <<job, at, sample, fed, billed, axisRows, emitted, made, crashes>>
      /\ pc = "prefill" /\ pc' = "bill" /\ fed = job.ctx
  BY DEF SweepInv, EndPrefill
<1>2. /\ arm' = arm /\ plan' = plan /\ Covered' = Covered
      /\ streaming' = streaming /\ quantized' = quantized
      /\ Dropped(arm)' = Dropped(arm) /\ DroppedTop(arm)' = DroppedTop(arm)
      /\ NotBilled' = NotBilled
  BY <1>1, SameArm DEF NotBilled
<1>3. job.ctx \in Nat /\ fed \in Nat /\ job.axis \in Axes
  BY <1>1, ArmFacts DEF SweepTyped
<1>4. /\ cache' \in CacheStates /\ cache'.t <= Len(cache'.codes)
      /\ cache'.diag \in {cache.diag, <<>>} /\ Survives
  BY <1>1, PrefillEnds
<1>5. SweepTyped'
  <2>1. /\ job' \in [axis : Axes, arms : Seq(Arms), ctx : Contexts, chunk : Chunks]
        /\ at' \in 1 .. Len(job'.arms) /\ sample' \in Nat \ {0} /\ fed' \in Nat
    BY <1>1 DEF SweepTyped
  <2>2. billed' \in Footprints /\ axisRows' \in Seq(AxisRows) /\ crashes' \in Nat
    BY <1>1 DEF SweepTyped
  <2>3. pc' \in AtSample /\ Covered'
    BY <1>1, <1>2 DEF SweepTyped, AtSample
  <2>4. QED
    BY <1>4, <2>1, <2>2, <2>3 DEF SweepTyped
<1>6. Prefilled'
  BY <1>1 DEF Prefilled
<1>7. Decoded'
  <2>1. FedAfter(0)' = FedAfter(0) /\ FedAfter(0) = Positions(0, job.ctx)
    <3>1. fed - 0 = job.ctx
      BY <1>1, <1>3
    <3>2. QED
      BY <1>1, <3>1 DEF FedAfter, Positions
  <2>2. /\ FedAfter(Dropped(arm))' = FedAfter(Dropped(arm))
        /\ FedAfter(DroppedTop(arm))' = FedAfter(DroppedTop(arm))
    BY <1>1, <1>2 DEF FedAfter, Positions
  <2>3. Whole(cache)' = Whole(cache') /\ FoldsWhenFull(cache)' = FoldsWhenFull(cache')
    BY DEF Whole, Dequantize, FoldsWhenFull
  <2>4. job.axis \in {"ppl", "ruler", "longbench", "latency", "persist", "kernel_check"}
    BY <1>3, SweepAssumption
  <2>5. streaming /\ job.axis # "persist" => hooked'
    BY <2>4 DEF EndPrefill, Attached
  <2>6. streaming' =>
         /\ cache'.fp16 = IF job'.axis = "ppl" THEN Positions(0, job'.ctx) ELSE FedAfter(0)'
         /\ pc' # "next" =>
              /\ cache'.mode = IF job'.axis = "ppl" THEN "score" ELSE "normal"
              /\ job'.axis # "persist" => hooked'
    BY <1>1, <1>2, <1>4, <2>1, <2>5 DEF Survives
  <2>7. arm'.kind \in {"full", "press"} =>
         cache'.fp16 = FedAfter(Dropped(arm))' /\ cache'.top = FedAfter(DroppedTop(arm))'
    BY <1>2, <1>4, <2>2 DEF Survives
  <2>8. quantized' =>
         /\ Whole(cache)' = FedAfter(Dropped(arm))' /\ FoldsWhenFull(cache)' /\ cache'.init
    BY <1>2, <1>4, <2>2, <2>3 DEF Survives
  <2>9. arm'.kind = "quant_faithful" /\ Residual > 0
         /\ (pc' = "bill" \/ (job'.axis = "longbench" /\ Residual > 1)) =>
           Len(cache'.fp16) = fed' % Residual
    BY <1>1, <1>2, <1>4 DEF Survives
  <2>10. fed' >= job'.ctx /\ fed' = job'.ctx
    BY <1>1, <1>3
  <2>11. QED
    BY <2>6, <2>7, <2>8, <2>9, <2>10 DEF Decoded
<1>8. Footprinted'
  <2>1. billed # NotBilled =>
          /\ billed'.tokens = (Dropped(arm)' + 1) .. job'.ctx
          /\ billed'.top = (DroppedTop(arm)' + 1) .. job'.ctx
          /\ arm'.kind = "quant_faithful" /\ Residual > 0 =>
               billed'.residual = job'.ctx % Residual
    BY <1>1, <1>2 DEF Footprinted
  <2>2. QED
    BY <1>1, <1>2, <2>1 DEF Footprinted
<1>9. Emitting'
  <2>1. Sampling /\ Sampling'
    BY <1>1 DEF Sampling
  <2>2. CASE arm.kind = "bug"
    <3>1. PICK m \in {"normal", "score"} : m = IF job.axis = "ppl" THEN "score" ELSE "normal"
      OBVIOUS
    <3>2. cache' = [cache EXCEPT !.mode = m] /\ cache \in CacheStates
      BY <1>1, <2>2, <3>1 DEF EndPrefill, streaming, SweepTyped
    <3>3. cache'.diag = cache.diag
      BY <3>2 DEF CacheStates
    <3>4. QED
      BY <1>1, <2>1, <3>3, RowsHeld
  <2>3. CASE arm.kind # "bug"
    <3>1. cache.diag = <<>>
      BY <1>1, <2>1, <2>3 DEF Emitting, OwnRows
    <3>2. cache'.diag = cache.diag
      BY <1>4, <3>1
    <3>3. QED
      BY <1>1, <2>1, <3>2, RowsHeld
  <2>4. QED
    BY <2>2, <2>3
<1>10. QED
  BY <1>1, <1>5, <1>6, <1>7, <1>8, <1>9, RowsKept DEF SweepInv

(* What the cache holds of the context after the prefill is what survived  *)
(* it, to the end of the sample.                                           *)
LEMMA HeldFacts ==
  ASSUME SweepTyped, Decoded, pc \in {"bill", "run", "next"}
  PROVE  /\ Held(cache) \cap (1 .. job.ctx) = (Dropped(arm) + 1) .. job.ctx
         /\ HeldTop(cache) \cap (1 .. job.ctx) = (DroppedTop(arm) + 1) .. job.ctx
         /\ fed = job.ctx \/ (streaming /\ job.axis = "ppl") =>
              /\ Held(cache) = (Dropped(arm) + 1) .. job.ctx
              /\ HeldTop(cache) = (DroppedTop(arm) + 1) .. job.ctx
<1>1. /\ fed \in Nat /\ job.ctx \in Nat /\ fed >= job.ctx /\ arm.kind \in Kinds
  BY ArmFacts DEF SweepTyped, Decoded
<1>2. PICK a \in Nat, b \in Nat : /\ a = Dropped(arm) /\ b = DroppedTop(arm)
                                  /\ a <= job.ctx /\ b <= job.ctx
  BY DroppedFacts
<1>3. \A x \in 0 .. job.ctx : Range(FedAfter(x)) = (x + 1) .. fed
  <2>1. SUFFICES ASSUME NEW x \in 0 .. job.ctx
                 PROVE  Range(FedAfter(x)) = (x + 1) .. fed
    OBVIOUS
  <2>2. PICK n \in Nat : n = fed - x /\ x \in Nat /\ x + n = fed
    BY <1>1
  <2>3. Range(Positions(x, n)) = (x + 1) .. (x + n)
    BY <2>2, PositionsFacts
  <2>4. QED
    BY <2>2, <2>3 DEF FedAfter
<1>4. Range(FedAfter(a)) = (a + 1) .. fed /\ Range(FedAfter(b)) = (b + 1) .. fed
      /\ Range(FedAfter(0)) = (0 + 1) .. fed
  <2>1. a \in 0 .. job.ctx /\ b \in 0 .. job.ctx /\ 0 \in 0 .. job.ctx
    BY <1>1, <1>2
  <2>2. QED
    BY <1>3, <2>1
<1>5. \A x \in Nat : ((x + 1) .. fed) \cap (1 .. job.ctx) = (x + 1) .. job.ctx
  BY <1>1
<1>6. CASE streaming
  <2>1. a = 0 /\ b = 0 /\ ~quantized
    BY <1>2, <1>6 DEF Dropped, DroppedTop, streaming, quantized
  <2>2. HeldTop(cache) = Held(cache) /\ Held(cache) = Range(cache.fp16)
    BY <1>6, <2>1 DEF Held, HeldTop
  <2>3. CASE job.axis = "ppl"
    <3>1. cache.fp16 = Positions(0, job.ctx)
      BY <1>6, <2>3 DEF Decoded
    <3>2. Range(cache.fp16) = (0 + 1) .. (0 + job.ctx)
      BY <1>1, <3>1, PositionsFacts
    <3>3. Range(cache.fp16) = (0 + 1) .. job.ctx
      BY <1>1, <3>2
    <3>4. QED
      BY <1>1, <1>2, <2>1, <2>2, <3>3
  <2>4. CASE job.axis # "ppl"
    <3>1. cache.fp16 = FedAfter(0)
      BY <1>6, <2>4 DEF Decoded
    <3>2. QED
      BY <1>2, <1>4, <1>5, <2>1, <2>2, <2>4, <3>1
  <2>5. QED
    BY <2>3, <2>4
<1>7. CASE quantized
  <2>1. b = a /\ ~streaming
    BY <1>2, <1>7 DEF Dropped, DroppedTop, streaming, quantized
  <2>2. Whole(cache) = FedAfter(a)
    BY <1>2, <1>7 DEF Decoded
  <2>3. HeldTop(cache) = Held(cache) /\ Held(cache) = (a + 1) .. fed
    BY <1>4, <1>7, <2>2 DEF Held, HeldTop, Whole
  <2>4. QED
    BY <1>2, <1>5, <2>1, <2>3
<1>8. CASE ~streaming /\ ~quantized
  <2>1. arm.kind \in {"full", "press"}
    BY <1>1, <1>8 DEF Kinds, streaming, quantized
  <2>2. cache.fp16 = FedAfter(a) /\ cache.top = FedAfter(b)
    BY <1>2, <2>1 DEF Decoded
  <2>3. Held(cache) = (a + 1) .. fed /\ HeldTop(cache) = (b + 1) .. fed
    BY <1>4, <1>8, <2>2 DEF Held, HeldTop
  <2>4. QED
    BY <1>2, <1>5, <1>8, <2>3
<1>9. QED
  BY <1>6, <1>7, <1>8

------------------------------------------------------------------------------
(* The bill, and the inductive invariant, continued.                       *)

(* The footprint of a cache that holds what survived its prefill.          *)
LEMMA FootprintFacts ==
  ASSUME SweepTyped, Decoded, pc \in {"bill", "run"},
         fed = job.ctx \/ (streaming /\ job.axis = "ppl")
  PROVE  /\ Footprint \in Footprints /\ Footprint # NotBilled
         /\ Footprint.tokens = (Dropped(arm) + 1) .. job.ctx
         /\ Footprint.top = (DroppedTop(arm) + 1) .. job.ctx
         /\ pc = "bill" /\ arm.kind = "quant_faithful" /\ Residual > 0 =>
              Footprint.residual = job.ctx % Residual
<1>1. /\ Held(cache) = (Dropped(arm) + 1) .. job.ctx
      /\ HeldTop(cache) = (DroppedTop(arm) + 1) .. job.ctx
  BY HeldFacts
<1>2. PICK a \in SUBSET Nat, b \in SUBSET Nat : a = Held(cache) /\ b = HeldTop(cache)
  <2>1. /\ Dropped(arm) \in Nat /\ DroppedTop(arm) \in Nat /\ job.ctx \in Nat
    BY DroppedFacts, ArmFacts
  <2>2. \A x \in Nat : (x + 1) .. job.ctx \subseteq Nat
    OBVIOUS
  <2>3. QED
    BY <1>1, <2>1, <2>2
<1>3. PICK r : r = CASE arm.kind = "quant_faithful" ->
                          IF cache.fourD THEN Len(cache.fp16) ELSE 0
                     [] arm.kind = "quant" -> Residual
                     [] OTHER -> 0
  OBVIOUS
<1>4. r \in Nat
  <2>1. Len(cache.fp16) \in Nat /\ Residual \in Nat
    <3>1. cache.fp16 \in Seq(Nat)
      BY DEF SweepTyped, CacheStates
    <3>2. QED
      BY <3>1, ArmFacts
  <2>2. QED
    BY <1>3, <2>1
<1>5. PICK s \in Nat \ {0} : s = sample
  BY DEF SweepTyped
<1>6. PICK f : f = [sample |-> s, tokens |-> a, top |-> b, residual |-> r]
  OBVIOUS
<1>7. f \in Footprints /\ f.tokens = a /\ f.top = b /\ f.residual = r /\ f.sample = s
  BY <1>4, <1>6 DEF Footprints
<1>8. Footprint = f
  BY <1>2, <1>3, <1>5, <1>6 DEF Footprint
<1>9. NotBilled.sample = 0
  BY DEF NotBilled
<1>10. pc = "bill" /\ arm.kind = "quant_faithful" /\ Residual > 0 => r = job.ctx % Residual
  <2>1. SUFFICES ASSUME pc = "bill", arm.kind = "quant_faithful", Residual > 0
                 PROVE  r = job.ctx % Residual
    OBVIOUS
  <2>2. /\ fed = job.ctx /\ FoldsWhenFull(cache) /\ Len(cache.fp16) = fed % Residual
    BY <2>1 DEF Decoded, quantized
  <2>3. CASE cache.fourD
    BY <1>3, <2>1, <2>2, <2>3
  <2>4. CASE ~cache.fourD
    <3>1. cache.fp16 = <<>>
      BY <2>2, <2>4 DEF FoldsWhenFull
    <3>2. Len(cache.fp16) = 0
      BY <3>1
    <3>3. r = 0
      BY <1>3, <2>1, <2>4
    <3>4. QED
      BY <2>2, <3>2, <3>3
  <2>5. QED
    BY <2>3, <2>4
<1>11. QED
  BY <1>1, <1>2, <1>5, <1>7, <1>8, <1>9, <1>10

(* The bill.                                                               *)
LEMMA BillKeeps ==
  ASSUME SweepInv, Bill
  PROVE  SweepInv'
<1>1. /\ SweepTyped /\ Decoded /\ Emitting /\ EveryArmAnswers /\ Footprinted
      /\ UNCHANGED <<job, at, sample, fed, cache, hooked, axisRows, emitted, made, crashes>>
      /\ pc = "bill" /\ pc' = "run" /\ fed = job.ctx
  BY DEF SweepInv, Bill, Decoded
<1>2. /\ arm' = arm /\ plan' = plan /\ Covered' = Covered
      /\ streaming' = streaming /\ quantized' = quantized
      /\ Dropped(arm)' = Dropped(arm) /\ DroppedTop(arm)' = DroppedTop(arm)
      /\ NotBilled' = NotBilled
  BY <1>1, SameArm DEF NotBilled
<1>3. /\ Footprint \in Footprints /\ Footprint # NotBilled
      /\ Footprint.tokens = (Dropped(arm) + 1) .. job.ctx
      /\ Footprint.top = (DroppedTop(arm) + 1) .. job.ctx
      /\ arm.kind = "quant_faithful" /\ Residual > 0 =>
           Footprint.residual = job.ctx % Residual
  BY <1>1, FootprintFacts
<1>4. PICK f \in Footprints : f = Footprint
  BY <1>3
<1>5. \/ billed' = f
      \/ /\ billed' = billed
         /\ ~ /\ plan.recorded /\ arm.kind \in BilledFirst(job.axis)
              /\ (billed = NotBilled \/ job.axis # "ppl")
  BY <1>4 DEF Bill
<1>6. SweepTyped'
  <2>1. /\ job' \in [axis : Axes, arms : Seq(Arms), ctx : Contexts, chunk : Chunks]
        /\ at' \in 1 .. Len(job'.arms) /\ sample' \in Nat \ {0} /\ fed' \in Nat
    BY <1>1 DEF SweepTyped
  <2>2. axisRows' \in Seq(AxisRows) /\ crashes' \in Nat
    BY <1>1 DEF SweepTyped
  <2>3. billed' \in Footprints
    BY <1>1, <1>5 DEF SweepTyped
  <2>4. pc' \in AtSample /\ Covered'
    BY <1>1, <1>2 DEF SweepTyped, AtSample
  <2>5. cache' \in CacheStates /\ cache'.t <= Len(cache'.codes)
    BY <1>1 DEF SweepTyped
  <2>6. QED
    BY <2>1, <2>2, <2>3, <2>4, <2>5 DEF SweepTyped
<1>7. Prefilled'
  BY <1>1 DEF Prefilled
<1>8. Decoded'
  <2>1. /\ FedAfter(0)' = FedAfter(0)
        /\ FedAfter(Dropped(arm))' = FedAfter(Dropped(arm))
        /\ FedAfter(DroppedTop(arm))' = FedAfter(DroppedTop(arm))
    BY <1>1, <1>2 DEF FedAfter, Positions
  <2>2. Whole(cache)' = Whole(cache) /\ FoldsWhenFull(cache)' = FoldsWhenFull(cache)
    BY <1>1 DEF Whole, Dequantize, FoldsWhenFull
  <2>3. QED
    BY <1>1, <1>2, <2>1, <2>2 DEF Decoded
<1>9. Footprinted'
  <2>1. billed' # NotBilled =>
          /\ billed'.tokens = (Dropped(arm) + 1) .. job.ctx
          /\ billed'.top = (DroppedTop(arm) + 1) .. job.ctx
          /\ arm.kind = "quant_faithful" /\ Residual > 0 =>
               billed'.residual = job.ctx % Residual
    BY <1>1, <1>3, <1>4, <1>5 DEF Footprinted
  <2>2. plan.recorded /\ arm.kind \in BilledFirst(job.axis) => billed' # NotBilled
    BY <1>3, <1>4, <1>5
  <2>3. BilledFirst(job.axis)' = BilledFirst(job.axis)
    BY <1>1 DEF BilledFirst
  <2>4. QED
    BY <1>1, <1>2, <2>1, <2>2, <2>3 DEF Footprinted
<1>10. Emitting'
  <2>1. Sampling /\ Sampling' /\ cache'.diag = cache.diag
    BY <1>1 DEF Sampling
  <2>2. QED
    BY <1>1, <2>1, RowsHeld
<1>11. QED
  BY <1>1, <1>6, <1>7, <1>8, <1>9, <1>10, RowsKept DEF SweepInv

(* The end of a sample: what is billed only then is the perplexity axis's  *)
(* streaming caches, which scored and held on to what they had.            *)
LEMMA EndSampleKeeps ==
  ASSUME SweepInv, EndSample
  PROVE  SweepInv'
<1>1. /\ SweepTyped /\ Decoded /\ Emitting /\ EveryArmAnswers /\ Footprinted
      /\ UNCHANGED <<job, at, sample, fed, axisRows, made, crashes>>
      /\ pc = "run" /\ pc' = "next"
      /\ billed' = IF plan.recorded /\ billed = NotBilled THEN Footprint ELSE billed
      /\ cache' = [cache EXCEPT !.diag = <<>>, !.mode = "normal"]
      /\ Drain(cache.diag, FALSE)
  BY DEF SweepInv, EndSample
<1>2. /\ arm' = arm /\ plan' = plan /\ Covered' = Covered
      /\ streaming' = streaming /\ quantized' = quantized
      /\ Dropped(arm)' = Dropped(arm) /\ DroppedTop(arm)' = DroppedTop(arm)
      /\ NotBilled' = NotBilled
  BY <1>1, SameArm DEF NotBilled
<1>3. /\ cache' \in CacheStates /\ cache'.t = cache.t /\ cache'.codes = cache.codes
      /\ cache'.fp16 = cache.fp16 /\ cache'.top = cache.top /\ cache'.init = cache.init
      /\ cache'.fourD = cache.fourD /\ cache'.diag = <<>>
  <2>1. PICK e \in Seq(Marks) : e = <<>>
    <3>1. <<>> \in Seq(Marks)
      OBVIOUS
    <3>2. QED
      BY <3>1, Zenon
  <2>2. PICK m \in {"normal", "ingest", "score"} : m = "normal"
    OBVIOUS
  <2>3. cache' = [cache EXCEPT !.diag = e, !.mode = m] /\ cache \in CacheStates
    BY <1>1, <2>1, <2>2 DEF SweepTyped
  <2>4. /\ cache' \in CacheStates /\ cache'.t = cache.t /\ cache'.codes = cache.codes
        /\ cache'.fp16 = cache.fp16 /\ cache'.top = cache.top /\ cache'.init = cache.init
        /\ cache'.fourD = cache.fourD /\ cache'.diag = e
    BY <2>3 DEF CacheStates
  <2>5. QED
    BY <2>1, <2>4
<1>4. plan.recorded /\ billed = NotBilled => streaming /\ job.axis = "ppl"
  <2>1. SUFFICES ASSUME plan.recorded, billed = NotBilled
                 PROVE  streaming /\ job.axis = "ppl"
    OBVIOUS
  <2>2. arm.kind \notin BilledFirst(job.axis)
    BY <1>1, <2>1 DEF Footprinted
  <2>3. arm.kind \in Kinds /\ job.axis \in Axes /\ arm \in Arms
    BY <1>1, ArmFacts
  <2>4. job.axis = "ppl" /\ arm.kind \in {"bug", "shadow", "press_quant"}
    BY <2>2, <2>3 DEF BilledFirst
  <2>5. plan.covers
    BY <1>1 DEF SweepTyped, AtSample, Covered
  <2>6. arm.kind # "press_quant"
    BY <2>3, <2>4, <2>5, PlanFacts DEF plan
  <2>7. QED
    BY <2>4, <2>6 DEF streaming
<1>5. \/ billed' = billed /\ (plan.recorded => billed # NotBilled)
      \/ /\ billed' \in Footprints /\ billed' # NotBilled /\ arm.kind # "quant_faithful"
         /\ billed'.tokens = (Dropped(arm) + 1) .. job.ctx
         /\ billed'.top = (DroppedTop(arm) + 1) .. job.ctx
  <2>1. CASE plan.recorded /\ billed = NotBilled
    <3>1. billed' = Footprint
      BY <1>1, <2>1
    <3>2. /\ Footprint \in Footprints /\ Footprint # NotBilled
          /\ Footprint.tokens = (Dropped(arm) + 1) .. job.ctx
          /\ Footprint.top = (DroppedTop(arm) + 1) .. job.ctx
      BY <1>1, <1>4, <2>1, FootprintFacts
    <3>3. QED
      BY <1>4, <2>1, <3>1, <3>2 DEF streaming
  <2>2. CASE ~(plan.recorded /\ billed = NotBilled)
    BY <1>1, <2>2
  <2>3. QED
    BY <2>1, <2>2
<1>6. SweepTyped'
  <2>1. /\ job' \in [axis : Axes, arms : Seq(Arms), ctx : Contexts, chunk : Chunks]
        /\ at' \in 1 .. Len(job'.arms) /\ sample' \in Nat \ {0} /\ fed' \in Nat
    BY <1>1 DEF SweepTyped
  <2>2. axisRows' \in Seq(AxisRows) /\ crashes' \in Nat
    BY <1>1 DEF SweepTyped
  <2>3. billed' \in Footprints
    BY <1>1, <1>5 DEF SweepTyped
  <2>4. pc' \in AtSample /\ Covered'
    BY <1>1, <1>2 DEF SweepTyped, AtSample
  <2>5. cache'.t <= Len(cache'.codes)
    BY <1>1, <1>3 DEF SweepTyped
  <2>6. QED
    BY <1>3, <2>1, <2>2, <2>3, <2>4, <2>5 DEF SweepTyped
<1>7. Prefilled'
  BY <1>1 DEF Prefilled
<1>8. Decoded'
  <2>1. /\ FedAfter(0)' = FedAfter(0)
        /\ FedAfter(Dropped(arm))' = FedAfter(Dropped(arm))
        /\ FedAfter(DroppedTop(arm))' = FedAfter(DroppedTop(arm))
    BY <1>1, <1>2 DEF FedAfter, Positions
  <2>2. Whole(cache)' = Whole(cache) /\ FoldsWhenFull(cache)' = FoldsWhenFull(cache)
    BY <1>3 DEF Whole, Dequantize, FoldsWhenFull
  <2>3. QED
    BY <1>1, <1>2, <1>3, <2>1, <2>2 DEF Decoded
<1>9. Footprinted'
  <2>1. billed' # NotBilled =>
          /\ billed'.tokens = (Dropped(arm) + 1) .. job.ctx
          /\ billed'.top = (DroppedTop(arm) + 1) .. job.ctx
          /\ arm.kind = "quant_faithful" /\ Residual > 0 =>
               billed'.residual = job.ctx % Residual
    BY <1>1, <1>5 DEF Footprinted
  <2>2. plan.recorded => billed' # NotBilled
    BY <1>5
  <2>3. QED
    BY <1>1, <1>2, <2>1, <2>2 DEF Footprinted
<1>10. Emitting'
  <2>1. PICK q \in Seq(Marks) : q = cache.diag
    BY <1>1 DEF SweepTyped, CacheStates
  <2>2. Sampling /\ ~Sampling' /\ OwnRows(q, fed) /\ ToSet(q) \subseteq made
    BY <1>1, <2>1 DEF Emitting, Sampling
  <2>3. Drain(q, FALSE) /\ made' = made \cup ToSet(q) /\ ToSet(cache.diag) \subseteq ToSet(q)
    BY <1>1, <2>1, <2>2
  <2>4. /\ DrainedRows(emitted', made')
        /\ \A d \in ToSet(emitted') : Behind(d) \/ (d[1] = at /\ d[2] = sample)
    BY <1>1, <2>2, <2>3, DrainFacts
  <2>5. \A d \in ToSet(emitted') : Behind(d)'
    BY <1>1, <2>4 DEF Behind
  <2>6. Drains' = Drains
    BY <1>1 DEF Drains
  <2>7. QED
    BY <2>2, <2>4, <2>5, <2>6 DEF Emitting, DrainedRows
<1>11. QED
  BY <1>1, <1>6, <1>7, <1>8, <1>9, <1>10, RowsKept DEF SweepInv

(* A sweep starts with nothing billed, and nothing emitted.                *)
LEMMA SweepStarts ==
  ASSUME SweepInit
  PROVE  SweepInv
<1>1. /\ job \in Sweeps /\ pc = "arm" /\ at = 1 /\ sample = 1 /\ fed = 0
      /\ cache = FreshCache /\ billed = NotBilled /\ axisRows = <<>> /\ emitted = <<>>
      /\ made = {} /\ crashes = 0
  BY DEF SweepInit
<1>2. /\ job \in [axis : Axes, arms : Seq(Arms), ctx : Contexts, chunk : Chunks]
      /\ Len(job.arms) \in Nat \ {0}
  <2>1. MaxArms \in Nat
    BY SweepAssumption
  <2>2. PICK k \in 1 .. MaxArms : job.arms \in [1 .. k -> Arms]
    BY <1>1 DEF Sweeps
  <2>3. k \in Nat \ {0}
    BY <2>1
  <2>4. job.arms \in Seq(Arms) /\ Len(job.arms) = k
    BY <2>2, <2>3
  <2>5. job = [axis |-> job.axis, arms |-> job.arms, ctx |-> job.ctx, chunk |-> job.chunk]
        /\ job.axis \in Axes /\ job.ctx \in Contexts /\ job.chunk \in Chunks
    BY <1>1 DEF Sweeps
  <2>6. QED
    BY <2>3, <2>4, <2>5
<1>3. NotBilled \in Footprints
  <2>1. PICK e \in SUBSET Nat : e = {}
    OBVIOUS
  <2>2. NotBilled = [sample |-> 0, tokens |-> e, top |-> e, residual |-> 0]
    BY <2>1 DEF NotBilled
  <2>3. QED
    BY <2>2 DEF Footprints
<1>4. axisRows \in Seq(AxisRows) /\ emitted \in Seq(Marks) /\ crashes \in Nat
  BY <1>1
<1>5. SweepTyped
  BY <1>1, <1>2, <1>3, <1>4, FreshFacts DEF SweepTyped, AtSample
<1>6. Prefilled /\ Decoded /\ Footprinted
  BY <1>1 DEF Prefilled, Decoded, Footprinted
<1>7. Emitting
  <2>1. ~Sampling /\ ToSet(emitted) = {} /\ IsInjective(emitted)
    BY <1>1 DEF Sampling, IsInjective, ToSet
  <2>2. QED
    BY <1>1, <1>4, <2>1 DEF Emitting
<1>8. EveryArmAnswers
  <2>1. DOMAIN axisRows = {} /\ 1 .. (IF pc = "done" THEN at ELSE at - 1) = {}
    BY <1>1
  <2>2. QED
    BY <2>1 DEF EveryArmAnswers
<1>9. QED
  BY <1>5, <1>6, <1>7, <1>8 DEF SweepInv

------------------------------------------------------------------------------
(* The theorems.                                                           *)

(* The lines of a list free of duplicates count what it lists.             *)
LEMMA DistinctCounts ==
  ASSUME NEW S, NEW s \in Seq(S), IsInjective(s)
  PROVE  IsFiniteSet(ToSet(s)) /\ Cardinality(ToSet(s)) = Len(s)
<1>1. Len(s) \in Nat /\ DOMAIN s = 1 .. Len(s)
  OBVIOUS
<1>2. s \in [1 .. Len(s) -> ToSet(s)]
  <2>1. s \in [1 .. Len(s) -> S]
    BY LenProperties
  <2>2. \A i \in 1 .. Len(s) : s[i] \in ToSet(s)
    BY <1>1 DEF ToSet
  <2> QED BY <2>1, <2>2
<1>3. s \in Bijection(1 .. Len(s), ToSet(s))
  <2>1. \A y \in ToSet(s) : \E i \in 1 .. Len(s) : s[i] = y
    BY <1>1 DEF ToSet
  <2> QED BY <1>1, <1>2, <2>1 DEF Bijection, Injection, Surjection, IsInjective
<1>4. ExistsBijection(1 .. Len(s), ToSet(s))
  BY <1>3 DEF ExistsBijection
<1>5. IsFiniteSet(ToSet(s))
  BY <1>1, <1>4, FS_NatBijection
<1>6. Cardinality(ToSet(s)) = Len(s)
  BY <1>1, <1>4, FS_CountingElements
<1> QED BY <1>5, <1>6

(* The invariant holds of every sweep: whatever raises, the cache holds    *)
(* what its kind says, what was billed is what survived the prefill, and   *)
(* the diagnostics are drained up to the sample under way (src/scripts/    *)
(* run_ppl, run_ruler, run_longbench and the others).                      *)
THEOREM SweepInductive == SweepSpec => []SweepInv
<1>1. SweepInit => SweepInv
  BY SweepStarts
<1>2. SweepInv /\ [SweepNext]_sweepVars => SweepInv'
  <2>1. SUFFICES ASSUME SweepInv, [SweepNext]_sweepVars
                 PROVE  SweepInv'
    OBVIOUS
  <2>2. CASE RefuseArm
    BY <2>1, <2>2, RefuseArmKeeps
  <2>3. CASE SkipArm
    BY <2>1, <2>3, SkipArmKeeps
  <2>4. CASE StartSample
    BY <2>1, <2>4, StartSampleKeeps
  <2>5. CASE PrefillForward
    BY <2>1, <2>5, PrefillForwardKeeps
  <2>6. CASE EndPrefill
    BY <2>1, <2>6, EndPrefillKeeps
  <2>7. CASE Bill
    BY <2>1, <2>7, BillKeeps
  <2>8. CASE RunForward
    BY <2>1, <2>8, RunForwardKeeps
  <2>9. CASE EndSample
    BY <2>1, <2>9, EndSampleKeeps
  <2>10. CASE NextSample
    BY <2>1, <2>10, NextSampleKeeps
  <2>11. CASE FinishArm
    BY <2>1, <2>11, FinishArmKeeps
  <2>12. CASE ForwardFails
    BY <2>1, <2>12, ForwardFailsKeeps
  <2>13. CASE UNCHANGED sweepVars
    <3>1. UNCHANGED <<job, pc, at, sample, fed, cache, hooked, billed, axisRows, emitted,
                      made, crashes>>
      BY <2>13 DEF sweepVars
    <3>2. /\ arm' = arm /\ plan' = plan /\ Covered' = Covered
          /\ streaming' = streaming /\ quantized' = quantized
          /\ InChunks' = InChunks /\ NotBilled' = NotBilled
          /\ Dropped(arm)' = Dropped(arm) /\ DroppedTop(arm)' = DroppedTop(arm)
      BY <3>1, SameArm DEF NotBilled
    <3>3. SweepTyped'
      BY <2>1, <3>1, <3>2 DEF SweepInv, SweepTyped
    <3>4. /\ FedAfter(0)' = FedAfter(0)
          /\ FedAfter(Dropped(arm))' = FedAfter(Dropped(arm))
          /\ FedAfter(DroppedTop(arm))' = FedAfter(DroppedTop(arm))
      BY <3>1, <3>2 DEF FedAfter, Positions
    <3>5. Whole(cache)' = Whole(cache) /\ FoldsWhenFull(cache)' = FoldsWhenFull(cache)
      BY <3>1 DEF Whole, Dequantize, FoldsWhenFull
    <3>6. Prefilled'
      BY <2>1, <3>1, <3>2, <3>4, <3>5 DEF SweepInv, Prefilled
    <3>7. Decoded'
      BY <2>1, <3>1, <3>2, <3>4, <3>5 DEF SweepInv, Decoded
    <3>8. BilledFirst(job.axis)' = BilledFirst(job.axis)
      BY <3>1 DEF BilledFirst
    <3>9. Footprinted'
      BY <2>1, <3>1, <3>2, <3>8 DEF SweepInv, Footprinted
    <3>10. Emitting'
      BY <2>1, <3>1 DEF SweepInv, Emitting, Behind, Sampling, Drains, OwnRows, arm
    <3>11. EveryArmAnswers'
      BY <2>1, <3>1 DEF SweepInv, EveryArmAnswers
    <3>12. QED
      BY <3>3, <3>6, <3>7, <3>9, <3>10, <3>11 DEF SweepInv
  <2>14. QED
    BY <2>1, <2>2, <2>3, <2>4, <2>5, <2>6, <2>7, <2>8, <2>9, <2>10, <2>11, <2>12, <2>13
       DEF SweepNext, Finished
<1>3. QED
  BY <1>1, <1>2, PTL DEF SweepSpec

(* A footprint is the prefill's, on every axis: no scored or decoded token *)
(* is in it, all of the context is unless a press evicted, a faithful      *)
(* arm's residual is the true one, and the rest of the sample attends what *)
(* was billed.                                                             *)
THEOREM FootprintIsThePrefills == SweepSpec => []BilledState
<1>1. SweepInv => BilledState
  <2>1. SUFFICES ASSUME SweepInv, billed # NotBilled
                 PROVE  /\ billed.tokens \cup billed.top \subseteq Context
                        /\ arm.kind \notin {"press", "press_quant"} => billed.tokens = Context
                        /\ arm.kind = "quant_faithful" /\ Residual > 0 =>
                             billed.residual = job.ctx % Residual
                        /\ billed.sample = sample /\ pc \in {"run", "next"} =>
                             /\ Held(cache) \cap Context = billed.tokens
                             /\ HeldTop(cache) \cap Context = billed.top
    BY DEF BilledState
  <2>2. SweepTyped /\ Decoded
    BY <2>1 DEF SweepInv
  <2>3. /\ billed.tokens = (Dropped(arm) + 1) .. job.ctx
        /\ billed.top = (DroppedTop(arm) + 1) .. job.ctx
        /\ arm.kind = "quant_faithful" /\ Residual > 0 => billed.residual = job.ctx % Residual
    BY <2>1 DEF SweepInv, Footprinted
  <2>4. /\ Dropped(arm) \in Nat /\ DroppedTop(arm) \in Nat /\ job.ctx \in Nat
        /\ arm.kind \notin {"press", "press_quant"} => Dropped(arm) = 0
    BY <2>2, DroppedFacts, ArmFacts
  <2>5. \A x \in Nat : (x + 1) .. job.ctx \subseteq 1 .. job.ctx
    OBVIOUS
  <2>6. billed.tokens \cup billed.top \subseteq Context
    BY <2>3, <2>4, <2>5 DEF Context
  <2>7. arm.kind \notin {"press", "press_quant"} => billed.tokens = Context
    BY <2>3, <2>4 DEF Context
  <2>8. pc \in {"run", "next"} =>
          /\ Held(cache) \cap Context = billed.tokens
          /\ HeldTop(cache) \cap Context = billed.top
    BY <2>2, <2>3, HeldFacts DEF Context
  <2>9. QED
    BY <2>3, <2>6, <2>7, <2>8
<1>2. QED
  BY <1>1, SweepInductive, PTL

(* A quantized cache holds every token it was fed once and in order,       *)
(* through every fold, flush, padding and re-quantization; and a faithful  *)
(* arm fed one token at a time folds on every R-th (kivi_faithful.update). *)
THEOREM TokensHeldOnce == SweepSpec => []EachTokenHeldOnce
<1>1. SweepInv => EachTokenHeldOnce
  <2>1. SUFFICES ASSUME SweepInv, quantized, pc \in {"bill", "run", "next"}
                 PROVE  LET whole == Dequantize(cache) \o cache.fp16
                            first == IF arm.kind = "press_quant" THEN job.ctx - Keep ELSE 0
                        IN  /\ whole = Positions(first, fed - first)
                            /\ (arm.kind = "quant_faithful" /\ job.axis = "longbench"
                                  /\ Residual > 1) =>
                                 Len(cache.fp16) = fed % Residual
    BY DEF EachTokenHeldOnce
  <2>2. SweepTyped /\ Whole(cache) = FedAfter(Dropped(arm))
    BY <2>1 DEF SweepInv, Decoded
  <2>3. Dropped(arm) = IF arm.kind = "press_quant" THEN job.ctx - Keep ELSE 0
    BY <2>1 DEF Dropped, quantized
  <2>4. Dequantize(cache) \o cache.fp16 = Positions(Dropped(arm), fed - Dropped(arm))
    BY <2>2 DEF Whole, FedAfter
  <2>5. Residual \in Nat
    BY <2>2, ArmFacts
  <2>6. arm.kind = "quant_faithful" /\ job.axis = "longbench" /\ Residual > 1 =>
          Len(cache.fp16) = fed % Residual
    BY <2>1, <2>5 DEF SweepInv, Decoded
  <2>7. QED
    BY <2>3, <2>4, <2>6
<1>2. QED
  BY <1>1, SweepInductive, PTL

(* Every arm the axis is about leaves one row, in order, and no driver     *)
(* makes a call its cache refuses: no row says error.                      *)
THEOREM ArmsAllAnswer == SweepSpec => []EveryArmAnswers
<1>1. SweepInv => EveryArmAnswers
  BY DEF SweepInv
<1>2. QED
  BY <1>1, SweepInductive, PTL

(* On the axes that drain, every diagnostic row a bug cache produced has   *)
(* been emitted once its sample is over, whatever raised; and no row is    *)
(* emitted twice, or without having been produced (records.drained).       *)
THEOREM RowsDrainedOnce == SweepSpec => []DrainedOnce
<1>1. SweepInv => DrainedOnce
  <2>1. SUFFICES ASSUME SweepInv
                 PROVE  DrainedOnce
    OBVIOUS
  <2>2. /\ emitted \in Seq(Marks) /\ IsInjective(emitted) /\ ToSet(emitted) \subseteq made
        /\ Drains /\ ~Sampling => made \subseteq ToSet(emitted)
    BY <2>1 DEF SweepInv, Emitting
  <2>3. Cardinality(ToSet(emitted)) = Len(emitted)
    BY <2>2, DistinctCounts
  <2>4. Range(emitted) = ToSet(emitted)
    BY DEF Range, ToSet
  <2>5. plan.recorded <=> Drains
    BY <2>1, ArmFacts, PlanFacts DEF SweepInv, plan, Drains
  <2>6. QED
    BY <2>2, <2>3, <2>4, <2>5 DEF DrainedOnce
<1>2. QED
  BY <1>1, SweepInductive, PTL
=============================================================================
