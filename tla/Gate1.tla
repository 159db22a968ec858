------------------------------- MODULE Gate1 -------------------------------
(***************************************************************************)
(* The reading of the pre-registered gates (gate1.py): the paired          *)
(* contrasts of the reference tracker against its controls, Holm's         *)
(* correction over each family of them, the refusals, the verdict of       *)
(* Gate 1, and the separate one of the bf16 arm.                           *)
(*                                                                         *)
(* One pod per model family lands at a time, at the verdict's context      *)
(* length; the gate is read whenever somebody asks, so every definition    *)
(* takes the records D there are, a function from the families that have   *)
(* landed.  Probabilities are in units of 1/Unit.  A cell holds Pairs      *)
(* trials; trackers with no role of their own are represented by "oja".    *)
(***************************************************************************)
EXTENDS Integers, FiniteSets, FiniteSetsExt, Functions

CONSTANTS
    Families,       \* the model families with a pod
    Stage1,         \* those of them the bf16 arm was registered for
    Tasks,          \* TASK_ORDER
    Excluded,       \* EXCLUDED_TASKS
    Pairs,          \* trials of a cell
    MaxPods,        \* bound: pods read together
    MaxOdd          \* bound: arms of a family's pod that do not come out even

Unit == 1024
None == -1

(* Two families were registered for the bf16 arm (BF16_FAMILIES), and some *)
(* task is counted.                                                        *)
ASSUME GateAssumption ==
    /\ IsFiniteSet(Families) /\ IsFiniteSet(Tasks)
    /\ Stage1 \subseteq Families /\ Cardinality(Stage1) = 2
    /\ Excluded \subseteq Tasks /\ Excluded # Tasks
    /\ Pairs \in 1 .. 10 /\ MaxPods \in Nat /\ MaxOdd \in [Families -> Nat]

VARIABLE records

Trackers == {"isvd", "frozen", "nogist", "fd", "oja", "bf16"}
REFERENCE == "isvd"
PRIMARY_CONTROLS == {"frozen", "nogist"}
SECONDARY_CONTROLS == {"oja", "fd"}
C_CONTROLS == {"frozen", "fd"}
RULE_ARMS == {REFERENCE, "nogist"} \cup C_CONTROLS
counted == Tasks \ Excluded
FreezeAfter == 2

-----------------------------------------------------------------------------
(* What a pod can have written: for every arm a cell per task, a           *)
(* perplexity sweep and the stored bits, in percent of what the arm's file *)
(* solves for; and the diagnostic rows of the frozen arm.                  *)
Cell(a, b) == [ran |-> TRUE, error |-> FALSE, paired |-> TRUE, a |-> a, b |-> b]
NotRun == [Cell(0, 0) EXCEPT !.ran = FALSE]
Sweep(d, p, equivalent, decidable) ==
    [ran |-> TRUE, d |-> d, p |-> p, equivalent |-> equivalent, decidable |-> decidable]
NoSweep == [Sweep(0, Unit, FALSE, FALSE) EXCEPT !.ran = FALSE]

Even == [cell |-> [t \in Tasks |-> Cell(0, 0)], sweep |-> Sweep(0, 512, TRUE, TRUE),
         sbits |-> 100]
Stopped == [cell |-> [t \in Tasks |-> NotRun], sweep |-> NoSweep, sbits |-> None]
Retrieval(cell) == [Even EXCEPT !.cell = [t \in Tasks |-> IF t \in counted THEN cell ELSE @[t]]]
Erred(T) == [Even EXCEPT !.cell = [t \in Tasks |-> [@[t] EXCEPT !.error = t \in T]]]
Unpaired == Retrieval([Cell(0, 0) EXCEPT !.paired = FALSE])
Perplexity(sweep) == [Even EXCEPT !.sweep = sweep]
Stored(bits) == [Even EXCEPT !.sbits = bits]

Strong == Retrieval(Cell(Pairs, 0))
Weak == Retrieval(Cell(Pairs - (Pairs \div 3), 0))
Behind == Retrieval(Cell(0, Pairs))
Ahead == Perplexity(Sweep(-1, 1, FALSE, TRUE))
Inside == Perplexity(Sweep(-1, 1, TRUE, TRUE))
Wide == Perplexity(Sweep(0, 512, FALSE, FALSE))

Odd == [k \in Trackers |->
    CASE k = "isvd"   -> {Erred(counted), Erred(Excluded), Stored(None)}
      [] k = "frozen" -> {Strong, Weak, Behind, Ahead, Inside, Wide, Unpaired}
      [] k = "nogist" -> {Strong, Ahead, Inside, Stored(120), Stopped}
      [] k = "fd"     -> {Weak, Wide, Stopped}
      [] k = "oja"    -> {Weak, Erred(counted)}
      [] k = "bf16"   -> {Strong, Ahead, Wide, Unpaired, Erred(counted), Stored(110), Stopped}]

(* Diagnostic rows of one sample: the window that straddles the freeze may *)
(* carry a repair of before it; a later one must not.                      *)
Row(seen, fixed) == [sample |-> 0, seen |-> seen, fixed |-> fixed]
CleanDiag == {Row(2, TRUE), Row(3, TRUE), Row(4, FALSE)}
LateRepair == {Row(3, FALSE), Row(4, TRUE)}

Landings == [f \in Families |->
    {[arm |-> [k \in Trackers |-> IF k \in DOMAIN odd THEN odd[k] ELSE Even],
      diag |-> CleanDiag] :
        odd \in UNION {{g \in [S -> UNION Range(Odd)] : \A k \in S : g[k] \in Odd[k]} :
                       S \in UNION {kSubset(n, Trackers) : n \in 0 .. MaxOdd[f]}}}
    \cup {[arm |-> [k \in Trackers |-> Even], diag |-> LateRepair]}]

-----------------------------------------------------------------------------
(* The statistics (stats.py).                                              *)

(* scipy's exact two-sided test of a against b discordant pairs: of all    *)
(* ways to favour one side or the other, twice the share of those that are *)
(* as uneven as the one observed.                                          *)
McNemar == [a \in 0 .. Pairs |-> [b \in 0 .. Pairs |->
    LET ways == SUBSET (1 .. a + b)
        tail == {w \in ways : Cardinality(w) <= Min({a, b})}
    IN IF a + b > Pairs THEN None
       ELSE Min({Unit, (2 * Cardinality(tail) * Unit) \div Cardinality(ways)})]]

Significant(p) == p # None /\ 20 * p < Unit

(* Holm's adjusted p of member x of a family S: the running maximum of     *)
(* (m - rank) p over the members at or below it.                           *)
HolmRank(S, x) == Cardinality({y \in S : y.p < x.p})

(* Mutant: the multiplier is off by one.                                   *)
HolmOffByOne(S, x) ==
    Min({Unit, Max({(Cardinality(S) - HolmRank(S, y) - 1) * y.p : y \in {z \in S : z.p <= x.p}})})

Holm(S, x) ==
    Min({Unit, Max({(Cardinality(S) - HolmRank(S, y)) * y.p : y \in {z \in S : z.p <= x.p}})})

-----------------------------------------------------------------------------
(* The records, as load indexes them.                                      *)
At(D, f, t, k) == D[f].arm[k].cell[t]
Hit(D, f, t, k) == At(D, f, t, k).ran
HasArm(D, f, k) == \E t \in Tasks : Hit(D, f, t, k)
Error(D, f, t, k) == Hit(D, f, t, k) /\ At(D, f, t, k).error
Sbits(D, f, k) == IF D[f].arm[k].sweep.ran THEN D[f].arm[k].sbits ELSE None
Readable(D) == {f \in DOMAIN D : HasArm(D, f, REFERENCE)}

(* Repairs past the freeze, the first row past it exempt.                  *)
FrozenDefects(D, f) ==
    LET late == {r \in D[f].diag : r.seen > FreezeAfter}
        First(s) == Min({r.seen : r \in {q \in late : q.sample = s}})
    IN {r \in late : r.fixed /\ r.seen # First(r.sample)}

ReferenceCells(D) == {c \in (DOMAIN D) \X counted : Hit(D, c[1], c[2], REFERENCE)}

Member(D, f, t, k) ==
    LET a == At(D, f, t, REFERENCE)
        b == At(D, f, t, k)
    IN [family |-> f, task |-> t, b |-> k, primary |-> k \in PRIMARY_CONTROLS,
        lead |-> b.a - b.b, erred |-> a.error \/ b.error,
        p |-> IF a.paired /\ b.paired THEN McNemar[b.a][b.b] ELSE None]

MembersAgainst(D, K) ==
    {Member(D, x[1][1], x[1][2], x[2]) :
        x \in {y \in ReferenceCells(D) \X K : Hit(D, y[1][1], y[1][2], y[2])}}

DraftRetrieval(D) == MembersAgainst(D, PRIMARY_CONTROLS \cup SECONDARY_CONTROLS)

(* Refusals, each on the family it is found in.  A secondary arm's error   *)
(* refuses nothing.                                                        *)
ErrorRefuses(D, f) == \E t \in Tasks, k \in RULE_ARMS : Error(D, f, t, k)

ByteMatchRefuses(D, f) ==
    LET gist == Sbits(D, f, REFERENCE)
        twin == Sbits(D, f, "nogist")
    IN /\ HasArm(D, f, "nogist")
       /\ gist = None \/ twin = None \/ 100 * Max({twin - gist, gist - twin}) > 5 * gist

Refused(D) ==
    {f \in DOMAIN D :
        \/ ErrorRefuses(D, f)
        \/ \E x \in DraftRetrieval(D) : x.family = f /\ x.primary /\ x.p = None
        \/ FrozenDefects(D, f) # {}
        \/ ByteMatchRefuses(D, f)}

(* Holm inside each group of eligible members, None for every other.       *)
SameRole(x, y) == x.primary = y.primary
HolmByGroup(draft, eligible) ==
    [x \in draft |->
        IF x \in eligible THEN Holm({y \in eligible : SameRole(x, y)}, x) ELSE None]

(* A refused family's members leave before the correction.                 *)
(* Mutant: only what is wrong with a member of its own removes it.         *)
EligibleWhoeverIsRefused(refused, draft) == {x \in draft : x.p # None /\ ~x.erred}
Eligible(refused, draft) ==
    {x \in draft : x.p # None /\ ~x.erred /\ x.family \notin refused}

RetrievalContrasts(D, refused) ==
    LET draft == DraftRetrieval(D)
    IN HolmByGroup(draft, Eligible(refused, draft))

PplDraft(D) ==
    {[family |-> x[1], b |-> x[2], primary |-> x[2] \in PRIMARY_CONTROLS,
      sweep |-> D[x[1]].arm[x[2]].sweep, p |-> D[x[1]].arm[x[2]].sweep.p] :
        x \in {y \in (DOMAIN D) \X (Trackers \ {REFERENCE}) :
                \A k \in {REFERENCE, y[2]} : D[y[1]].arm[k].sweep.ran}}

PplContrasts(D, refused) ==
    LET draft == PplDraft(D)
    IN HolmByGroup(draft, {x \in draft : x.primary /\ x.family \notin refused})

-----------------------------------------------------------------------------
(* Gate 1's verdict (gate1_verdict).  R and P are the adjusted retrieval   *)
(* and perplexity contrasts.                                               *)

(* Rule 1's two routes past a control.                                     *)
BeatsOnRetrieval(f, b, R) ==
    \E x \in DOMAIN R : x.family = f /\ x.b = b /\ Significant(R[x]) /\ x.lead > 0
(* Mutant: a significant lead inside the equivalence margin counts.        *)
BeatsInsideMargin(f, b, P) ==
    \E x \in DOMAIN P : x.family = f /\ x.b = b /\ Significant(P[x]) /\ x.sweep.d < 0
BeatsOnPerplexity(f, b, P) ==
    \E x \in DOMAIN P : /\ x.family = f /\ x.b = b /\ Significant(P[x])
                        /\ x.sweep.d < 0 /\ ~x.sweep.equivalent

Separated(D, refused, R, P) ==
    {f \in DOMAIN D \ refused :
        \A b \in PRIMARY_CONTROLS : BeatsOnRetrieval(f, b, R) \/ BeatsOnPerplexity(f, b, P)}

(* What stands in the way of branch C in a family that is not refused.     *)
Blocked(D, f, R, P) ==
    LET present == {t \in counted : \E g \in DOMAIN D, k \in Trackers : Hit(D, g, t, k)}
    IN \/ \E t \in counted : ~Hit(D, f, t, REFERENCE)
       \/ \E b \in C_CONTROLS, t \in present :
            \A x \in DOMAIN R :
                x.family = f /\ x.task = t /\ x.b = b => R[x] = None \/ Significant(R[x])
       \/ \E b \in C_CONTROLS :
            LET sweeps == {x.sweep : x \in {y \in DOMAIN P : y.family = f /\ y.b = b}}
            IN sweeps = {} \/ \E s \in sweeps : ~s.equivalent

Gate1Verdict(D) ==
    LET refused == Refused(D)
        R == RetrievalContrasts(D, refused)
        P == PplContrasts(D, refused)
        separated == Separated(D, refused, R, P)
        blocked == {f \in DOMAIN D \ refused : Blocked(D, f, R, P)}
        isAB == Cardinality(separated) >= 2
        isC == blocked = {} /\ Readable(D) # {} /\ refused = {}
    IN [adjusted |-> [x \in {y \in DOMAIN R : y.family \notin refused} |-> R[x]],
        refused |-> refused, separated |-> separated, blocked |-> blocked,
        branch |-> CASE isAB /\ isC    -> "RuntimeError"
                     [] isAB /\ ~isC   -> "A/B"
                     [] isC /\ ~isAB   -> "C"
                     [] OTHER -> IF refused # {} THEN "REFUSED" ELSE "UNDECIDED"]

-----------------------------------------------------------------------------
(* The bf16 arm's verdict (bf16_contrasts, bf16_verdict): a Holm family of *)
(* its own, which no refusal of Gate 1 shrinks.                            *)
Bf16Draft(D) == MembersAgainst(D, {"bf16"})

Bf16Contrasts(D) ==
    LET draft == Bf16Draft(D)
    IN HolmByGroup(draft, Eligible({}, draft))

Bf16Loses(x, p) == Significant(p) /\ 100 * x.lead > 3 * Pairs

Bf16Sweeps(D, f) == {x.sweep : x \in {y \in PplDraft(D) : y.family = f /\ y.b = "bf16"}}

Bf16Refused(D, f) ==
    LET gist == Sbits(D, f, REFERENCE)
        half == Sbits(D, f, "bf16")
    IN \/ \E t \in counted, k \in {REFERENCE, "bf16"} : Error(D, f, t, k) \/ ~Hit(D, f, t, k)
       \/ \E x \in Bf16Draft(D) : x.family = f /\ x.p = None
       \/ Bf16Sweeps(D, f) = {}
       \/ \E s \in Bf16Sweeps(D, f) : ~s.equivalent /\ ~s.decidable
       \/ half = None \/ gist = None \/ 100 * Max({half - gist, gist - half}) > gist

Bf16Family(D, f, B) ==
    IF Bf16Refused(D, f) THEN "REFUSED"
    ELSE IF \/ \E x \in DOMAIN B : x.family = f /\ Bf16Loses(x, B[x])
            \/ \E s \in Bf16Sweeps(D, f) : ~s.equivalent
    THEN "FAIL" ELSE "PASS"

(* Composition over the families read: a partial input before a fail.      *)
(* Mutant: after it, the order an earlier version of the code had.         *)
Bf16FailFirst(state) ==
    IF "REFUSED" \in Range(state) THEN "REFUSED"
    ELSE IF "FAIL" \in Range(state) THEN "fail"
    ELSE IF Cardinality(DOMAIN state) < 2 THEN "REFUSED" ELSE "pass"
Bf16Overall(state) ==
    IF "REFUSED" \in Range(state) \/ Cardinality(DOMAIN state) < 2 THEN "REFUSED"
    ELSE IF "FAIL" \in Range(state) THEN "fail" ELSE "pass"

Bf16Verdict(D) ==
    LET B == Bf16Contrasts(D)
        read == {f \in DOMAIN D : HasArm(D, f, "bf16")}
    IN IF {x.family : x \in DOMAIN B} \ Stage1 # {} THEN "ValueError"
       ELSE IF read = {} THEN "not run"
       ELSE Bf16Overall([f \in read |-> Bf16Family(D, f, B)])

-----------------------------------------------------------------------------
GateInit == records = <<>>

(* A second pod of a family would be an error, whatever it holds.          *)
Land(f) ==
    /\ f \notin DOMAIN records /\ Cardinality(DOMAIN records) < MaxPods
    /\ \E pod \in Landings[f] :
         records' = [g \in DOMAIN records \cup {f} |-> IF g = f THEN pod ELSE records[g]]

GateNext == \E f \in Families : Land(f)

GateSpec == GateInit /\ [][GateNext]_records

-----------------------------------------------------------------------------
(* What the records hold: at most one pod a family, of the shapes and the  *)
(* stored bits written above.  The reference's sweep is against itself.    *)
CellRecords == [ran : BOOLEAN, error : BOOLEAN, paired : BOOLEAN, a : 0 .. Pairs, b : 0 .. Pairs]
SweepRecords == [ran : BOOLEAN, d : {-1, 0}, p : 0 .. Unit, equivalent : BOOLEAN,
                 decidable : BOOLEAN]
ArmRecords == [cell : [Tasks -> CellRecords], sweep : SweepRecords, sbits : {None, 100, 110, 120}]

GateTypeOK ==
    /\ DOMAIN records \subseteq Families
    /\ records \in [DOMAIN records -> [arm : [Trackers -> ArmRecords], diag : {CleanDiag, LateRepair}]]
    /\ \A f \in DOMAIN records : /\ records[f].arm[REFERENCE].sbits # 110
                                 /\ records[f].arm[REFERENCE].sweep = Even.sweep
                                 /\ records[f].arm["bf16"].sbits # 120

(* "A/B and C are mutually exclusive by construction": the error that      *)
(* would say otherwise (gate1_verdict) is never raised, however the two    *)
(* routes to a separation, the margin, the refusals and the families       *)
(* combine.                                                                *)
Exclusive == Gate1Verdict(records).branch # "RuntimeError"

(* What is outside the gate moves nothing in it: a refused family's        *)
(* records are gone before anything is corrected (ruling R-L3-16), and the *)
(* bf16 arm enters no family of this gate, nor refuses one.                *)
WithoutRefused == Restrict(records, DOMAIN records \ Refused(records))
WithoutBf16 == [f \in DOMAIN records |-> [records[f] EXCEPT !.arm["bf16"] = Stopped]]

OutsidersLeaveNoTrace ==
    LET all == Gate1Verdict(records)
        left == Gate1Verdict(WithoutRefused)
    IN /\ left.adjusted = all.adjusted /\ left.separated = all.separated
       /\ left.blocked = all.blocked /\ left.refused = {}
       /\ Gate1Verdict(WithoutBf16) = all

(* "Bought on both families or not at all" (bf16_verdict): a pass or a     *)
(* fail of the bf16 arm rests on every family it was registered for, each  *)
(* with all its cells paired and free of errors, its bytes as planned and  *)
(* a sweep tight enough to decide.                                         *)
Bf16OnBoth ==
    Bf16Verdict(records) \in {"pass", "fail"} =>
        /\ Stage1 \subseteq DOMAIN records
        /\ \A f \in Stage1, k \in {REFERENCE, "bf16"} :
            LET arm == records[f].arm[k]
            IN /\ \A t \in counted : LET c == arm.cell[t] IN c.ran /\ c.paired /\ ~c.error
               /\ arm.sweep.ran /\ (arm.sweep.equivalent \/ arm.sweep.decidable)
               /\ arm.sbits = 100

(* Holm is the closure of Bonferroni's test: a member is rejected exactly  *)
(* when every set of its family that holds it is rejected on its smallest  *)
(* p, so the family-wise error is the level whatever is true.              *)
HolmIsClosed ==
    LET refused == Refused(records)
        R == RetrievalContrasts(records, refused)
        P == PplContrasts(records, refused)
        Closed(C) ==
            LET eligible == {x \in DOMAIN C : C[x] # None}
            IN \A x \in eligible :
                Significant(C[x]) <=>
                    \A T \in SUBSET {y \in eligible : SameRole(x, y)} :
                        x \in T => \E y \in T : Significant(Cardinality(T) * y.p)
    IN Closed(R) /\ Closed(P)
=============================================================================
