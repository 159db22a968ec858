----------------------------- MODULE PodProofs -----------------------------
(***************************************************************************)
(* Proofs about a pod sweep, from the instance to the verdict: the scripts *)
(* that launch, watch and destroy instances (PodWatch), the records a      *)
(* harvest writes of their logs (PodRecords) and the gate that reads those *)
(* records (Gate1).                                                        *)
(*                                                                         *)
(* PodWatch, for any number of instances, any bar and grace, any pattern   *)
(* of kills, lost fetches and failing destroy calls.  The inductive        *)
(* invariant has four parts.  Listing makes done.txt a duplicate-free      *)
(* sub-list of a duplicate-free pods.txt, so counting lines compares the   *)
(* files.  Fetched says what the watchdog may rely on between the fetch of *)
(* a log and its harvest, while the instance goes on stepping.  Clock      *)
(* relates the watchdog's poll counter to the age of every instance that   *)
(* was listed when it started.                                             *)
(*                                                                         *)
(* PodRecords, for any tape of points, any number of window parts,         *)
(* launches, harvests, cuts and failures.  RecordsInv says what each line  *)
(* of a log tells of its run (Printed), what a harvest under way has yet   *)
(* to write (Harvesting), and that a settled directory is what one log     *)
(* told (Settled).                                                         *)
(*                                                                         *)
(* Gate1, for any families, tasks, number of pairs and pods.  The type of  *)
(* the pods gives finite drafts of distinct members; Holm's step-down over *)
(* such a draft is compared with the closed testing procedure.             *)
(***************************************************************************)
EXTENDS PodWatch, PodRecords, Gate1, IndexOrderProofs, FiniteSetTheorems, SequenceTheorems,
        TLAPS

Stages == {"none", "boot", "run", "grace", "gone"}
Commands == {"next", "fetch", "destroy", "retire", "harvest", "credit", "sleep", "expired"}

(* The shape of the variables.                                             *)
Shape ==
  /\ keyed \in Keyrings /\ flaky \in Outages
  /\ stage \in [Instances -> Stages] /\ age \in [Instances -> Nat]
  /\ bar \in [Instances -> Bars \cup {0}]
  /\ missing \in [Instances -> SUBSET RowKinds]
  /\ marker \in [Instances -> SUBSET (Final \cup {"REPLAY"})]
  /\ pods \in Seq(Instances) /\ done \in Seq(Instances)
  /\ launching \in SUBSET Instances /\ harvested \in SUBSET Instances
  /\ pc \in {"off"} \cup Commands \cup Stops
  /\ pos \in Nat \ {0} /\ iter \in Nat /\ kills \in 0 .. MaxKills

(* No instance overstays a stage.                                          *)
Ages ==
  \A i \in Instances :
    /\ stage[i] = "boot" => age[i] <= MaxBoot
    /\ stage[i] = "run" => age[i] <= bar[i]
    /\ stage[i] = "grace" => age[i] <= Grace
    /\ stage[i] \in {"none", "gone"} => age[i] = 0

(* Both files list an instance at most once; a label is retired only once, *)
(* and only when it is listed.                                             *)
Listing ==
  /\ IsInjective(pods) /\ IsInjective(done) /\ ToSet(done) \subseteq ToSet(pods)
  /\ \A i \in Instances : stage[i] = "none" => i \notin ToSet(pods) \cup launching
  /\ launching \cap ToSet(pods) = {}
  /\ pos <= Len(pods) + 1
  /\ pc \in {"fetch", "destroy", "retire", "harvest"} => pos <= Len(pods)
  /\ pc \in {"fetch", "destroy", "retire"} => cur \notin ToSet(done)

(* A log with ALL_DONE repeats its records and prints no more of them; a   *)
(* sound fetch misses none of those until the harvest is over.             *)
Fetched ==
  /\ \A i \in Instances :
       "ALL_DONE" \in marker[i] => "REPLAY" \in marker[i] /\ stage[i] = "grace"
  /\ sound \in BOOLEAN
  /\ sound => /\ pc \in {"destroy", "retire", "harvest"}
              /\ stage[cur] \in {"grace", "gone"} /\ missing[cur] \cap Replayed = {}

(* The polls a running watchdog has slept through.                         *)
Slept == IF pc = "expired" THEN iter ELSE iter - 1

(* An instance listed when the watchdog started is as old as its polls.    *)
Clock ==
  /\ iter <= BudgetIters
  /\ Running => iter >= 1
  /\ pc = "expired" => iter = BudgetIters
  /\ Running =>
       \A i \in Instances : i \in ToSet(pods) \ late =>
         /\ stage[i] = "boot" => Slept <= age[i]
         /\ stage[i] = "run" => Slept <= MaxBoot + age[i]

IInv == Shape /\ Ages /\ Listing /\ Fetched /\ Clock

-----------------------------------------------------------------------------
(* The polls cover the boot, the YAML's budget and the grace.              *)
LEMMA BudgetCoversStages ==
  /\ Grace \in Nat /\ MaxBoot \in Nat /\ MaxBoot <= Grace /\ MaxKills \in Nat
  /\ BudgetIters \in Nat /\ BudgetIters > GpuBudget + Grace /\ BudgetIters >= MinIters
  /\ GpuBudget \in Nat /\ MinIters \in Nat /\ \A hours \in Bars : hours \in Nat
BY TimesAssumption DEF BudgetIters, Bars

(* An instance's bar is a number of polls.                                 *)
LEMMA BarsAreNat ==
  ASSUME Shape, NEW i \in Instances
  PROVE  bar[i] \in Nat
<1>1. bar[i] \in Bars \cup {0}
  BY DEF Shape
<1> QED BY <1>1, BudgetCoversStages

(* A label not yet listed is appended: the list stays free of duplicates.  *)
LEMMA AppendLists ==
  ASSUME NEW S, NEW s \in Seq(S), NEW x \in S
  PROVE  /\ ToSet(Append(s, x)) = ToSet(s) \cup {x}
         /\ IsInjective(s) /\ x \notin ToSet(s) => IsInjective(Append(s, x))
<1>1. /\ Len(s) \in Nat /\ DOMAIN s = 1 .. Len(s) /\ DOMAIN Append(s, x) = 1 .. Len(s) + 1
      /\ \A i \in 1 .. Len(s) : Append(s, x)[i] = s[i]
      /\ Append(s, x)[Len(s) + 1] = x
  OBVIOUS
<1>2. \A i \in 1 .. Len(s) + 1 : i \in 1 .. Len(s) \/ i = Len(s) + 1
  BY <1>1
<1>3. 1 .. Len(s) \subseteq 1 .. Len(s) + 1 /\ Len(s) + 1 \in 1 .. Len(s) + 1
  BY <1>1
<1> DEFINE t == Append(s, x)
<1>4. /\ DOMAIN t = 1 .. Len(s) + 1 /\ t[Len(s) + 1] = x
      /\ \A i \in 1 .. Len(s) : t[i] = s[i]
  BY <1>1
<1> HIDE DEF t
<1>5. ToSet(t) = ToSet(s) \cup {x}
  BY <1>1, <1>2, <1>3, <1>4 DEF ToSet
<1>6. ASSUME IsInjective(s), x \notin ToSet(s) PROVE IsInjective(t)
  <2>1. \A i \in 1 .. Len(s) : s[i] # x
    BY <1>1, <1>6 DEF ToSet
  <2> QED BY <1>1, <1>2, <1>4, <1>6, <2>1 DEF IsInjective
<1> QED BY <1>5, <1>6 DEF t

(* The lines of a list free of duplicates count what it lists.             *)
LEMMA DistinctCounts ==
  ASSUME NEW S, NEW s \in Seq(S), IsInjective(s)
  PROVE  IsFiniteSet(ToSet(s)) /\ Cardinality(ToSet(s)) = Len(s)
<1>1. Len(s) \in Nat /\ DOMAIN s = 1 .. Len(s)
  OBVIOUS
<1>2. s \in [1 .. Len(s) -> ToSet(s)]
  <2>1. s \in [1 .. Len(s) -> S]
    BY LenProperties
  <2>2. \A i \in 1 .. Len(s) : s[i] \in ToSet(s)
    BY <1>1 DEF ToSet
  <2> QED BY <2>1, <2>2
<1>3. s \in Bijection(1 .. Len(s), ToSet(s))
  <2>1. \A y \in ToSet(s) : \E i \in 1 .. Len(s) : s[i] = y
    BY <1>1 DEF ToSet
  <2> QED BY <1>1, <1>2, <2>1 DEF Bijection, Injection, Surjection, IsInjective
<1>4. ExistsBijection(1 .. Len(s), ToSet(s))
  BY <1>3 DEF ExistsBijection
<1>5. IsFiniteSet(ToSet(s))
  BY <1>1, <1>4, FS_NatBijection
<1>6. Cardinality(ToSet(s)) = Len(s)
  BY <1>1, <1>4, FS_CountingElements
<1> QED BY <1>5, <1>6

-----------------------------------------------------------------------------
(* What a step may do to one instance.                                     *)
Stays(i) == /\ stage'[i] = stage[i] /\ age'[i] = age[i] /\ marker'[i] = marker[i]
            /\ bar'[i] = bar[i]
Created(i) == /\ stage[i] = "none" /\ stage'[i] = "boot" /\ launching' = {i}
              /\ age'[i] = age[i] /\ marker'[i] = marker[i]
BootFailed(i) == /\ stage[i] = "boot" /\ marker'[i] = marker[i] \cup {"BOOT_FAILED"}
                 /\ bar'[i] = bar[i]
                 /\ \/ stage'[i] = "grace" /\ age'[i] = 0
                    \/ stage'[i] = "boot" /\ age'[i] = age[i]
Started(i) == /\ stage[i] = "boot" /\ stage'[i] = "run" /\ age'[i] = 0
              /\ marker'[i] = marker[i] /\ bar'[i] = bar[i]
Ended(i) == /\ stage[i] = "run" /\ stage'[i] = "grace" /\ age'[i] = 0 /\ bar'[i] = bar[i]
            /\ \E words \in {{"REPLAY", "ALL_DONE"}, {"REPLAY", "RUN_FAILED"}, {"RUN_FAILED"}} :
                 marker'[i] = marker[i] \cup words
Destroyed(i) == /\ Alive(i) /\ stage'[i] = "gone" /\ age'[i] = 0 /\ marker'[i] = {}
                /\ bar'[i] = bar[i]
Ages1(i) == /\ ~Due(i) /\ stage'[i] = stage[i] /\ marker'[i] = marker[i]
            /\ bar'[i] = bar[i]
            /\ age'[i] = IF Alive(i) /\ ~(stage[i] = "grace" /\ age[i] = Grace)
                           THEN age[i] + 1 ELSE age[i]
Moves(i) == \/ Stays(i) \/ Created(i) \/ BootFailed(i) \/ Started(i) \/ Ended(i)
            \/ Destroyed(i) \/ Ages1(i)

PodTyped == /\ stage' \in [Instances -> Stages] /\ age' \in [Instances -> Nat]
            /\ marker' \in [Instances -> SUBSET (Final \cup {"REPLAY"})]
            /\ bar' \in [Instances -> Bars \cup {0}]

(* A destroy takes living instances it names, and touches no other.        *)
LEMMA DiesEach ==
  ASSUME Shape, NEW S, Dies(S)
  PROVE  PodTyped /\ \A i \in Instances : Stays(i) \/ (i \in S /\ Destroyed(i))
<1> DEFINE T == {i \in S : Alive(i)}
<1>1. /\ stage' = [i \in Instances |-> IF i \in T THEN "gone" ELSE stage[i]]
      /\ age' = [i \in Instances |-> IF i \in T THEN 0 ELSE age[i]]
      /\ marker' = [i \in Instances |-> IF i \in T THEN {} ELSE marker[i]]
      /\ bar' = bar
  BY DEF Dies
<1>2. \A i \in T : i \in S /\ Alive(i)
  OBVIOUS
<1> HIDE DEF T
<1>3. PodTyped
  BY <1>1 DEF Shape, PodTyped, Stages
<1> QED BY <1>1, <1>2, <1>3 DEF Stays, Destroyed

(* Destroy requests reach some of the pods they name, and no other.        *)
LEMMA DestroyCallsEach ==
  ASSUME Shape, NEW S, DestroyCalls(S)
  PROVE  PodTyped /\ \A i \in Instances : Stays(i) \/ (i \in S /\ Destroyed(i))
<1>1. PICK T \in SUBSET S : Dies(T)
  BY DEF DestroyCalls
<1> QED BY <1>1, DiesEach

(* Without a step of the pods everything about them stays.                 *)
LEMMA PodStays ==
  ASSUME Shape, UNCHANGED pod
  PROVE  PodTyped /\ \A i \in Instances : Stays(i)
BY DEF Shape, pod, PodTyped, Stays

(* The clock's effect on every instance.                                   *)
LEMMA ClockTicks ==
  ASSUME Shape, \A i \in Instances : ~Due(i), age' = Older, UNCHANGED <<stage, marker, bar>>
  PROVE  PodTyped /\ \A i \in Instances : Ages1(i)
<1>1. PodTyped
  BY DEF Shape, PodTyped, Older
<1> QED BY <1>1 DEF Ages1, Older

(* Every step moves an instance along its life, one step at a time.        *)
LEMMA EachInstanceMoves ==
  ASSUME Shape, Next
  PROVE  PodTyped /\ \A i \in Instances : Moves(i)
<1>1. CASE LaunchStep
  <2>1. PICK i \in Instances : CreateInstance(i) \/ AppendPods(i) \/ LaunchKilled(i)
    BY <1>1 DEF LaunchStep
  <2>2. CASE CreateInstance(i)
    <3>1. PICK hours \in Bars : bar' = [bar EXCEPT ![i] = hours]
      BY <2>2 DEF CreateInstance
    <3>2. bar' \in [Instances -> Bars \cup {0}]
      BY <3>1 DEF Shape
    <3>3. PodTyped
      BY <2>2, <3>2 DEF CreateInstance, Shape, PodTyped, Stages
    <3>4. \A j \in Instances : IF j = i THEN Created(j) ELSE Stays(j)
      BY <2>2, <3>1 DEF CreateInstance, Shape, Stays, Created
    <3> QED BY <3>3, <3>4 DEF Moves
  <2>3. CASE AppendPods(i) \/ LaunchKilled(i)
    <3>1. UNCHANGED pod
      BY <2>3 DEF AppendPods, LaunchKilled, pod
    <3> QED BY <3>1, PodStays DEF Moves
  <2> QED BY <2>1, <2>2, <2>3
<1>2. ASSUME NEW i \in Instances, PodStep(i)
      PROVE  PodTyped /\ \A j \in Instances : Moves(j)
  <2>1. CASE BootFails(i)
    <3>1. marker' = [marker EXCEPT ![i] = @ \cup {"BOOT_FAILED"}] /\ stage[i] = "boot"
      BY <2>1 DEF BootFails, Say
    <3>2. \/ stage' = [stage EXCEPT ![i] = "grace"] /\ age' = [age EXCEPT ![i] = 0]
          \/ stage' = stage /\ age' = age
      BY <2>1 DEF BootFails, Enter
    <3>5. bar' = bar
      BY <2>1 DEF BootFails, Enter
    <3>3. PodTyped
      BY <3>1, <3>2, <3>5 DEF Shape, PodTyped, Stages, Final
    <3>4. \A j \in Instances : IF j = i THEN BootFailed(j) ELSE Stays(j)
      BY <3>1, <3>2, <3>5 DEF Shape, BootFailed, Stays
    <3> QED BY <3>3, <3>4 DEF Moves
  <2>2. CASE StartRun(i)
    <3>1. /\ stage' = [stage EXCEPT ![i] = "run"] /\ age' = [age EXCEPT ![i] = 0]
          /\ stage[i] = "boot" /\ marker' = marker /\ bar' = bar
      BY <2>2 DEF StartRun, Enter
    <3>2. PodTyped
      BY <3>1 DEF Shape, PodTyped, Stages
    <3>3. \A j \in Instances : IF j = i THEN Started(j) ELSE Stays(j)
      BY <3>1 DEF Shape, Started, Stays
    <3> QED BY <3>2, <3>3 DEF Moves
  <2>3. CASE PrintRow(i)
    <3>1. UNCHANGED pod
      BY <2>3 DEF PrintRow
    <3> QED BY <3>1, PodStays DEF Moves
  <2>4. CASE RunEnds(i)
    <3>1. /\ stage' = [stage EXCEPT ![i] = "grace"] /\ age' = [age EXCEPT ![i] = 0]
          /\ stage[i] = "run" /\ bar' = bar
      BY <2>4 DEF RunEnds, Enter
    <3>2. PICK words \in {{"REPLAY", "ALL_DONE"}, {"REPLAY", "RUN_FAILED"}, {"RUN_FAILED"}} :
            marker' = [marker EXCEPT ![i] = @ \cup words]
      BY <2>4 DEF RunEnds, Say
    <3>3. words \subseteq Final \cup {"REPLAY"}
      BY DEF Final
    <3>4. PodTyped
      BY <3>1, <3>2, <3>3 DEF Shape, PodTyped, Stages
    <3>5. \A j \in Instances : IF j = i THEN Ended(j) ELSE Stays(j)
      BY <3>1, <3>2 DEF Shape, Ended, Stays
    <3> QED BY <3>4, <3>5 DEF Moves
  <2>5. CASE SelfDestruct(i)
    <3>1. Dies({i})
      BY <2>5 DEF SelfDestruct
    <3> QED BY <3>1, DiesEach DEF Moves
  <2> QED BY <1>2, <2>1, <2>2, <2>3, <2>4, <2>5 DEF PodStep
<1>3. CASE Asleep \/ SleepOver
  BY <1>3, ClockTicks DEF Asleep, SleepOver, Moves
<1>4. CASE Destroy \/ Expired \/ CreditCheck
  <2>1. (\E S : DestroyCalls(S)) \/ UNCHANGED pod
    BY <1>4 DEF Destroy, Expired, CreditCheck
  <2> QED BY <2>1, DestroyCallsEach, PodStays DEF Moves
<1>5. CASE StartWatchdog \/ WatchdogKilled \/ NextLabel \/ FetchLog \/ Retire \/ Harvest
  <2>1. UNCHANGED pod
    BY <1>5 DEF StartWatchdog, WatchdogKilled, NextLabel, FetchLog, Retire, Harvest
  <2> QED BY <2>1, PodStays DEF Moves
<1> QED BY <1>1, <1>2, <1>3, <1>4, <1>5 DEF Next, WatchStep

-----------------------------------------------------------------------------
(* The line the watchdog is at names an instance pods.txt lists.           *)
LEMMA CurIsListed ==
  ASSUME Shape, Listing, pc \in {"fetch", "destroy", "retire", "harvest"}
  PROVE  cur \in Instances /\ cur \in ToSet(pods) /\ pos \in DOMAIN pods
<1>1. pos \in 1 .. Len(pods) /\ DOMAIN pods = 1 .. Len(pods)
  BY DEF Shape, Listing
<1>2. cur \in Instances
  BY <1>1 DEF Shape, cur
<1> QED BY <1>1, <1>2 DEF ToSet, cur

(* The empty fleet satisfies the invariant.                                *)
LEMMA InitHolds == Init => IInv
<1> SUFFICES ASSUME Init PROVE IInv
  OBVIOUS
<1>1. Shape
  BY BudgetCoversStages, TimesAssumption DEF Init, Shape, Stages, Final, Bars
<1>2. Ages
  BY DEF Init, Ages
<1>3. Listing
  <2>1. ToSet(<<>>) = {} /\ IsInjective(<<>>)
    BY DEF ToSet, IsInjective
  <2> QED BY <2>1 DEF Init, Listing
<1>4. Fetched
  BY DEF Init, Fetched
<1>5. Clock
  BY BudgetCoversStages DEF Init, Clock, Running, Stops
<1> QED BY <1>1, <1>2, <1>3, <1>4, <1>5 DEF IInv

(* Every step keeps the types, and the program's commands well formed.     *)
LEMMA ShapeKeeps ==
  ASSUME Shape, Listing, Next
  PROVE  Shape'
<1> USE DEF Commands, Stops
<1>1. PodTyped
  BY EachInstanceMoves
<1>2. CASE LaunchStep
  <2>1. PICK i \in Instances : CreateInstance(i) \/ AppendPods(i) \/ LaunchKilled(i)
    BY <1>2 DEF LaunchStep
  <2>2. /\ pods' = pods \/ pods' = Append(pods, i)
        /\ launching' \in {{}, {i}}
        /\ UNCHANGED <<given, done, missing, harvested, watch>>
    BY <2>1 DEF CreateInstance, AppendPods, LaunchKilled
  <2>3. pods' \in Seq(Instances)
    <3>1. pods \in Seq(Instances) /\ i \in Instances
      BY DEF Shape
    <3> QED BY <2>2, <3>1
  <2> QED BY <1>1, <2>2, <2>3 DEF Shape, PodTyped, given, watch
<1>3. ASSUME NEW i \in Instances, PodStep(i)
      PROVE  Shape'
  <2>1. missing' = missing \/ \E row \in RowKinds : missing' = [missing EXCEPT ![i] = @ \cup {row}]
    <3>1. CASE PrintRow(i)
      BY <3>1, Zenon DEF PrintRow
    <3>2. CASE BootFails(i) \/ StartRun(i) \/ RunEnds(i) \/ SelfDestruct(i)
      BY <3>2 DEF BootFails, StartRun, RunEnds, SelfDestruct, files
    <3> QED BY <1>3, <3>1, <3>2 DEF PodStep
  <2>2. UNCHANGED <<given, pods, launching, done, harvested, watch>>
    BY <1>3 DEF PodStep, BootFails, StartRun, PrintRow, RunEnds, SelfDestruct, files
  <2>3. missing' \in [Instances -> SUBSET RowKinds]
    <3>1. missing \in [Instances -> SUBSET RowKinds]
      BY DEF Shape
    <3>2. CASE missing' = missing
      BY <3>1, <3>2
    <3>3. ASSUME NEW row \in RowKinds, missing' = [missing EXCEPT ![i] = @ \cup {row}]
          PROVE  missing' \in [Instances -> SUBSET RowKinds]
      BY <3>1, <3>3
    <3> QED BY <2>1, <3>2, <3>3
  <2> QED BY <1>1, <2>2, <2>3 DEF Shape, PodTyped, given, watch
<1>4. CASE Asleep
  BY <1>1, <1>4 DEF Asleep, Shape, PodTyped, given, files, watch
<1>5. CASE SleepOver
  BY <1>1, <1>5 DEF SleepOver, Shape, PodTyped, given, files
<1>6. CASE StartWatchdog
  BY <1>1, <1>6 DEF StartWatchdog, Shape, PodTyped, given, files
<1>7. CASE WatchdogKilled
  BY <1>1, <1>7, BudgetCoversStages DEF WatchdogKilled, Shape, PodTyped, given, files
<1>8. CASE NextLabel
  BY <1>1, <1>8 DEF NextLabel, Goto, Shape, PodTyped, given, files
<1>9. CASE FetchLog
  <2>1. \/ missing' = missing
        \/ \E S \in SUBSET RowKinds : missing' = [missing EXCEPT ![cur] = @ \cap S]
    BY <1>9, Zenon DEF FetchLog
  <2>2. missing' \in [Instances -> SUBSET RowKinds]
    BY <2>1, Zenon DEF Shape
  <2>3. /\ pc' \in {"next", "destroy"} /\ pos' \in {pos, pos + 1} /\ iter' = iter /\ kills' = kills
        /\ UNCHANGED <<given, pods, launching, done, harvested>>
    BY <1>9 DEF FetchLog, Goto, Skip
  <2> QED BY <1>1, <2>2, <2>3 DEF Shape, PodTyped, given
<1>10. CASE Destroy
  BY <1>1, <1>10 DEF Destroy, Goto, Shape, PodTyped, given, files
<1>11. CASE Retire
  <2>1. cur \in Instances
    BY <1>11, CurIsListed DEF Retire
  <2>2. done' \in Seq(Instances)
    BY <1>11, <2>1 DEF Retire, Shape
  <2> QED BY <1>1, <1>11, <2>2 DEF Retire, Goto, Shape, PodTyped, given
<1>12. CASE Harvest
  <2>1. cur \in Instances
    BY <1>12, CurIsListed DEF Harvest
  <2> QED BY <1>1, <1>12, <2>1 DEF Harvest, Skip, Shape, PodTyped, given
<1>13. CASE CreditCheck \/ Expired
  BY <1>1, <1>13 DEF CreditCheck, Expired, Goto, Exit, Shape, PodTyped, given, files
<1> QED BY <1>2, <1>3, <1>4, <1>5, <1>6, <1>7, <1>8, <1>9, <1>10, <1>11, <1>12, <1>13
        DEF Next, WatchStep

(* Every step keeps the ages within their stages.                          *)
LEMMA AgesKeep ==
  ASSUME Shape, Ages, Next
  PROVE  Ages'
<1>1. PodTyped /\ \A i \in Instances : Moves(i)
  BY EachInstanceMoves
<1> SUFFICES ASSUME NEW i \in Instances
             PROVE  /\ stage'[i] = "boot" => age'[i] <= MaxBoot
                    /\ stage'[i] = "run" => age'[i] <= bar'[i]
                    /\ stage'[i] = "grace" => age'[i] <= Grace
                    /\ stage'[i] \in {"none", "gone"} => age'[i] = 0
  BY DEF Ages
<1>2. /\ stage[i] = "boot" => age[i] <= MaxBoot
      /\ stage[i] = "run" => age[i] <= bar[i]
      /\ stage[i] = "grace" => age[i] <= Grace
      /\ stage[i] \in {"none", "gone"} => age[i] = 0
      /\ age[i] \in Nat /\ stage[i] \in Stages /\ bar[i] \in Nat /\ bar'[i] \in Nat
  <2>1. bar'[i] \in Nat
    BY <1>1, BudgetCoversStages DEF PodTyped
  <2> QED BY <2>1, BarsAreNat DEF Ages, Shape
<1>3. CASE Ages1(i)
  BY <1>2, <1>3, BudgetCoversStages DEF Ages1, Due, Alive, Stages
<1>4. CASE Destroyed(i)
  BY <1>4 DEF Destroyed
<1>5. CASE Stays(i) \/ Created(i) \/ BootFailed(i) \/ Started(i) \/ Ended(i)
  BY <1>2, <1>5, BudgetCoversStages DEF Stays, Created, BootFailed, Started, Ended
<1> QED BY <1>1, <1>3, <1>4, <1>5 DEF Moves

(* Every step keeps the listing in hand no older than it is.               *)
LEMMA ListingKeeps ==
  ASSUME Shape, Listing, Next
  PROVE  Listing'
<1>1. PodTyped /\ \A i \in Instances : Moves(i)
  BY EachInstanceMoves
<1>2. \A i \in Instances : stage'[i] = "none" => stage[i] = "none"
  BY <1>1 DEF Moves, Stays, Created, BootFailed, Started, Ended, Destroyed, Ages1
<1>3. ASSUME UNCHANGED <<pods, launching, done>>,
             \/ pc' = pc /\ pos' = pos
             \/ pos' = 1 /\ pc' \notin {"fetch", "destroy", "retire", "harvest"}
             \/ pos' = pos + 1 /\ pc' = "next" /\ pos <= Len(pods)
             \/ /\ pos' = pos
                /\ pc' \in {"fetch", "destroy", "retire", "harvest"} => pos <= Len(pods)
                /\ pc' \in {"fetch", "destroy", "retire"} => cur \notin ToSet(done)
      PROVE  Listing'
  <2>1. Len(pods) \in Nat /\ pos \in Nat \ {0} /\ pos <= Len(pods) + 1
    BY DEF Shape, Listing
  <2>2. \A i \in Instances : stage'[i] = "none" => i \notin ToSet(pods') \cup launching'
    BY <1>2, <1>3 DEF Listing
  <2> QED BY <1>3, <2>1, <2>2 DEF Listing, cur
<1>4. CASE LaunchStep
  <2>1. PICK i \in Instances : CreateInstance(i) \/ AppendPods(i) \/ LaunchKilled(i)
    BY <1>4 DEF LaunchStep
  <2>2. CASE CreateInstance(i)
    <3>1. /\ stage[i] = "none" /\ stage'[i] = "boot" /\ launching' = {i}
          /\ UNCHANGED <<pods, done, pc, pos>>
      BY <2>2 DEF CreateInstance, Shape, watch
    <3>2. i \notin ToSet(pods)
      BY <3>1 DEF Listing
    <3>3. \A j \in Instances : stage'[j] = "none" => j \notin ToSet(pods) \cup launching'
      BY <1>2, <3>1 DEF Listing
    <3> QED BY <3>1, <3>2, <3>3 DEF Listing, cur
  <2>3. CASE AppendPods(i)
    <3>1. /\ i \in launching /\ pods' = Append(pods, i) /\ launching' = {}
          /\ UNCHANGED <<stage, done, pc, pos>>
      BY <2>3 DEF AppendPods, pod, watch
    <3>2. i \notin ToSet(pods) /\ stage[i] # "none"
      BY <3>1 DEF Listing
    <3>3. ToSet(pods') = ToSet(pods) \cup {i} /\ IsInjective(pods')
      BY <3>1, <3>2, AppendLists DEF Shape, Listing
    <3>4. Len(pods') = Len(pods) + 1 /\ Len(pods) \in Nat /\ pos \in Nat \ {0}
      BY <3>1 DEF Shape
    <3>5. pc \in {"fetch", "destroy", "retire", "harvest"} => cur' = cur
      BY <3>1, CurIsListed DEF cur, Shape
    <3>6. \A j \in Instances : stage'[j] = "none" => j \notin ToSet(pods') \cup launching'
      BY <3>1, <3>2, <3>3 DEF Listing
    <3>7. pos' <= Len(pods') + 1 /\ (pos <= Len(pods) => pos' <= Len(pods'))
      BY <3>1, <3>4 DEF Listing
    <3> QED BY <3>1, <3>3, <3>5, <3>6, <3>7 DEF Listing
  <2>4. CASE LaunchKilled(i)
    <3>1. launching' = {} /\ UNCHANGED <<pods, done, pc, pos>>
      BY <2>4 DEF LaunchKilled, watch
    <3> QED BY <1>2, <3>1 DEF Listing, cur
  <2> QED BY <2>1, <2>2, <2>3, <2>4
<1>5. ASSUME NEW i \in Instances, PodStep(i)
      PROVE  Listing'
  BY <1>3, <1>5 DEF PodStep, BootFails, StartRun, PrintRow, RunEnds, SelfDestruct, files, watch
<1>6. CASE Asleep \/ SleepOver \/ StartWatchdog \/ WatchdogKilled \/ CreditCheck \/ Expired
  BY <1>3, <1>6 DEF Asleep, SleepOver, StartWatchdog, WatchdogKilled, CreditCheck, Expired,
                    Goto, Exit, Stops, files, watch
<1>7. CASE NextLabel \/ FetchLog \/ Destroy \/ Harvest
  <2>1. UNCHANGED <<pods, launching, done>>
    BY <1>7 DEF NextLabel, FetchLog, Destroy, Harvest, files
  <2>2. pos \in Nat \ {0} /\ Len(pods) \in Nat
    BY DEF Shape
  <2> QED BY <1>3, <1>7, <2>1, <2>2 DEF NextLabel, FetchLog, Destroy, Harvest, Goto, Skip,
                                        Listing, cur
<1>8. CASE Retire
  <2>1. /\ pc = "retire" /\ done' = Append(done, cur) /\ pc' = "harvest" /\ pos' = pos
        /\ UNCHANGED <<pods, launching>>
    BY <1>8 DEF Retire, Goto
  <2>2. cur \in Instances /\ cur \in ToSet(pods) /\ cur \notin ToSet(done) /\ pos <= Len(pods)
    BY <2>1, CurIsListed DEF Listing
  <2>3. ToSet(done') = ToSet(done) \cup {cur} /\ IsInjective(done')
    BY <2>1, <2>2, AppendLists DEF Shape, Listing
  <2> QED BY <1>2, <2>1, <2>2, <2>3 DEF Listing
<1> QED BY <1>4, <1>5, <1>6, <1>7, <1>8 DEF Next, WatchStep

(* Every step keeps what was fetched, and from which pod.                  *)
LEMMA FetchedKeeps ==
  ASSUME Shape, Listing, Fetched, Next
  PROVE  Fetched'
<1>1. PodTyped /\ \A i \in Instances : Moves(i)
  BY EachInstanceMoves
<1>2. ASSUME NEW i \in Instances, "ALL_DONE" \in marker'[i]
      PROVE  "REPLAY" \in marker'[i] /\ stage'[i] = "grace"
  <2>1. "ALL_DONE" \in marker[i] => "REPLAY" \in marker[i] /\ stage[i] = "grace"
    BY DEF Fetched
  <2>2. CASE Ended(i)
    BY <1>2, <2>1, <2>2 DEF Ended
  <2>3. CASE Stays(i) \/ Created(i) \/ BootFailed(i) \/ Started(i) \/ Destroyed(i) \/ Ages1(i)
    BY <1>2, <2>1, <2>3 DEF Stays, Created, BootFailed, Started, Destroyed, Ages1
  <2> QED BY <1>1, <2>2, <2>3 DEF Moves
<1>3. \A i \in Instances : stage[i] \in {"grace", "gone"} => stage'[i] \in {"grace", "gone"}
  BY <1>1 DEF Moves, Stays, Created, BootFailed, Started, Ended, Destroyed, Ages1, Alive
<1> DEFINE Reliable == /\ pc \in {"destroy", "retire", "harvest"}
                       /\ stage[cur] \in {"grace", "gone"} /\ missing[cur] \cap Replayed = {}
<1>4. ASSUME sound' = sound, pc \in {"destroy", "retire", "harvest"} =>
               /\ pc' \in {"destroy", "retire", "harvest"} /\ cur' = cur
               /\ missing[cur] \cap Replayed = {} /\ stage[cur] \in {"grace", "gone"}
                    => missing'[cur] \cap Replayed = {}
      PROVE  sound' \in BOOLEAN /\ (sound' => Reliable')
  <2>1. sound \in BOOLEAN /\ (sound => Reliable)
    BY DEF Fetched
  <2>2. pc \in {"destroy", "retire", "harvest"} => cur \in Instances
    BY CurIsListed
  <2> QED BY <1>3, <1>4, <2>1, <2>2
<1>5. sound' \in BOOLEAN /\ (sound' => Reliable')
  <2>1. CASE LaunchStep
    <3>1. PICK i \in Instances : CreateInstance(i) \/ AppendPods(i) \/ LaunchKilled(i)
      BY <2>1 DEF LaunchStep
    <3>2. /\ pods' = pods \/ pods' = Append(pods, i)
          /\ UNCHANGED <<pc, pos, missing, sound>>
      BY <3>1 DEF CreateInstance, AppendPods, LaunchKilled, watch, history
    <3>3. pc \in {"destroy", "retire", "harvest"} => cur' = cur
      <4>1. pods \in Seq(Instances) /\ i \in Instances
        BY DEF Shape
      <4>2. pc \in {"destroy", "retire", "harvest"} => pos \in 1 .. Len(pods)
        BY CurIsListed, <4>1
      <4> QED BY <3>2, <4>1, <4>2 DEF cur
    <3> QED BY <1>4, <3>2, <3>3
  <2>2. ASSUME NEW i \in Instances, PodStep(i)
        PROVE  sound' \in BOOLEAN /\ (sound' => Reliable')
    <3>1. /\ \/ missing' = missing
             \/ /\ stage[i] = "run"
                /\ \E row \in RowKinds : missing' = [missing EXCEPT ![i] = @ \cup {row}]
          /\ UNCHANGED <<pods, pc, pos, sound>>
      <4>1. CASE PrintRow(i)
        <5>1. /\ stage[i] = "run"
              /\ \E row \in RowKinds : missing' = [missing EXCEPT ![i] = @ \cup {row}]
          BY <4>1, Zenon DEF PrintRow
        <5>2. UNCHANGED <<pods, pc, pos, sound>>
          BY <4>1 DEF PrintRow, watch, history
        <5> QED BY <5>1, <5>2
      <4>2. CASE BootFails(i) \/ StartRun(i) \/ RunEnds(i) \/ SelfDestruct(i)
        BY <4>2 DEF BootFails, StartRun, RunEnds, SelfDestruct, files, watch, history
      <4> QED BY <2>2, <4>1, <4>2 DEF PodStep
    <3>2. pc \in {"destroy", "retire", "harvest"} /\ stage[cur] \in {"grace", "gone"}
            => missing'[cur] = missing[cur]
      <4>1. CASE missing' = missing
        BY <4>1
      <4>2. ASSUME stage[i] = "run", NEW row \in RowKinds,
                   missing' = [missing EXCEPT ![i] = @ \cup {row}],
                   pc \in {"destroy", "retire", "harvest"}, stage[cur] \in {"grace", "gone"}
            PROVE  missing'[cur] = missing[cur]
        <5>1. cur # i
          BY <4>2
        <5>2. cur \in Instances
          BY <4>2, CurIsListed
        <5>3. missing \in [Instances -> SUBSET RowKinds]
          BY DEF Shape
        <5> QED BY <4>2, <5>1, <5>2, <5>3, Zenon
      <4> QED BY <3>1, <4>1, <4>2
    <3> QED BY <1>4, <3>1, <3>2 DEF cur
  <2>3. CASE Asleep
    BY <1>4, <2>3 DEF Asleep, files, watch, history, cur
  <2>4. CASE \/ SleepOver \/ StartWatchdog \/ NextLabel \/ CreditCheck \/ Expired
    <3>1. sound' = sound /\ pc \notin {"destroy", "retire", "harvest"}
      BY <2>4 DEF SleepOver, StartWatchdog, NextLabel, CreditCheck, Expired, history, Running,
                  Stops
    <3> QED BY <1>4, <3>1
  <2>5. CASE WatchdogKilled \/ Harvest
    BY <2>5 DEF WatchdogKilled, Harvest
  <2>6. CASE Destroy \/ Retire
    BY <1>4, <2>6 DEF Destroy, Retire, Goto, files, history, cur
  <2>7. CASE FetchLog
    <3>1. CASE sound' = sound
      BY <1>4, <2>7, <3>1 DEF FetchLog
    <3>2. CASE sound' # sound
      <4>1. PICK full \in BOOLEAN, scrolled \in SUBSET RowKinds :
              /\ full /\ "REPLAY" \in marker[cur] => scrolled \cap Replayed = {}
              /\ missing' = [missing EXCEPT ![cur] = @ \cap scrolled]
              /\ pc' = "destroy" /\ pos' = pos
              /\ sound' = (full /\ "ALL_DONE" \in marker[cur])
        BY <2>7, <3>2, Zenon DEF FetchLog, Goto
      <4>2. pods' = pods /\ cur \in Instances
        BY <2>7, CurIsListed DEF FetchLog
      <4>3. cur' = cur
        BY <4>1, <4>2 DEF cur
      <4>4. sound' => "REPLAY" \in marker[cur] /\ stage[cur] = "grace" /\ full
        BY <4>1, <4>2 DEF Fetched
      <4>5. sound' => missing'[cur] \cap Replayed = {}
        <5>1. sound' => scrolled \cap Replayed = {}
          BY <4>1, <4>4
        <5>2. missing'[cur] = missing[cur] \cap scrolled
          BY <4>1, <4>2, Zenon DEF Shape
        <5> QED BY <5>1, <5>2
      <4> QED BY <1>3, <4>1, <4>2, <4>3, <4>4, <4>5
    <3> QED BY <3>1, <3>2
  <2> QED BY <2>1, <2>2, <2>3, <2>4, <2>5, <2>6, <2>7 DEF Next, WatchStep
<1> QED BY <1>2, <1>5 DEF Fetched

(* Every step keeps the wall clock and the bar it is compared with.        *)
LEMMA ClockKeeps ==
  ASSUME IInv, Next
  PROVE  Clock'
<1>1. Shape /\ Ages /\ Listing /\ Clock /\ PodTyped /\ \A i \in Instances : Moves(i)
  BY EachInstanceMoves DEF IInv
<1>2. /\ iter \in Nat /\ BudgetIters \in Nat /\ BudgetIters >= 1 /\ MaxBoot \in Nat
      /\ iter <= BudgetIters
  BY <1>1, BudgetCoversStages DEF Shape, Clock
<1>3. ASSUME NEW i \in Instances
      PROVE  /\ age[i] \in Nat /\ age'[i] \in Nat
             /\ stage[i] = "boot" => age[i] <= MaxBoot
             /\ stage[i] = "none" => i \notin ToSet(pods)
  BY <1>1 DEF Shape, Ages, Listing, PodTyped
<1> DEFINE Old(i, n) == /\ stage[i] = "boot" => n <= age[i]
                        /\ stage[i] = "run" => n <= MaxBoot + age[i]
           Aged(i, n) == /\ stage'[i] = "boot" => n <= age'[i]
                         /\ stage'[i] = "run" => n <= MaxBoot + age'[i]
<1>4. ASSUME NEW i \in Instances, NEW n \in Int, i \in ToSet(pods), Old(i, n)
      PROVE  Aged(i, n)
  BY <1>1, <1>2, <1>3, <1>4 DEF Moves, Stays, Created, BootFailed, Started, Ended, Destroyed,
                                Ages1, Alive
<1>5. ASSUME pc' = pc \/ (Running /\ pc # "expired" /\ pc' # "expired" /\ Running'), iter' = iter,
             ToSet(pods') \ late' \subseteq ToSet(pods) \ late \/ ~Running
      PROVE  Clock'
  <2>1. Slept' = Slept /\ Slept \in Int /\ (Running' => Running)
    BY <1>2, <1>5 DEF Slept, Running
  <2>2. ASSUME Running', NEW i \in Instances, i \in ToSet(pods') \ late'
        PROVE  Aged(i, Slept')
    <3>1. i \in ToSet(pods) \ late
      BY <1>5, <2>1, <2>2
    <3>2. Old(i, Slept)
      BY <1>1, <2>1, <2>2, <3>1 DEF Clock
    <3> QED BY <1>4, <2>1, <3>1, <3>2
  <2>3. (Running' => iter' >= 1) /\ (pc' = "expired" => iter' = BudgetIters)
    BY <1>1, <1>5, <2>1 DEF Clock
  <2> QED BY <1>2, <1>5, <2>2, <2>3 DEF Clock
<1>6. ASSUME ~Running', iter' = 0 PROVE Clock'
  BY <1>2, <1>6 DEF Clock, Running, Stops
<1>7. CASE LaunchStep
  <2>1. PICK i \in Instances : CreateInstance(i) \/ AppendPods(i) \/ LaunchKilled(i)
    BY <1>7 DEF LaunchStep
  <2>2. pc' = pc /\ iter' = iter
    BY <2>1 DEF CreateInstance, AppendPods, LaunchKilled, watch
  <2>3. CASE CreateInstance(i) \/ LaunchKilled(i)
    <3>1. pods' = pods /\ late' = late
      BY <2>3 DEF CreateInstance, LaunchKilled, history
    <3> QED BY <1>5, <2>2, <3>1
  <2>4. CASE AppendPods(i)
    <3>1. pods' = Append(pods, i) /\ late' = IF Running THEN late \cup {i} ELSE late
      BY <2>4 DEF AppendPods
    <3>2. ToSet(pods') = ToSet(pods) \cup {i}
      BY <1>1, <3>1, AppendLists DEF Shape
    <3> QED BY <1>5, <2>2, <3>1, <3>2
  <2> QED BY <2>1, <2>3, <2>4
<1>8. CASE (\E i \in Instances : PodStep(i)) \/ Asleep
  <2>1. UNCHANGED <<pods, late, pc, iter>>
    BY <1>8 DEF PodStep, BootFails, StartRun, PrintRow, RunEnds, SelfDestruct, Asleep, files,
                watch, history
  <2> QED BY <1>5, <2>1
<1>9. CASE SleepOver
  <2>1. /\ pc = "sleep" /\ UNCHANGED <<stage, pods, late>> /\ age' = Older
        /\ \/ iter < BudgetIters /\ pc' = "next" /\ iter' = iter + 1
           \/ ~(iter < BudgetIters) /\ pc' = "expired" /\ iter' = iter
    BY <1>9 DEF SleepOver, files, history
  <2>2. Running /\ Slept = iter - 1 /\ Slept' = iter
    BY <1>2, <2>1 DEF Running, Stops, Slept
  <2>3. ASSUME NEW i \in Instances, i \in ToSet(pods') \ late'
        PROVE  Aged(i, Slept')
    <3>1. Old(i, iter - 1)
      BY <1>1, <2>1, <2>2, <2>3 DEF Clock
    <3>2. stage'[i] = stage[i]
      BY <2>1
    <3>3. stage[i] \in {"boot", "run"} => age'[i] = age[i] + 1
      BY <2>1 DEF Older, Alive
    <3> QED BY <1>2, <1>3, <2>2, <3>1, <3>2, <3>3
  <2>4. iter' >= 1 /\ iter' <= BudgetIters /\ (pc' = "expired" => iter' = BudgetIters)
    BY <1>1, <1>2, <2>1, <2>2 DEF Clock
  <2> QED BY <2>3, <2>4 DEF Clock
<1>10. CASE StartWatchdog
  <2>1. pc' = "next" /\ iter' = 1
    BY <1>10 DEF StartWatchdog
  <2>2. Slept' = 0
    BY <2>1 DEF Slept
  <2>3. \A i \in Instances : Aged(i, 0)
    BY <1>2, <1>3
  <2> QED BY <1>2, <2>1, <2>2, <2>3 DEF Clock
<1>11. CASE WatchdogKilled \/ Expired
  BY <1>6, <1>11 DEF WatchdogKilled, Expired, Exit, Running, Stops
<1>12. CASE NextLabel \/ FetchLog \/ Destroy \/ Retire \/ Harvest
  <2>1. UNCHANGED <<pods, late, iter>>
    BY <1>12 DEF NextLabel, FetchLog, Destroy, Retire, Harvest, Goto, Skip, files, history
  <2>2. Running /\ pc # "expired" /\ pc' # "expired" /\ Running'
    BY <1>12 DEF NextLabel, FetchLog, Destroy, Retire, Harvest, Goto, Skip, Running, Stops
  <2> QED BY <1>5, <2>1, <2>2
<1>13. CASE CreditCheck
  <2>1. CASE pc' \in Stops /\ iter' = 0
    BY <1>6, <2>1 DEF Running
  <2>2. CASE pc' = "sleep" /\ iter' = iter
    <3>1. UNCHANGED <<pods, late>> /\ pc = "credit"
      BY <1>13 DEF CreditCheck, files, history
    <3> QED BY <1>5, <2>2, <3>1 DEF Running, Stops
  <2> QED BY <1>13, <2>1, <2>2 DEF CreditCheck, Exit, Goto, Stops
<1> QED BY <1>7, <1>8, <1>9, <1>10, <1>11, <1>12, <1>13 DEF Next, WatchStep

(* Every step keeps the invariant.                                         *)
LEMMA NextKeeps == IInv /\ [Next]_vars => IInv'
<1> SUFFICES ASSUME IInv, [Next]_vars PROVE IInv'
  OBVIOUS
<1>1. CASE UNCHANGED vars
  <2>1. /\ UNCHANGED <<keyed, flaky, stage, age, marker, bar>>
        /\ UNCHANGED <<pods, launching, done, missing, harvested>>
        /\ UNCHANGED <<pc, pos, iter, kills, late, sound>>
    BY <1>1 DEF vars, given, pod, files, watch, history
  <2>2. cur' = cur /\ Slept' = Slept /\ (Running' <=> Running)
    BY <2>1 DEF cur, Slept, Running
  <2>3. Shape' /\ Ages' /\ Listing'
    BY <2>1, <2>2 DEF IInv, Shape, Ages, Listing
  <2>4. Fetched' /\ Clock'
    BY <2>1, <2>2 DEF IInv, Fetched, Clock
  <2> QED BY <2>3, <2>4 DEF IInv
<1>2. CASE Next
  BY <1>2, ShapeKeeps, AgesKeep, ListingKeeps, FetchedKeeps, ClockKeeps DEF IInv
<1> QED BY <1>1, <1>2

(* The invariant holds in every reachable state.                           *)
THEOREM Inductive == Spec => []IInv
BY InitHolds, NextKeeps, PTL DEF Spec

(* TypeOK: every variable of the scripts keeps its shape, the polls their  *)
(* budget, and no instance overstays a stage (boot.sh's timeouts).         *)
THEOREM TypeCorrect == Spec => []TypeOK
<1>1. IInv => TypeOK
  <2> SUFFICES ASSUME IInv PROVE TypeOK
    OBVIOUS
  <2>1. ASSUME NEW i \in Instances
        PROVE  age[i] <= CASE stage[i] = "boot" -> MaxBoot [] stage[i] = "run" -> bar[i]
                           [] stage[i] = "grace" -> Grace [] OTHER -> 0
    <3>1. /\ stage[i] = "boot" => age[i] <= MaxBoot
          /\ stage[i] = "run" => age[i] <= bar[i]
          /\ stage[i] = "grace" => age[i] <= Grace
          /\ stage[i] \in {"none", "gone"} => age[i] = 0
          /\ age[i] \in Nat /\ stage[i] \in Stages /\ bar[i] \in Nat
      BY BarsAreNat DEF IInv, Ages, Shape
    <3> QED BY <3>1, BudgetCoversStages DEF Stages
  <2>2. Len(pods) \in Nat /\ pos \in 1 .. Len(pods) + 1 /\ iter \in 0 .. BudgetIters
    BY BudgetCoversStages DEF IInv, Shape, Listing, Clock
  <2>3. pc \in {"off", "next", "fetch", "destroy", "retire", "harvest", "credit", "sleep",
                "expired"} \cup Stops
    BY DEF IInv, Shape, Commands
  <2> QED BY <2>1, <2>2, <2>3 DEF IInv, Shape, Stages, TypeOK
<1> QED BY <1>1, Inductive, PTL

(* HarvestComplete: the records a poll fetched stay complete until their   *)
(* harvest, through the destroy, the retirement and whatever the instance  *)
(* does in between, for every choice of the rows the replay repeats (of    *)
(* the others, [diag], nothing is claimed).                                *)
THEOREM HarvestsAreComplete == Spec => HarvestComplete
<1>1. IInv /\ [Next]_vars => 
        [harvested' # harvested /\ sound => missing[cur] \cap Replayed = {}]_vars
  BY DEF IInv, Fetched
<1> QED BY <1>1, Inductive, PTL DEF Spec, HarvestComplete

(* ExpiryAfterBar: the poll budget outlasts boot, bar and grace of every   *)
(* instance listed when the watchdog started, for every budget and grace   *)
(* and every bar of its own that the YAML's budget or the floor covers.    *)
THEOREM ExpiryIsAfterBar == Spec => ExpiryAfterBar
<1>1. IInv /\ [Next]_vars => 
        [\A i \in Instances : Reaps(i) => i \in late \/ Outbid(i)]_vars
  <2> SUFFICES ASSUME IInv, Next, NEW i \in Instances, Reaps(i), ~Outbid(i)
               PROVE  i \in late
    OBVIOUS
  <2>1. pc = "expired" /\ stage[i] \in {"boot", "run"} /\ stage'[i] = "gone"
    BY DEF Reaps, Healthy
  <2>2. i \in ToSet(pods)
    <3>1. \/ Expired \/ LaunchStep \/ WatchdogKilled \/ Asleep
          \/ \E j \in Instances : PodStep(j)
      BY <2>1 DEF Next, WatchStep, StartWatchdog, Running, Stops, NextLabel, FetchLog, Destroy,
                  Retire, Harvest, CreditCheck, SleepOver
    <3>2. CASE Expired
      <4>1. Stays(i) \/ (i \in ToSet(pods) /\ Destroyed(i))
        BY <3>2, DestroyCallsEach DEF Expired, IInv
      <4> QED BY <2>1, <4>1 DEF Stays
    <3>3. CASE WatchdogKilled \/ Asleep
      BY <2>1, <3>3 DEF WatchdogKilled, Asleep, pod
    <3>4. CASE LaunchStep
      <4>1. stage' = stage \/ \E j \in Instances : stage' = [stage EXCEPT ![j] = "boot"]
        BY <3>4 DEF LaunchStep, CreateInstance, AppendPods, LaunchKilled, pod
      <4> QED BY <2>1, <4>1 DEF IInv, Shape
    <3>5. ASSUME NEW j \in Instances, PodStep(j)
          PROVE  FALSE
      <4>1. CASE SelfDestruct(j)
        <5>1. stage[j] = "grace" /\ Dies({j})
          BY <4>1 DEF SelfDestruct
        <5>2. Stays(i) \/ i = j
          BY <5>1, DiesEach DEF IInv
        <5> QED BY <2>1, <5>1, <5>2 DEF Stays
      <4>2. CASE BootFails(j) \/ StartRun(j) \/ PrintRow(j) \/ RunEnds(j)
        <5>1. stage' = stage \/ \E s \in {"run", "grace"} : stage' = [stage EXCEPT ![j] = s]
          BY <4>2 DEF BootFails, StartRun, PrintRow, RunEnds, Enter, pod
        <5> QED BY <2>1, <5>1 DEF IInv, Shape
      <4> QED BY <3>5, <4>1, <4>2 DEF PodStep
    <3> QED BY <3>1, <3>2, <3>3, <3>4, <3>5
  <2>3. Running /\ Slept = BudgetIters
    BY <2>1 DEF Running, Stops, Slept, IInv, Clock
  <2>4. /\ age[i] \in Nat
        /\ stage[i] = "boot" => age[i] <= MaxBoot
        /\ stage[i] = "run" => age[i] <= bar[i]
    BY DEF IInv, Shape, Ages
  <2>5. bar[i] \in Nat /\ MaxBoot + bar[i] < BudgetIters
    <3>1. bar[i] \in Nat /\ (bar[i] <= GpuBudget \/ bar[i] + Grace + 1 <= MinIters)
      BY BudgetCoversStages, BarsAreNat DEF Outbid, IInv
    <3> QED BY <3>1, BudgetCoversStages
  <2>6. i \notin late => Slept <= MaxBoot + bar[i]
    <3>1. i \notin late => /\ stage[i] = "boot" => Slept <= age[i]
                           /\ stage[i] = "run" => Slept <= MaxBoot + age[i]
      BY <2>2, <2>3 DEF IInv, Clock
    <3> QED BY <2>1, <2>3, <2>4, <2>5, <3>1, BudgetCoversStages
  <2> QED BY <2>3, <2>5, <2>6, BudgetCoversStages
<1> QED BY <1>1, Inductive, PTL DEF Spec, ExpiryAfterBar

(* AllDoneIsTrue: done.txt has as many lines as pods.txt only when it has  *)
(* the same labels.                                                        *)
THEOREM AllDoneMeansAll == Spec => AllDoneIsTrue
<1>1. IInv /\ [Next]_vars =>
        [pc' # pc /\ pc' = "ALL_DONE" => ToSet(pods) \subseteq ToSet(done)]_vars
  <2> SUFFICES ASSUME IInv, Next, pc' # pc, pc' = "ALL_DONE"
               PROVE  ToSet(pods) \subseteq ToSet(done)
    OBVIOUS
  <2>1. CreditCheck /\ Len(done) >= Len(pods)
    BY DEF Next, LaunchStep, CreateInstance, AppendPods, LaunchKilled, PodStep, BootFails,
           StartRun, PrintRow, RunEnds, SelfDestruct, Asleep, StartWatchdog, WatchdogKilled,
           WatchStep, NextLabel, FetchLog, Destroy, Retire, Harvest, CreditCheck, SleepOver,
           Expired, Goto, Skip, Exit, watch
  <2>2. /\ pods \in Seq(Instances) /\ done \in Seq(Instances)
        /\ IsInjective(pods) /\ IsInjective(done) /\ ToSet(done) \subseteq ToSet(pods)
    BY DEF IInv, Shape, Listing
  <2>3. /\ IsFiniteSet(ToSet(pods)) /\ Cardinality(ToSet(pods)) = Len(pods)
        /\ Cardinality(ToSet(done)) = Len(done)
    BY <2>2, DistinctCounts
  <2>4. Cardinality(ToSet(done)) <= Cardinality(ToSet(pods))
    BY <2>2, <2>3, FS_Subset
  <2>5. Len(pods) \in Nat /\ Len(done) \in Nat
    BY <2>2
  <2>6. Cardinality(ToSet(done)) = Cardinality(ToSet(pods))
    BY <2>1, <2>3, <2>4, <2>5
  <2> QED BY <2>2, <2>3, <2>6, FS_Subset
<1> QED BY <1>1, Inductive, PTL DEF Spec, AllDoneIsTrue

(***************************************************************************)
(* PodRecords: picking lines.                                              *)
(***************************************************************************)

(* F is the function by which Picked walks the first m elements of s.      *)
Walks(s, keep, m, F) ==
  F = [n \in 0 .. m |->
        IF n = 0 THEN <<>> ELSE IF n \in keep THEN Append(F[n - 1], s[n]) ELSE F[n - 1]]

(* There is one for every m.                                               *)
LEMMA WalkExists ==
  ASSUME NEW s, NEW keep, NEW m \in Nat
  PROVE  \E F : Walks(s, keep, m, F)
<1> DEFINE Missing == {n \in Nat : ~\E F : Walks(s, keep, n, F)}
<1>1. SUFFICES ASSUME Missing # {}
               PROVE  FALSE
  OBVIOUS
<1>2. PICK n \in Missing : \A k \in Missing : n <= k
  BY <1>1, LeastElement
<1>3. CASE n = 0
  <2> DEFINE F == [k \in 0 .. 0 |-> <<>>]
  <2>1. Walks(s, keep, 0, F)
    BY DEF Walks
  <2>2. QED
    BY <1>2, <1>3, <2>1
<1>4. CASE n # 0
  <2>1. n - 1 \in Nat /\ n \in Nat /\ n - 1 \notin Missing
    BY <1>2, <1>4
  <2>2. PICK G : Walks(s, keep, n - 1, G)
    BY <2>1
  <2> DEFINE F == [k \in 0 .. n |->
                    IF k = n THEN IF n \in keep THEN Append(G[n - 1], s[n]) ELSE G[n - 1]
                             ELSE G[k]]
  <2>3. \A k \in 0 .. n - 1 : F[k] = G[k]
    BY <2>1
  <2>4. \A k \in 0 .. n - 1 :
          G[k] = IF k = 0 THEN <<>> ELSE IF k \in keep THEN Append(G[k - 1], s[k]) ELSE G[k - 1]
    BY <2>2 DEF Walks
  <2>5. \A k \in 0 .. n :
          F[k] = IF k = 0 THEN <<>> ELSE IF k \in keep THEN Append(F[k - 1], s[k]) ELSE F[k - 1]
    <3>1. SUFFICES ASSUME NEW k \in 0 .. n
                   PROVE  F[k] = IF k = 0 THEN <<>>
                                 ELSE IF k \in keep THEN Append(F[k - 1], s[k]) ELSE F[k - 1]
      OBVIOUS
    <3>2. CASE k = n
      <4>1. F[n] = IF n \in keep THEN Append(G[n - 1], s[n]) ELSE G[n - 1]
        BY <2>1
      <4>2. F[n - 1] = G[n - 1]
        BY <2>1, <2>3
      <4> HIDE DEF F
      <4>3. QED
        BY <1>4, <3>2, <4>1, <4>2
    <3>3. CASE k # n
      <4>1. k \in 0 .. n - 1 /\ (k # 0 => k - 1 \in 0 .. n - 1)
        BY <2>1, <3>3
      <4>2. F[k] = G[k] /\ (k # 0 => F[k - 1] = G[k - 1])
        BY <2>3, <4>1
      <4> HIDE DEF F
      <4>3. QED
        BY <2>4, <4>1, <4>2
    <3>4. QED
      BY <3>2, <3>3
  <2>6. F = [k \in 0 .. n |-> F[k]]
    OBVIOUS
  <2>7. Walks(s, keep, n, F)
    <3> HIDE DEF F
    <3>1. QED
      BY <2>5, <2>6 DEF Walks
  <2>8. QED
    BY <1>2, <2>1, <2>7
<1>5. QED
  BY <1>3, <1>4

(* So the elements picked are those of the positions to keep; elements     *)
(* that differ there stay apart.                                           *)
Picks(S, s, keep, n, t) ==
  /\ t \in Seq(S)
  /\ ToSet(t) = {s[i] : i \in keep \cap (1 .. n)}
  /\ (\A i, j \in keep : s[i] = s[j] => i = j) => IsInjective(t)

(* One more position is picked or passed over.                             *)
LEMMA PickOne ==
  ASSUME NEW S, NEW s \in Seq(S), NEW keep \in SUBSET DOMAIN s, NEW n \in 1 .. Len(s),
         NEW t, Picks(S, s, keep, n - 1, t)
  PROVE  Picks(S, s, keep, n, IF n \in keep THEN Append(t, s[n]) ELSE t)
<1>1. n \in Nat /\ n - 1 \in Nat /\ Len(s) \in Nat /\ DOMAIN s = 1 .. Len(s) /\ s[n] \in S
  OBVIOUS
<1>2. 1 .. n = (1 .. (n - 1)) \cup {n}
  BY <1>1
<1>3. CASE n \in keep
  <2>1. keep \cap (1 .. n) = (keep \cap (1 .. (n - 1))) \cup {n}
    BY <1>2, <1>3
  <2>2. t \in Seq(S) /\ ToSet(t) = {s[i] : i \in keep \cap (1 .. (n - 1))}
    BY DEF Picks
  <2>3. /\ ToSet(Append(t, s[n])) = ToSet(t) \cup {s[n]}
        /\ IsInjective(t) /\ s[n] \notin ToSet(t) => IsInjective(Append(t, s[n]))
    BY <1>1, <2>2, AppendLists
  <2>4. ToSet(Append(t, s[n])) = {s[i] : i \in keep \cap (1 .. n)}
    BY <2>1, <2>2, <2>3
  <2>5. ASSUME \A i, j \in keep : s[i] = s[j] => i = j
        PROVE  IsInjective(Append(t, s[n]))
    <3>1. s[n] \notin ToSet(t)
      BY <1>1, <1>3, <2>2, <2>5
    <3>2. IsInjective(t)
      BY <2>5 DEF Picks
    <3>3. QED
      BY <2>3, <3>1, <3>2
  <2>6. Append(t, s[n]) \in Seq(S)
    BY <1>1, <2>2
  <2>7. QED
    BY <1>3, <2>4, <2>5, <2>6 DEF Picks
<1>4. CASE n \notin keep
  <2>1. keep \cap (1 .. n) = keep \cap (1 .. (n - 1))
    BY <1>2, <1>4
  <2>2. QED
    BY <1>4, <2>1 DEF Picks
<1>5. QED
  BY <1>3, <1>4

(* Picking the elements at the positions of keep gives exactly those, and  *)
(* none twice when no two of them are equal.                               *)
LEMMA PickedFacts ==
  ASSUME NEW S, NEW s \in Seq(S), NEW keep \in SUBSET DOMAIN s
  PROVE  /\ Picked(s, keep) \in Seq(S)
         /\ ToSet(Picked(s, keep)) = {s[i] : i \in keep}
         /\ (\A i, j \in keep : s[i] = s[j] => i = j) => IsInjective(Picked(s, keep))
<1> DEFINE F == CHOOSE G : Walks(s, keep, Len(s), G)
<1>1. Len(s) \in Nat /\ DOMAIN s = 1 .. Len(s)
  OBVIOUS
<1>2. Walks(s, keep, Len(s), F)
  BY <1>1, WalkExists
<1>3. Picked(s, keep) = F[Len(s)]
  BY DEF Picked, Walks
<1> HIDE DEF F
<1>4. /\ F[0] = <<>>
      /\ \A n \in 1 .. Len(s) : F[n] = IF n \in keep THEN Append(F[n - 1], s[n]) ELSE F[n - 1]
  <2>1. F = [n \in 0 .. Len(s) |->
              IF n = 0 THEN <<>> ELSE IF n \in keep THEN Append(F[n - 1], s[n]) ELSE F[n - 1]]
    BY <1>2 DEF Walks
  <2>2. 0 \in 0 .. Len(s) /\ \A n \in 1 .. Len(s) : n \in 0 .. Len(s) /\ n # 0
    BY <1>1
  <2>3. QED
    BY <2>1, <2>2
<1>5. Picks(S, s, keep, 0, <<>>)
  BY DEF Picks, ToSet, IsInjective
<1> DEFINE Wrong == {n \in 0 .. Len(s) : ~Picks(S, s, keep, n, F[n])}
<1>6. Wrong = {}
  <2>1. SUFFICES ASSUME Wrong # {}
                 PROVE  FALSE
    OBVIOUS
  <2>2. Wrong \in SUBSET Nat
    BY <1>1
  <2>3. PICK n \in Wrong : \A k \in Wrong : n <= k
    BY <2>1, <2>2, LeastElement
  <2>4. n # 0
    BY <1>4, <1>5, <2>3
  <2>5. n \in 1 .. Len(s) /\ n - 1 \in 0 .. Len(s) /\ n - 1 \notin Wrong
    BY <1>1, <2>3, <2>4
  <2>6. Picks(S, s, keep, n - 1, F[n - 1])
    BY <2>5
  <2>7. Picks(S, s, keep, n, F[n])
    BY <1>4, <2>5, <2>6, PickOne
  <2>8. QED
    BY <2>3, <2>7
<1>7. Picks(S, s, keep, Len(s), F[Len(s)])
  BY <1>1, <1>6
<1>8. keep \cap (1 .. Len(s)) = keep
  BY <1>1
<1>9. QED
  BY <1>3, <1>7, <1>8 DEF Picks

(* Dropping duplicates leaves every line, once.                            *)
LEMMA DedupFacts ==
  ASSUME NEW S, NEW s \in Seq(S)
  PROVE  Dedup(s) \in Seq(S) /\ ToSet(Dedup(s)) = ToSet(s) /\ IsInjective(Dedup(s))
<1> DEFINE keep == {n \in DOMAIN s : \A m \in 1 .. (n - 1) : s[m] # s[n]}
<1>1. DOMAIN s = 1 .. Len(s) /\ Len(s) \in Nat
  OBVIOUS
<1>2. \A i, j \in keep : s[i] = s[j] => i = j
  <2>1. SUFFICES ASSUME NEW i \in keep, NEW j \in keep, s[i] = s[j], i # j
                 PROVE  FALSE
    OBVIOUS
  <2>2. i \in Nat /\ j \in Nat /\ i >= 1 /\ j >= 1
    BY <1>1
  <2>3. i \in 1 .. (j - 1) \/ j \in 1 .. (i - 1)
    BY <2>1, <2>2
  <2>4. QED
    BY <2>1, <2>3
<1>3. {s[i] : i \in keep} = ToSet(s)
  <2>1. SUFFICES ASSUME NEW i \in DOMAIN s
                 PROVE  \E k \in keep : s[k] = s[i]
    BY DEF ToSet
  <2> DEFINE Same == {k \in DOMAIN s : s[k] = s[i]}
  <2>2. Same \in SUBSET Nat /\ Same # {}
    BY <1>1
  <2>3. PICK k \in Same : \A m \in Same : k <= m
    BY <2>2, LeastElement
  <2>4. \A m \in 1 .. (k - 1) : s[m] # s[k]
    BY <1>1, <2>3
  <2>5. QED
    BY <2>3, <2>4
<1>4. Dedup(s) = Picked(s, keep)
  BY DEF Dedup
<1>5. keep \in SUBSET DOMAIN s
  OBVIOUS
<1> HIDE DEF keep
<1>6. QED
  <2>1. /\ Picked(s, keep) \in Seq(S) /\ ToSet(Picked(s, keep)) = {s[i] : i \in keep}
        /\ (\A i, j \in keep : s[i] = s[j] => i = j) => IsInjective(Picked(s, keep))
    BY <1>5, PickedFacts
  <2>2. QED
    BY <1>2, <1>3, <1>4, <2>1

(* The rows of a file are the lines of its kind.                           *)
LEMMA RowsFacts ==
  ASSUME NEW S, NEW text \in Seq(S), NEW f
  PROVE  /\ Rows(f, text) \in Seq(S)
         /\ ToSet(Rows(f, text)) = {l \in ToSet(text) : l.kind = f}
         /\ IsInjective(text) => IsInjective(Rows(f, text))
<1> DEFINE keep == {n \in DOMAIN text : text[n].kind = f}
<1>1. keep \in SUBSET DOMAIN text /\ Rows(f, text) = Picked(text, keep)
  BY DEF Rows
<1>2. {text[i] : i \in keep} = {l \in ToSet(text) : l.kind = f}
  BY DEF ToSet
<1>3. IsInjective(text) => \A i, j \in keep : text[i] = text[j] => i = j
  BY DEF IsInjective
<1> HIDE DEF keep
<1>4. QED
  BY <1>1, <1>2, <1>3, PickedFacts

(* The rows that report a failure.                                         *)
LEMMA BadRowsFacts ==
  ASSUME NEW S, NEW rows \in Seq(S)
  PROVE  /\ BadRows(rows) \in Seq(S)
         /\ ToSet(BadRows(rows)) = {l \in ToSet(rows) : l.bad}
         /\ IsInjective(rows) => IsInjective(BadRows(rows))
<1> DEFINE keep == {n \in DOMAIN rows : rows[n].bad}
<1>1. keep \in SUBSET DOMAIN rows /\ BadRows(rows) = Picked(rows, keep)
  BY DEF BadRows
<1>2. {rows[i] : i \in keep} = {l \in ToSet(rows) : l.bad}
  BY DEF ToSet
<1>3. IsInjective(rows) => \A i, j \in keep : rows[i] = rows[j] => i = j
  BY DEF IsInjective
<1> HIDE DEF keep
<1>4. QED
  BY <1>1, <1>2, <1>3, PickedFacts

(* The rows of a file about one point.                                     *)
LEMMA RowsOfFacts ==
  ASSUME NEW S, NEW f, disk[f].rows \in Seq(S), NEW p
  PROVE  /\ RowsOf(f, p) \in Seq(S)
         /\ ToSet(RowsOf(f, p)) = {l \in ToSet(disk[f].rows) : l.pt = p}
<1> DEFINE rows == disk[f].rows
           keep == {n \in DOMAIN rows : rows[n].pt = p}
<1>1. keep \in SUBSET DOMAIN rows /\ RowsOf(f, p) = Picked(rows, keep) /\ rows \in Seq(S)
  BY DEF RowsOf
<1>2. {rows[i] : i \in keep} = {l \in ToSet(rows) : l.pt = p}
  BY DEF ToSet
<1> HIDE DEF keep, rows
<1>3. ToSet(RowsOf(f, p)) = {l \in ToSet(rows) : l.pt = p} /\ RowsOf(f, p) \in Seq(S)
  BY <1>1, <1>2, PickedFacts
<1>4. QED
  BY <1>3 DEF rows

(* A sequence without elements is empty.                                   *)
LEMMA NoElements ==
  ASSUME NEW S, NEW s \in Seq(S)
  PROVE  /\ ToSet(s) = {} <=> s = <<>>
         /\ Len(s) = 0 <=> s = <<>>
         /\ s # <<>> => 1 \in DOMAIN s /\ s[1] \in ToSet(s)
<1>1. DOMAIN s = 1 .. Len(s) /\ Len(s) \in Nat
  OBVIOUS
<1>2. Len(s) = 0 <=> s = <<>>
  BY EmptySeq
<1>3. ToSet(s) = {} <=> DOMAIN s = {}
  BY DEF ToSet
<1>4. Len(s) = 0 => \A k : k \notin DOMAIN s
  BY <1>1
<1>5. Len(s) # 0 => 1 \in DOMAIN s
  BY <1>1
<1>6. QED
  BY <1>2, <1>3, <1>4, <1>5 DEF ToSet

(* A stretch of a sequence.                                                *)
LEMMA StretchFacts ==
  ASSUME NEW S, NEW s \in Seq(S), NEW i \in 1 .. Len(s) + 1, NEW n \in 0 .. Len(s), i <= n + 1
  PROVE  /\ SubSeq(s, i, n) \in Seq(S)
         /\ ToSet(SubSeq(s, i, n)) = {s[k] : k \in i .. n}
         /\ ToSet(SubSeq(s, i, n)) \subseteq ToSet(s)
         /\ IsInjective(s) => IsInjective(SubSeq(s, i, n))
<1> DEFINE t == SubSeq(s, i, n)
<1>1. /\ Len(s) \in Nat /\ DOMAIN s = 1 .. Len(s) /\ i \in Nat /\ n \in Nat
      /\ i .. n \in SUBSET (1 .. Len(s))
  OBVIOUS
<1>2. /\ t \in Seq(S) /\ Len(t) = n - i + 1 /\ DOMAIN t = 1 .. n - i + 1
      /\ \A k \in 1 .. n - i + 1 : t[k] = s[i + k - 1]
  BY <1>1
<1>3. ToSet(t) = {s[k] : k \in i .. n}
  <2>1. \A k \in 1 .. n - i + 1 : i + k - 1 \in i .. n
    BY <1>1
  <2>2. \A k \in i .. n : k - i + 1 \in 1 .. n - i + 1 /\ i + (k - i + 1) - 1 = k
    BY <1>1
  <2>3. ASSUME NEW x \in ToSet(t)
        PROVE  x \in {s[k] : k \in i .. n}
    BY <1>2, <2>1 DEF ToSet
  <2>4. ASSUME NEW k \in i .. n
        PROVE  s[k] \in ToSet(t)
    <3>1. t[k - i + 1] = s[k] /\ k - i + 1 \in DOMAIN t
      BY <1>2, <2>2
    <3>2. QED
      BY <3>1 DEF ToSet
  <2>5. QED
    BY <2>3, <2>4
<1>4. IsInjective(s) => IsInjective(t)
  <2>1. SUFFICES ASSUME IsInjective(s), NEW a \in DOMAIN t, NEW b \in DOMAIN t, t[a] = t[b]
                 PROVE  a = b
    BY DEF IsInjective
  <2>2. i + a - 1 \in DOMAIN s /\ i + b - 1 \in DOMAIN s /\ s[i + a - 1] = s[i + b - 1]
    BY <1>1, <1>2, <2>1
  <2>3. i + a - 1 = i + b - 1
    BY <2>1, <2>2 DEF IsInjective
  <2>4. QED
    BY <1>1, <1>2, <2>3
<1>5. ToSet(t) \subseteq ToSet(s)
  BY <1>1, <1>3 DEF ToSet
<1>6. QED
  BY <1>2, <1>3, <1>4, <1>5

(* Two sequences joined.                                                   *)
LEMMA JoinFacts ==
  ASSUME NEW S, NEW s \in Seq(S), NEW t \in Seq(S)
  PROVE  /\ s \o t \in Seq(S) /\ Len(s \o t) = Len(s) + Len(t)
         /\ ToSet(s \o t) = ToSet(s) \cup ToSet(t)
         /\ ToSet(SubSeq(s \o t, Len(s) + 1, Len(s \o t))) = ToSet(t)
<1> DEFINE u == s \o t
<1>1. /\ Len(s) \in Nat /\ Len(t) \in Nat /\ DOMAIN s = 1 .. Len(s) /\ DOMAIN t = 1 .. Len(t)
      /\ u \in Seq(S) /\ Len(u) = Len(s) + Len(t) /\ DOMAIN u = 1 .. Len(s) + Len(t)
      /\ \A k \in 1 .. Len(s) : u[k] = s[k]
      /\ \A k \in 1 .. Len(t) : u[Len(s) + k] = t[k]
  OBVIOUS
<1>2. \A k \in 1 .. Len(u) : k \in 1 .. Len(s) \/ \E j \in 1 .. Len(t) : k = Len(s) + j
  <2>1. \A k \in 1 .. Len(u) :
          ~(k <= Len(s)) => k - Len(s) \in 1 .. Len(t) /\ k = Len(s) + (k - Len(s))
    BY <1>1
  <2>2. QED
    BY <1>1, <2>1
<1>3. {u[k] : k \in (Len(s) + 1) .. Len(u)} = ToSet(t)
  <2>1. \A k \in (Len(s) + 1) .. Len(u) : \E j \in 1 .. Len(t) : k = Len(s) + j
    BY <1>1, <1>2
  <2>2. \A j \in 1 .. Len(t) : Len(s) + j \in (Len(s) + 1) .. Len(u)
    BY <1>1
  <2>3. \A k \in (Len(s) + 1) .. Len(u) : u[k] \in ToSet(t)
    BY <1>1, <2>1 DEF ToSet
  <2>4. \A j \in 1 .. Len(t) : t[j] \in {u[k] : k \in (Len(s) + 1) .. Len(u)}
    BY <1>1, <2>2
  <2>5. ToSet(t) = {t[j] : j \in 1 .. Len(t)}
    BY <1>1 DEF ToSet
  <2> HIDE DEF u
  <2>6. QED
    BY <2>3, <2>4, <2>5
<1>4. ToSet(u) = ToSet(s) \cup ToSet(t)
  <2>1. \A x \in ToSet(u) : x \in ToSet(s) \/ x \in ToSet(t)
    <3>1. \A k \in 1 .. Len(u) : u[k] \in ToSet(s) \/ u[k] \in ToSet(t)
      <4>1. SUFFICES ASSUME NEW k \in 1 .. Len(u)
                     PROVE  u[k] \in ToSet(s) \/ u[k] \in ToSet(t)
        OBVIOUS
      <4>2. CASE k \in 1 .. Len(s)
        <5>1. u[k] = s[k] /\ k \in DOMAIN s
          BY <1>1, <4>2
        <5>2. QED
          BY <5>1 DEF ToSet
      <4>3. CASE \E j \in 1 .. Len(t) : k = Len(s) + j
        <5>1. PICK j \in 1 .. Len(t) : k = Len(s) + j
          BY <4>3
        <5>2. u[k] = t[j] /\ j \in DOMAIN t
          BY <1>1, <5>1
        <5>3. QED
          BY <5>2 DEF ToSet
      <4>4. QED
        BY <1>2, <4>2, <4>3
    <3>2. DOMAIN u = 1 .. Len(u)
      BY <1>1
    <3> HIDE DEF u
    <3>3. QED
      BY <3>1, <3>2 DEF ToSet
  <2>2. \A x \in ToSet(s) : x \in ToSet(u)
    BY <1>1 DEF ToSet
  <2>3. \A x \in ToSet(t) : x \in ToSet(u)
    <3>1. \A j \in 1 .. Len(t) : Len(s) + j \in 1 .. Len(s) + Len(t)
      BY <1>1
    <3>2. QED
      BY <1>1, <3>1 DEF ToSet
  <2>4. QED
    BY <2>1, <2>2, <2>3
<1>5. ToSet(SubSeq(u, Len(s) + 1, Len(u))) = {u[k] : k \in (Len(s) + 1) .. Len(u)}
  <2>1. /\ Len(s) + 1 \in 1 .. Len(u) + 1 /\ Len(u) \in 0 .. Len(u) /\ Len(s) + 1 <= Len(u) + 1
        /\ u \in Seq(S)
    BY <1>1
  <2> HIDE DEF u
  <2>2. PICK i, n : i = Len(s) + 1 /\ n = Len(u)
    OBVIOUS
  <2>3. i \in 1 .. Len(u) + 1 /\ n \in 0 .. Len(u) /\ i <= n + 1
    BY <2>1, <2>2
  <2>4. ToSet(SubSeq(u, i, n)) = {u[k] : k \in i .. n}
    BY <2>1, <2>3, StretchFacts
  <2>5. QED
    BY <2>2, <2>4
<1>6. QED
  BY <1>1, <1>3, <1>4, <1>5

(***************************************************************************)
(* PodRecords: the inductive invariant.                                    *)
(***************************************************************************)

Kinds == Axes \cup {"pplw", "error", "env", "pre_run", "rc"}
Lines == [kind : Kinds, pt : 0 .. Len(Tape), part : 0 .. NParts, bad : BOOLEAN, launch : Nat]
Outcomes == [0 .. Len(Tape) -> Hooks \cup {"not run"}]
Manifests == [exists : BOOLEAN, torn : BOOLEAN, errors : Nat, rc : {"none", "zero", "nonzero"},
              harvested : BOOLEAN]

(* What a line says agrees with what became of its point.                  *)
Agrees(l, o) ==
  /\ l.kind = "trial" => o[l.pt] = IF l.bad THEN "failed" ELSE "ok"
  /\ l.kind \in {"ppl", "latency"} => o[l.pt] = "ok"
  /\ l.kind = "kernel_check" => o[l.pt] # "not run"
  /\ l.kind = "rc" /\ ~l.bad => o[0] # "failed"
  /\ l.kind = "pre_run" /\ l.part # 0 => o[0] \in {"ok", "failed"}

(* The log is of the points before the present one; once the repeat is     *)
(* there, the run is over, and the repeat has the record lines of the rest.*)
Printed ==
  /\ launches \in Nat /\ at \in 0 .. Len(Tape) + 1 /\ outcome \in Outcomes
  /\ log \in Seq(Lines)
  /\ \A l \in ToSet(log) : l.pt < at /\ Agrees(l, outcome)
  /\ replayFrom \in 0 .. Len(log) + 1
  /\ replayFrom # 0 =>
       /\ at = Len(Tape) + 1
       /\ ToSet(SubSeq(log, replayFrom, Len(log))) = {l \in ToSet(log) : Replayable(l)}

(* A text without duplicates, and what it says of the points.              *)
Reading(text, truth) ==
  /\ text \in Seq(Lines) /\ IsInjective(text) /\ truth \in Outcomes
  /\ \A l \in ToSet(text) : Agrees(l, truth)

OnDisk ==
  /\ disk \in [Files -> [rows : Seq(Lines), torn : BOOLEAN]]
  /\ \A f \in Files : IsInjective(disk[f].rows)
  /\ man \in Manifests
  /\ hv \in [step : 0 .. Len(WriteOrder), text : Seq(Lines), forced : BOOLEAN,
             truth : Outcomes \cup {<<>>}]

Fresh(f, text) == [rows |-> Rows(f, text), torn |-> FALSE]

(* The file is among the writes from this one on, and is written.          *)
Pending(f) == (f = "trial" \/ Rows(f, hv.text) # <<>>)
              /\ \E n \in hv.step .. Len(WriteOrder) : WriteOrder[n] = f

Told(text) ==
  [exists |-> TRUE, torn |-> FALSE, errors |-> Errors(text), rc |-> PreRunRc(text),
   harvested |-> TRUE]

(* A harvest that overrides no refusal has left nothing stale behind it.   *)
Harvesting ==
  hv.step # 0 =>
    /\ Reading(hv.text, hv.truth) /\ settled = Unsettled
    /\ ~hv.forced => \A f \in Files : Pending(f) \/ disk[f] = Fresh(f, hv.text)
    /\ hv.step > 6 /\ man.harvested => man = Told(hv.text)

Settled ==
  settled # Unsettled =>
    /\ Reading(settled.text, settled.truth)
    /\ \A f \in Files : disk[f] = Fresh(f, settled.text)
    /\ man.harvested => man = Told(settled.text)

RecordsInv == Printed /\ OnDisk /\ Harvesting /\ Settled

(* The tape of points, and the parts of a perplexity point.                *)
LEMMA TapeFacts ==
  /\ Len(Tape) \in Nat /\ Points = 1 .. Len(Tape) /\ \A p \in Points : Tape[p] \in Axes
  /\ NParts \in Nat \ {0}
BY TapeAssumption DEF Points

(* A line as it is built.                                                  *)
LEMMA LineIs ==
  ASSUME launches \in Nat, NEW k \in Kinds, NEW p \in 0 .. Len(Tape), NEW n \in 0 .. NParts,
         NEW b \in BOOLEAN
  PROVE  /\ Line(k, p, n, b) \in Lines
         /\ Line(k, p, n, b).kind = k /\ Line(k, p, n, b).pt = p
         /\ Line(k, p, n, b).part = n /\ Line(k, p, n, b).bad = b
BY DEF Line, Lines

(* Sequences of no, one and three lines.                                   *)
LEMMA NoLines ==
  ASSUME NEW S
  PROVE  <<>> \in Seq(S) /\ ToSet(<<>>) = {} /\ Len(<<>>) = 0
BY DEF ToSet

(* A text of one line.                                                     *)
LEMMA OneLine ==
  ASSUME NEW S, NEW a \in S, NEW s, s = <<a>>
  PROVE  s \in Seq(S) /\ ToSet(s) = {a} /\ Len(s) = 1
BY DEF ToSet

(* A text of three lines.                                                  *)
LEMMA ThreeLines ==
  ASSUME NEW S, NEW a \in S, NEW b \in S, NEW c \in S, NEW s, s = <<a, b, c>>
  PROVE  s \in Seq(S) /\ ToSet(s) = {a, b, c}
BY DEF ToSet

(* The window lines of a point.                                            *)
LEMMA WindowFacts ==
  ASSUME launches \in Nat, NEW p \in Points
  PROVE  /\ WindowLines(p) \in Seq(Lines) /\ Len(WindowLines(p)) = NParts
         /\ \A l \in ToSet(WindowLines(p)) : l.kind = "pplw" /\ l.pt = p
<1>1. NParts \in Nat /\ p \in 0 .. Len(Tape) /\ "pplw" \in Kinds
  BY TapeFacts DEF Kinds
<1>2. \A n \in 1 .. NParts : /\ Line("pplw", p, n, FALSE) \in Lines
                             /\ Line("pplw", p, n, FALSE).kind = "pplw"
                             /\ Line("pplw", p, n, FALSE).pt = p
  <2>1. SUFFICES ASSUME NEW n \in 1 .. NParts
                 PROVE  /\ Line("pplw", p, n, FALSE) \in Lines
                        /\ Line("pplw", p, n, FALSE).kind = "pplw"
                        /\ Line("pplw", p, n, FALSE).pt = p
    OBVIOUS
  <2>2. n \in 0 .. NParts
    BY <1>1
  <2>3. QED
    BY <1>1, <2>2, LineIs
<1>3. WindowLines(p) \in [1 .. NParts -> Lines]
  BY <1>2 DEF WindowLines
<1>4. \A l \in ToSet(WindowLines(p)) : l.kind = "pplw" /\ l.pt = p
  BY <1>2 DEF WindowLines, ToSet
<1>5. QED
  BY <1>1, <1>3, <1>4, FunctionIsSeq

(* What a point prints agrees with how it came out.                        *)
LEMMA PointLinesAgree ==
  ASSUME launches \in Nat, NEW p \in Points, NEW ok \in BOOLEAN,
         NEW o, o[p] = IF ok THEN "ok" ELSE "failed"
  PROVE  /\ PointLines(p, ok) \in Seq(Lines)
         /\ \A l \in ToSet(PointLines(p, ok)) : l.pt = p /\ Agrees(l, o)
<1>1. p \in 0 .. Len(Tape) /\ 0 \in 0 .. NParts /\ Axes \subseteq Kinds /\ "error" \in Kinds
  BY TapeFacts DEF Kinds
<1>2. ASSUME NEW k \in Axes, NEW b \in BOOLEAN
      PROVE  /\ Line(k, p, 0, b) \in Lines /\ Line(k, p, 0, b).kind = k
             /\ Line(k, p, 0, b).pt = p /\ Line(k, p, 0, b).bad = b
  BY <1>1, LineIs
<1>3. /\ ErrorLine(p) \in Seq(Lines)
      /\ \A l \in ToSet(ErrorLine(p)) : l.kind = "error" /\ l.pt = p
  <2>1. PICK bad \in BOOLEAN : bad = TRUE
    OBVIOUS
  <2>2. PICK l : l = Line("error", p, 0, bad)
    OBVIOUS
  <2>3. l \in Lines /\ l.kind = "error" /\ l.pt = p
    BY <1>1, <2>2, LineIs
  <2>4. ErrorLine(p) = <<l>>
    BY <2>1, <2>2 DEF ErrorLine
  <2>5. QED
    BY <2>3, <2>4, OneLine
<1>4. \A l \in ToSet(ErrorLine(p)) : l.pt = p /\ Agrees(l, o)
  BY <1>3 DEF Agrees
<1>5. CASE Tape[p] = "trial"
  <2>1. "trial" \in Axes /\ (~ok) \in BOOLEAN
    BY DEF Axes
  <2>2. PICK l : l = Line("trial", p, 0, ~ok)
    OBVIOUS
  <2>3. l \in Lines /\ l.kind = "trial" /\ l.pt = p /\ l.bad = ~ok
    BY <1>2, <2>1, <2>2
  <2>4. Agrees(l, o)
    BY <2>3 DEF Agrees
  <2>5. PointLines(p, ok) = <<l>>
    BY <1>5, <2>2 DEF PointLines, TrialLines
  <2>6. PointLines(p, ok) \in Seq(Lines) /\ ToSet(PointLines(p, ok)) = {l}
    BY <2>3, <2>5, OneLine
  <2>7. QED
    BY <2>3, <2>4, <2>6
<1>6. CASE Tape[p] = "kernel_check"
  <2>1. "kernel_check" \in Axes /\ (~ok) \in BOOLEAN
    BY DEF Axes
  <2>2. PICK l : l = Line("kernel_check", p, 0, ~ok)
    OBVIOUS
  <2>3. l \in Lines /\ l.kind = "kernel_check" /\ l.pt = p
    BY <1>2, <2>1, <2>2
  <2>4. Agrees(l, o)
    BY <2>3 DEF Agrees
  <2>5. PICK s : s = IF ok THEN <<>> ELSE ErrorLine(p)
    OBVIOUS
  <2>6. s \in Seq(Lines) /\ \A x \in ToSet(s) : x.pt = p /\ Agrees(x, o)
    BY <1>3, <1>4, <2>5, NoLines
  <2>7. PICK t : t = <<l>>
    OBVIOUS
  <2>8. t \in Seq(Lines) /\ ToSet(t) = {l} /\ PointLines(p, ok) = s \o t
    <3>1. PointLines(p, ok) = s \o t
      BY <1>6, <2>2, <2>5, <2>7 DEF PointLines, KernelCheckLines
    <3>2. QED
      BY <2>3, <2>7, <3>1, OneLine
  <2>9. s \o t \in Seq(Lines) /\ ToSet(s \o t) = ToSet(s) \cup {l}
    BY <2>6, <2>8, JoinFacts
  <2>10. QED
    BY <2>3, <2>4, <2>6, <2>8, <2>9
<1>7. CASE Tape[p] = "latency"
  <2>1. "latency" \in Axes
    BY DEF Axes
  <2>2. PICK l : l = Line("latency", p, 0, FALSE)
    OBVIOUS
  <2>3. l \in Lines /\ l.kind = "latency" /\ l.pt = p
    BY <1>2, <2>1, <2>2
  <2>4. ok => Agrees(l, o)
    BY <2>3 DEF Agrees
  <2>5. PICK t : t = <<l>>
    OBVIOUS
  <2>6. t \in Seq(Lines) /\ ToSet(t) = {l}
    BY <2>3, <2>5, OneLine
  <2>7. PointLines(p, ok) = IF ok THEN t ELSE ErrorLine(p)
    BY <1>7, <2>2, <2>5 DEF PointLines, LatencyLines
  <2>8. QED
    BY <1>3, <1>4, <2>3, <2>4, <2>6, <2>7
<1>8. CASE Tape[p] = "ppl"
  <2>1. "ppl" \in Axes
    BY DEF Axes
  <2>2. PICK l : l = Line("ppl", p, 0, FALSE)
    OBVIOUS
  <2>3. l \in Lines /\ l.kind = "ppl" /\ l.pt = p
    BY <1>2, <2>1, <2>2
  <2>4. ok => Agrees(l, o)
    BY <2>3 DEF Agrees
  <2>5. WindowLines(p) \in Seq(Lines) /\ \A x \in ToSet(WindowLines(p)) : x.pt = p /\ Agrees(x, o)
    BY WindowFacts DEF Agrees
  <2>6. PICK t : t = <<l>>
    OBVIOUS
  <2>7. t \in Seq(Lines) /\ ToSet(t) = {l}
    BY <2>3, <2>6, OneLine
  <2>8. /\ WindowLines(p) \o t \in Seq(Lines)
        /\ ToSet(WindowLines(p) \o t) = ToSet(WindowLines(p)) \cup {l}
    BY <2>5, <2>7, JoinFacts
  <2>9. PointLines(p, ok) = IF ok THEN WindowLines(p) \o t ELSE ErrorLine(p)
    BY <1>8, <2>2, <2>6 DEF PointLines, PplLines
  <2>10. QED
    BY <1>3, <1>4, <2>3, <2>4, <2>5, <2>8, <2>9
<1>9. QED
  BY <1>5, <1>6, <1>7, <1>8, TapeFacts DEF Axes

(* Cut off before its last line, a point has printed window lines at most. *)
LEMMA CutPointLines ==
  ASSUME launches \in Nat, NEW p \in Points, NEW n \in Nat, n < Len(PointLines(p, TRUE))
  PROVE  /\ SubSeq(PointLines(p, TRUE), 1, n) \in Seq(Lines)
         /\ \A l \in ToSet(SubSeq(PointLines(p, TRUE), 1, n)) : l.kind = "pplw" /\ l.pt = p
<1> DEFINE s == PointLines(p, TRUE)
<1>1. s \in Seq(Lines)
  <2>1. PICK o : o = [q \in {p} |-> "ok"]
    OBVIOUS
  <2>2. o[p] = IF TRUE THEN "ok" ELSE "failed"
    BY <2>1
  <2>3. QED
    BY <2>2, PointLinesAgree
<1>2. /\ SubSeq(s, 1, n) \in Seq(Lines) /\ ToSet(SubSeq(s, 1, n)) = {s[k] : k \in 1 .. n}
  <2>1. n < Len(s)
    OBVIOUS
  <2> HIDE DEF s
  <2>2. Len(s) \in Nat
    BY <1>1
  <2>3. n \in 0 .. Len(s) /\ 1 \in 1 .. Len(s) + 1 /\ 1 <= n + 1
    BY <2>1, <2>2
  <2>4. QED
    BY <1>1, <2>3, StretchFacts
<1>3. CASE Tape[p] # "ppl"
  <2>1. Len(s) = 1
    <3>1. \A l : Len(<<l>>) = 1 /\ <<>> \o <<l>> = <<l>>
      OBVIOUS
    <3>2. \E l : s = <<l>> \/ s = <<>> \o <<l>>
      BY <1>3, TapeFacts DEF Axes, PointLines, TrialLines, KernelCheckLines, LatencyLines
    <3>3. QED
      BY <3>1, <3>2
  <2>2. n < 1
    BY <2>1
  <2>3. \A k : k \notin 1 .. n
    BY <2>2
  <2> HIDE DEF s
  <2>4. ToSet(SubSeq(s, 1, n)) = {}
    BY <1>2, <2>3
  <2>5. QED
    BY <1>2, <2>4 DEF s
<1>4. CASE Tape[p] = "ppl"
  <2>1. PICK l : l = Line("ppl", p, 0, FALSE)
    OBVIOUS
  <2>2. PICK w, t : w = WindowLines(p) /\ t = <<l>>
    OBVIOUS
  <2>3. s = w \o t
    BY <1>4, <2>1, <2>2 DEF PointLines, PplLines
  <2>4. w \in Seq(Lines) /\ \A x \in ToSet(w) : x.kind = "pplw" /\ x.pt = p
    BY <2>2, WindowFacts
  <2>5. t \in Seq(Lines) /\ Len(t) = 1
    <3>1. PICK no \in BOOLEAN : no = FALSE
      OBVIOUS
    <3>2. "ppl" \in Kinds /\ p \in 0 .. Len(Tape) /\ 0 \in 0 .. NParts
      BY TapeFacts DEF Kinds, Axes
    <3>3. l \in Lines
      BY <2>1, <3>1, <3>2, LineIs
    <3>4. QED
      BY <2>2, <3>3, OneLine
  <2>6. n < Len(s)
    OBVIOUS
  <2> HIDE DEF s
  <2>7. Len(w) \in Nat /\ Len(s) = Len(w) + 1 /\ \A k \in 1 .. Len(w) : s[k] = w[k]
    <3>1. Len(w) \in Nat /\ Len(w \o t) = Len(w) + Len(t)
      BY <2>4, <2>5, JoinFacts, LenProperties
    <3>2. \A k \in 1 .. Len(w) : (w \o t)[k] = w[k]
      BY <2>4, <2>5
    <3>3. QED
      BY <2>3, <2>5, <3>1, <3>2
  <2>8. \A k \in 1 .. n : k \in 1 .. Len(w)
    BY <2>6, <2>7
  <2>9. \A k \in 1 .. n : s[k] \in ToSet(w)
    BY <2>4, <2>7, <2>8 DEF ToSet
  <2>10. \A x \in ToSet(SubSeq(s, 1, n)) : x \in ToSet(w)
    BY <1>2, <2>9
  <2>11. QED
    BY <1>2, <2>4, <2>10 DEF s
<1>5. QED
  BY <1>3, <1>4

(* What the boot prints agrees with the hook.                              *)
LEMMA BootLinesAgree ==
  ASSUME launches \in Nat, NEW h \in Hooks, NEW o, o[0] = h
  PROVE  /\ BootLines(h) \in Seq(Lines)
         /\ \A l \in ToSet(BootLines(h)) : l.pt = 0 /\ Agrees(l, o)
<1>1. /\ 0 \in 0 .. Len(Tape) /\ 0 \in 0 .. NParts /\ 1 \in 0 .. NParts
      /\ "env" \in Kinds /\ "pre_run" \in Kinds /\ "rc" \in Kinds
  BY TapeFacts DEF Kinds
<1>2. PICK n \in {0, 1} : n = IF h = "skipped" THEN 0 ELSE 1
  OBVIOUS
<1>3. PICK bad \in BOOLEAN : bad = (h = "failed")
  OBVIOUS
<1>4. PICK no \in BOOLEAN : no = FALSE
  OBVIOUS
<1>5. PICK a, b, c : a = Line("env", 0, 0, no) /\ b = Line("pre_run", 0, n, bad)
                      /\ c = Line("rc", 0, 0, bad)
  OBVIOUS
<1>6. a \in Lines /\ a.kind = "env" /\ a.pt = 0
  BY <1>1, <1>5, LineIs
<1>7. b \in Lines /\ b.kind = "pre_run" /\ b.pt = 0 /\ b.part = n
  <2>1. n \in 0 .. NParts
    BY <1>1, <1>2
  <2>2. QED
    BY <1>1, <1>5, <2>1, LineIs
<1>8. c \in Lines /\ c.kind = "rc" /\ c.pt = 0 /\ c.bad = bad
  BY <1>1, <1>5, LineIs
<1>9. Agrees(a, o) /\ Agrees(b, o) /\ Agrees(c, o)
  <2>1. Agrees(a, o)
    BY <1>6 DEF Agrees
  <2>2. Agrees(b, o)
    BY <1>2, <1>7 DEF Agrees, Hooks
  <2>3. Agrees(c, o)
    BY <1>3, <1>8 DEF Agrees
  <2>4. QED
    BY <2>1, <2>2, <2>3
<1>10. BootLines(h) = <<a, b, c>>
  BY <1>2, <1>3, <1>4, <1>5 DEF BootLines
<1>11. BootLines(h) \in Seq(Lines) /\ ToSet(BootLines(h)) = {a, b, c}
  BY <1>6, <1>7, <1>8, <1>10, ThreeLines
<1>12. QED
  BY <1>6, <1>7, <1>8, <1>9, <1>11

(* The order of the writes.                                                *)
LEMMA OrderFacts ==
  /\ Len(WriteOrder) = 8 /\ WriteOrder[6] = "manifest" /\ WriteOrder[7] = "env"
  /\ \A f \in Files : \E n \in 1 .. 8 : WriteOrder[n] = f
  /\ "manifest" \notin Files /\ "env" \notin Files
BY DEF WriteOrder, Files, RecordFiles

(* The next write is the first of those ahead.                             *)
LEMMA FirstAhead ==
  ASSUME NEW S \in SUBSET Nat, S # {}
  PROVE  Min(S) \in S /\ \A n \in S : Min(S) <= n
<1>1. \E x \in S : \A y \in S : x <= y
  BY LeastElement
<1>2. QED
  BY <1>1 DEF Min

(* Nothing is printed and nothing is on disk at the start.                 *)
LEMMA RecordsInitHolds == RecordsInit => RecordsInv
<1>1. SUFFICES ASSUME RecordsInit
               PROVE  RecordsInv
  OBVIOUS
<1>2. Printed
  <2>1. launches = 0 /\ at = Len(Tape) + 1 /\ log = <<>> /\ replayFrom = 0 /\ outcome \in Outcomes
    BY <1>1 DEF RecordsInit, Outcomes
  <2>2. log \in Seq(Lines) /\ ToSet(log) = {} /\ Len(log) = 0
    BY <2>1, NoLines
  <2>3. QED
    BY <2>1, <2>2, TapeFacts DEF Printed
<1>3. OnDisk
  <2>1. \A f \in Files : disk[f] = Empty
    BY <1>1 DEF RecordsInit
  <2>2. <<>> \in Seq(Lines) /\ IsInjective(<<>>)
    BY NoLines DEF IsInjective
  <2>3. disk \in [Files -> [rows : Seq(Lines), torn : BOOLEAN]]
    BY <1>1, <2>2 DEF RecordsInit, Empty
  <2>4. man \in Manifests
    BY <1>1 DEF RecordsInit, Manifests, NewManifest
  <2>5. hv \in [step : 0 .. Len(WriteOrder), text : Seq(Lines), forced : BOOLEAN,
                truth : Outcomes \cup {<<>>}]
    <3>1. hv = [step |-> 0, text |-> <<>>, forced |-> FALSE, truth |-> <<>>]
      BY <1>1 DEF RecordsInit, Idle
    <3>2. 0 \in 0 .. Len(WriteOrder) /\ <<>> \in Outcomes \cup {<<>>}
      BY OrderFacts
    <3>3. QED
      BY <2>2, <3>1, <3>2
  <2>6. QED
    BY <2>1, <2>2, <2>3, <2>4, <2>5 DEF OnDisk, Empty
<1>4. Harvesting
  BY <1>1 DEF RecordsInit, Idle, Harvesting
<1>5. Settled
  BY <1>1 DEF RecordsInit, Settled
<1>6. QED
  BY <1>2, <1>3, <1>4, <1>5 DEF RecordsInv

(* The repeat has the record lines of what was printed before it.          *)
LEMMA RepeatsPrinted ==
  ASSUME Printed, NEW body \in Seq(Lines), \A l \in ToSet(body) : Agrees(l, outcome),
         Repeats(body), UNCHANGED <<launches, outcome>>
  PROVE  Printed'
<1> DEFINE keep == {n \in DOMAIN body : Replayable(body[n])}
<1>1. PICK again : again = Picked(body, keep)
  OBVIOUS
<1>2. log' = body \o again /\ replayFrom' = Len(body) + 1 /\ at' = Len(Tape) + 1
  BY <1>1 DEF Repeats
<1>3. again \in Seq(Lines) /\ ToSet(again) = {l \in ToSet(body) : Replayable(l)}
  <2>1. {body[i] : i \in keep} = {l \in ToSet(body) : Replayable(l)}
    BY DEF ToSet
  <2>2. keep \in SUBSET DOMAIN body
    OBVIOUS
  <2> HIDE DEF keep
  <2>3. again \in Seq(Lines) /\ ToSet(again) = {body[i] : i \in keep}
    BY <1>1, <2>2, PickedFacts
  <2>4. QED
    BY <2>1, <2>3
<1>4. /\ log' \in Seq(Lines) /\ Len(log') = Len(body) + Len(again)
      /\ ToSet(log') = ToSet(body) \cup ToSet(again)
      /\ ToSet(SubSeq(log', Len(body) + 1, Len(log'))) = ToSet(again)
  BY <1>2, <1>3, JoinFacts
<1>5. ToSet(log') = ToSet(body)
  BY <1>3, <1>4
<1>6. Len(body) \in Nat /\ Len(again) \in Nat
  BY <1>3, LenProperties
<1>7. \A l \in ToSet(log') : l.pt < at' /\ Agrees(l, outcome')
  <2>1. \A l \in ToSet(body) : l \in Lines
    BY DEF ToSet
  <2>2. \A l \in ToSet(body) : l.pt < Len(Tape) + 1
    BY <2>1, TapeFacts DEF Lines
  <2>3. QED
    BY <1>2, <1>5, <2>2
<1>8. replayFrom' \in 0 .. Len(log') + 1
  BY <1>2, <1>4, <1>6
<1>9. ToSet(SubSeq(log', replayFrom', Len(log'))) = {l \in ToSet(log') : Replayable(l)}
  BY <1>2, <1>3, <1>4, <1>5
<1>10. /\ launches' \in Nat /\ at' \in 0 .. Len(Tape) + 1 /\ outcome' \in Outcomes
       /\ at' = Len(Tape) + 1
  BY <1>2, TapeFacts DEF Printed
<1>11. QED
  BY <1>4, <1>7, <1>8, <1>9, <1>10 DEF Printed

(* Every step of the instance keeps its log's part of the invariant.       *)
LEMMA PrintedKeeps ==
  ASSUME Printed, RecordsNext
  PROVE  Printed'
<1>1. CASE Launch
  <2>1. /\ launches' = launches + 1 /\ at' = 0 /\ log' = <<>> /\ replayFrom' = 0
        /\ outcome' \in Outcomes
    BY <1>1 DEF Launch, Outcomes
  <2>2. log' \in Seq(Lines) /\ ToSet(log') = {} /\ Len(log') = 0
    BY <2>1, NoLines
  <2>3. QED
    BY <2>1, <2>2, TapeFacts DEF Printed
<1>2. ASSUME NEW h \in Hooks, Boot(h)
      PROVE  Printed'
  <2>1. /\ launches' = launches /\ at' = 1 /\ log' = BootLines(h) /\ replayFrom' = replayFrom
        /\ at = 0 /\ outcome' = [outcome EXCEPT ![0] = h]
    BY <1>2 DEF Boot
  <2>2. outcome' \in Outcomes /\ outcome'[0] = h
    <3>1. outcome \in [0 .. Len(Tape) -> Hooks \cup {"not run"}]
      BY DEF Printed, Outcomes
    <3>2. 0 \in 0 .. Len(Tape)
      BY TapeFacts
    <3>3. QED
      BY <2>1, <3>1, <3>2 DEF Outcomes
  <2>3. replayFrom = 0
    BY <2>1, TapeFacts DEF Printed
  <2>4. /\ log' \in Seq(Lines) /\ Len(log') \in Nat
        /\ \A l \in ToSet(log') : l.pt = 0 /\ Agrees(l, outcome')
    BY <2>1, <2>2, BootLinesAgree, LenProperties DEF Printed
  <2>5. launches' \in Nat /\ at' \in 0 .. Len(Tape) + 1 /\ replayFrom' \in 0 .. Len(log') + 1
    BY <2>1, <2>3, <2>4, TapeFacts DEF Printed
  <2>6. \A l \in ToSet(log') : l.pt < at' /\ Agrees(l, outcome')
    <3>1. 0 < at'
      BY <2>1
    <3>2. QED
      BY <2>4, <3>1
  <2>7. replayFrom' = 0
    BY <2>1, <2>3
  <2>8. QED
    BY <2>2, <2>4, <2>5, <2>6, <2>7 DEF Printed
<1>3. ASSUME NEW ok \in BOOLEAN, RunPoint(ok)
      PROVE  Printed'
  <2>1. PICK r \in {"ok", "failed"} : r = IF ok THEN "ok" ELSE "failed"
    OBVIOUS
  <2>2. PICK s : s = PointLines(at, ok)
    OBVIOUS
  <2>3. /\ launches' = launches /\ at' = at + 1 /\ log' = log \o s /\ replayFrom' = replayFrom
        /\ at \in Points /\ outcome' = [outcome EXCEPT ![at] = r]
    BY <1>3, <2>1, <2>2 DEF RunPoint
  <2>4. at \in 1 .. Len(Tape)
    BY <2>3, TapeFacts
  <2>5. /\ outcome' \in Outcomes /\ outcome'[at] = r
        /\ \A p \in 0 .. Len(Tape) : p # at => outcome'[p] = outcome[p]
    <3>1. outcome \in [0 .. Len(Tape) -> Hooks \cup {"not run"}]
      BY DEF Printed, Outcomes
    <3>2. r \in Hooks \cup {"not run"}
      BY DEF Hooks
    <3>3. at \in 0 .. Len(Tape)
      BY <2>4
    <3>4. QED
      BY <2>3, <3>1, <3>2, <3>3 DEF Outcomes
  <2>6. replayFrom = 0
    BY <2>4, TapeFacts DEF Printed
  <2>7. s \in Seq(Lines) /\ \A l \in ToSet(s) : l.pt = at /\ Agrees(l, outcome')
    BY <2>1, <2>2, <2>3, <2>5, PointLinesAgree DEF Printed
  <2>8. log' \in Seq(Lines) /\ ToSet(log') = ToSet(log) \cup ToSet(s)
    BY <2>3, <2>7, JoinFacts DEF Printed
  <2>9. \A l \in ToSet(log) : l.pt < at /\ Agrees(l, outcome')
    <3>1. SUFFICES ASSUME NEW l \in ToSet(log)
                   PROVE  l.pt < at /\ Agrees(l, outcome')
      OBVIOUS
    <3>2. l \in Lines /\ l.pt < at /\ Agrees(l, outcome)
      BY DEF Printed, ToSet
    <3>3. l.pt \in 0 .. Len(Tape) /\ l.pt # at /\ 0 \in 0 .. Len(Tape) /\ 0 # at
      BY <2>4, <3>2, TapeFacts DEF Lines
    <3>4. outcome'[l.pt] = outcome[l.pt] /\ outcome'[0] = outcome[0]
      BY <2>5, <3>3
    <3>5. QED
      BY <3>2, <3>4 DEF Agrees
  <2>10. \A l \in ToSet(log') : l.pt < at' /\ Agrees(l, outcome')
    <3>1. at \in Int /\ at' = at + 1 /\ at < at'
      BY <2>3, <2>4
    <3>2. \A l \in ToSet(log) : l \in Lines
      BY DEF Printed, ToSet
    <3>3. \A l \in ToSet(log) : l.pt \in Int
      BY <3>2, TapeFacts DEF Lines
    <3>4. \A l \in ToSet(log) : l.pt < at'
      BY <2>9, <3>1, <3>3
    <3>5. QED
      BY <2>7, <2>8, <2>9, <3>1, <3>4
  <2>11. Len(log') \in Nat
    BY <2>8, LenProperties
  <2>12. /\ launches' \in Nat /\ at' \in 0 .. Len(Tape) + 1 /\ replayFrom' = 0
         /\ replayFrom' \in 0 .. Len(log') + 1
    BY <2>3, <2>4, <2>6, <2>11, TapeFacts DEF Printed
  <2>13. QED
    BY <2>5, <2>8, <2>10, <2>12 DEF Printed
<1>4. CASE RunReturns
  <2>1. Repeats(log) /\ UNCHANGED <<launches, outcome>>
    BY <1>4 DEF RunReturns
  <2>2. log \in Seq(Lines) /\ \A l \in ToSet(log) : Agrees(l, outcome)
    BY DEF Printed
  <2>3. QED
    BY <2>1, <2>2, RepeatsPrinted
<1>5. ASSUME NEW n \in 0 .. NParts, RunTermed(n)
      PROVE  Printed'
  <2>1. PICK s : s = SubSeq(PointLines(at, TRUE), 1, n)
    OBVIOUS
  <2>2. /\ at \in Points /\ n < Len(PointLines(at, TRUE)) /\ Repeats(log \o s)
        /\ UNCHANGED <<launches, outcome>>
    BY <1>5, <2>1 DEF RunTermed
  <2>3. n \in Nat
    BY TapeFacts
  <2>4. s \in Seq(Lines) /\ \A l \in ToSet(s) : l.kind = "pplw" /\ l.pt = at
    BY <2>1, <2>2, <2>3, CutPointLines DEF Printed
  <2>5. \A l \in ToSet(s) : Agrees(l, outcome)
    BY <2>4 DEF Agrees
  <2>6. /\ log \o s \in Seq(Lines) /\ ToSet(log \o s) = ToSet(log) \cup ToSet(s)
    BY <2>4, JoinFacts DEF Printed
  <2>7. \A l \in ToSet(log \o s) : Agrees(l, outcome)
    BY <2>5, <2>6 DEF Printed
  <2>8. QED
    BY <2>2, <2>6, <2>7, RepeatsPrinted
<1>6. CASE UNCHANGED run
  BY <1>6 DEF Printed, run
<1>7. QED
  BY <1>1, <1>2, <1>3, <1>4, <1>5, <1>6
     DEF RecordsNext, BeginHarvest, WriteFile, WriteManifest, WriteEnv, HarvestKilled

(* The errors a text tells of are counted.                                 *)
LEMMA TextCounts ==
  ASSUME NEW text \in Seq(Lines)
  PROVE  /\ Errors(text) \in Nat
         /\ PreRunRc(text) \in {"none", "zero", "nonzero"}
         /\ Told(text) \in Manifests
<1>1. Rows("trial", text) \in Seq(Lines) /\ Rows("error", text) \in Seq(Lines)
  BY RowsFacts
<1>2. BadRows(Rows("trial", text)) \in Seq(Lines)
  BY <1>1, BadRowsFacts
<1>3. Errors(text) \in Nat
  BY <1>1, <1>2, LenProperties DEF Errors, ErrorLines
<1>4. PreRunRc(text) \in {"none", "zero", "nonzero"}
  BY DEF PreRunRc
<1>5. QED
  BY <1>3, <1>4 DEF Told, Manifests

(* A write done, the harvest goes on to the next, or is settled.           *)
LEMMA ContinueKeeps ==
  ASSUME RecordsInv, hv.step # 0, HarvestContinues, OnDisk',
         \A f \in Files : disk'[f] = disk[f] \/ disk'[f] = Fresh(f, hv.text),
         writing \in Files => disk'[writing] = Fresh(writing, hv.text),
         hv.step >= 6 /\ man'.harvested => man' = Told(hv.text)
  PROVE  Harvesting' /\ Settled'
<1>1. /\ Reading(hv.text, hv.truth) /\ settled = Unsettled
      /\ ~hv.forced => \A f \in Files : Pending(f) \/ disk[f] = Fresh(f, hv.text)
  BY DEF RecordsInv, Harvesting
<1>2. hv.step \in 1 .. 8 /\ Len(WriteOrder) = 8
  BY OrderFacts DEF RecordsInv, OnDisk
<1>3. hv \in [step : 0 .. 8, text : Seq(Lines), forced : BOOLEAN, truth : Outcomes \cup {<<>>}]
  BY <1>2 DEF RecordsInv, OnDisk
<1>4. WritesAhead \subseteq (hv.step + 1) .. 8 /\ WritesAhead \in SUBSET Nat
  BY <1>2 DEF WritesAhead
<1>5. /\ hv.step < 6 => 6 \in WritesAhead
      /\ hv.step < 7 => 7 \in WritesAhead
  BY <1>2, OrderFacts DEF WritesAhead
(* What is neither ahead nor stale is fresh.                               *)
<1>6. ASSUME ~hv.forced, NEW f \in Files
      PROVE  \/ disk'[f] = Fresh(f, hv.text)
             \/ /\ f = "trial" \/ Rows(f, hv.text) # <<>>
                /\ \E n \in WritesAhead : WriteOrder[n] = f
  <2>1. CASE disk[f] = Fresh(f, hv.text)
    BY <2>1
  <2>2. CASE Pending(f)
    <3>1. f = "trial" \/ Rows(f, hv.text) # <<>>
      BY <2>2 DEF Pending
    <3>2. PICK n \in hv.step .. 8 : WriteOrder[n] = f
      BY <1>2, <2>2 DEF Pending
    <3>3. CASE n = hv.step
      BY <3>2, <3>3 DEF writing
    <3>4. CASE n # hv.step
      <4>1. n \in (hv.step + 1) .. Len(WriteOrder)
        BY <1>2, <3>2, <3>4
      <4>2. n \in WritesAhead
        BY <3>1, <3>2, <4>1 DEF WritesAhead, Rewrites
      <4>3. QED
        BY <3>1, <3>2, <4>2
    <3>5. QED
      BY <3>3, <3>4
  <2>3. QED
    BY <1>1, <1>6, <2>1, <2>2
<1>7. CASE WritesAhead # {}
  <2>1. PICK m \in WritesAhead : m = Min(WritesAhead) /\ \A n \in WritesAhead : m <= n
    BY <1>4, <1>7, FirstAhead
  <2>2. hv' = [hv EXCEPT !.step = m] /\ settled' = settled
    BY <1>7, <2>1 DEF HarvestContinues
  <2>3. /\ hv'.step = m /\ hv'.text = hv.text /\ hv'.truth = hv.truth /\ hv'.forced = hv.forced
    BY <1>3, <2>2
  <2>4. m \in Nat /\ m # 0
    BY <1>2, <1>4
  <2>5. m > 6 => hv.step >= 6
    <3>1. PICK i \in Nat : i = hv.step
      BY <1>2
    <3>2. i < 6 => m <= 6
      BY <1>5, <2>1, <3>1
    <3>3. QED
      BY <2>4, <3>1, <3>2
  <2>6. ASSUME ~hv.forced, NEW f \in Files
        PROVE  Pending(f)' \/ disk'[f] = Fresh(f, hv.text)
    <3>1. ASSUME NEW n \in WritesAhead
          PROVE  n \in m .. Len(WriteOrder)
      <4>1. PICK i \in Nat : i = hv.step
        BY <1>2
      <4>2. n \in (i + 1) .. 8 /\ m <= n
        BY <1>4, <2>1, <4>1
      <4>3. QED
        BY <1>2, <2>4, <4>2
    <3>2. QED
      BY <1>6, <2>3, <2>6, <3>1 DEF Pending
  <2>7. Harvesting'
    <3>1. Reading(hv'.text, hv'.truth) /\ settled' = Unsettled
      BY <1>1, <2>2, <2>3
    <3>2. ~hv'.forced => \A f \in Files : Pending(f)' \/ disk'[f] = Fresh(f, hv'.text)
      BY <2>3, <2>6
    <3>3. hv'.step > 6 /\ man'.harvested => man' = Told(hv'.text)
      BY <2>3, <2>5
    <3>4. QED
      BY <3>1, <3>2, <3>3 DEF Harvesting
  <2>8. Settled'
    BY <1>1, <2>2 DEF Settled
  <2>9. QED
    BY <2>7, <2>8
<1>8. CASE WritesAhead = {}
  <2>1. /\ hv' = Idle
        /\ settled' = IF hv.forced THEN Unsettled ELSE [text |-> hv.text, truth |-> hv.truth]
    BY <1>8 DEF HarvestContinues
  <2>2. Harvesting'
    BY <2>1 DEF Harvesting, Idle
  <2>3. hv.step >= 6
    BY <1>2, <1>5, <1>8
  <2>4. Settled'
    <3>1. CASE hv.forced
      BY <2>1, <3>1 DEF Settled
    <3>2. CASE ~hv.forced
      <4>1. settled'.text = hv.text /\ settled'.truth = hv.truth
        BY <2>1, <3>2
      <4>2. \A f \in Files : disk'[f] = Fresh(f, hv.text)
        BY <1>6, <1>8, <3>2
      <4>3. QED
        BY <1>1, <2>3, <4>1, <4>2 DEF Settled
    <3>3. QED
      BY <3>1, <3>2
  <2>5. QED
    BY <2>2, <2>4
<1>9. QED
  BY <1>7, <1>8

(* A freshly written file.                                                 *)
LEMMA FreshFacts ==
  ASSUME NEW f, NEW text \in Seq(Lines), IsInjective(text)
  PROVE  /\ Fresh(f, text) \in [rows : Seq(Lines), torn : BOOLEAN]
         /\ IsInjective(Fresh(f, text).rows)
BY RowsFacts DEF Fresh

(* A harvest reads a text without duplicates that agrees with the run so   *)
(* far; it overrides nothing when no file would lose a row.                *)
LEMMA BeginKeeps ==
  ASSUME RecordsInv, BeginHarvest
  PROVE  RecordsInv'
<1>0. PICK text \in Texts :
        hv' = [step |-> 1, text |-> text, truth |-> outcome,
               forced |-> \E f \in Files : ShrinkRefusal(f, Rows(f, text))]
  BY DEF BeginHarvest
<1>1. PICK fetched \in Fetches : text = Dedup(fetched)
  BY DEF Texts
<1>2. PICK refused : refused = (\E f \in Files : ShrinkRefusal(f, Rows(f, text)))
  OBVIOUS
<1>3. /\ hv' = [step |-> 1, text |-> text, forced |-> refused, truth |-> outcome]
      /\ settled' = Unsettled /\ UNCHANGED <<run, dir>>
  BY <1>0, <1>2 DEF BeginHarvest
<1>4. UNCHANGED <<launches, at, outcome, log, replayFrom, disk, env, man>>
  BY <1>3 DEF run, dir
<1>5. fetched \in Seq(Lines) /\ ToSet(fetched) \subseteq ToSet(log)
  <2>1. log \in Seq(Lines) /\ Len(log) \in Nat /\ DOMAIN log = 1 .. Len(log)
    BY DEF RecordsInv, Printed
  <2>2. ASSUME NEW i \in 1 .. Len(log)
        PROVE  LogTail(i) \in Seq(Lines) /\ ToSet(LogTail(i)) \subseteq ToSet(log)
    <3>1. i \in 1 .. Len(log) + 1 /\ Len(log) \in 0 .. Len(log) /\ i <= Len(log) + 1
      BY <2>1, <2>2
    <3> QED BY <2>1, <3>1, StretchFacts DEF LogTail
  <2>3. CASE fetched \in {LogTail(i) : i \in DOMAIN log}
    BY <2>1, <2>2, <2>3
  <2>4. ASSUME NEW n \in DOMAIN log, NEW i \in (n + 2) .. Len(log),
               fetched = SubSeq(log, 1, n) \o LogTail(i)
        PROVE  fetched \in Seq(Lines) /\ ToSet(fetched) \subseteq ToSet(log)
    <3>1. PICK early : early = SubSeq(log, 1, n)
      OBVIOUS
    <3>2. PICK tail : tail = LogTail(i)
      OBVIOUS
    <3>3. /\ 1 \in 1 .. Len(log) + 1 /\ n \in 0 .. Len(log) /\ 1 <= n + 1
          /\ i \in 1 .. Len(log)
      BY <2>1
    <3>4. early \in Seq(Lines) /\ ToSet(early) \subseteq ToSet(log)
      BY <2>1, <3>1, <3>3, StretchFacts
    <3>5. tail \in Seq(Lines) /\ ToSet(tail) \subseteq ToSet(log)
      BY <2>2, <3>2, <3>3
    <3>6. fetched = early \o tail
      BY <2>4, <3>1, <3>2
    <3> QED BY <3>4, <3>5, <3>6, JoinFacts
  <2> QED BY <2>1, <2>3, <2>4 DEF Fetches
<1>6. text \in Seq(Lines) /\ IsInjective(text) /\ ToSet(text) \subseteq ToSet(log)
  BY <1>1, <1>5, DedupFacts
<1>7. Reading(text, outcome)
  BY <1>6 DEF RecordsInv, Printed, Reading
<1>8. hv'.step = 1 /\ hv'.text = text /\ hv'.forced = refused /\ hv'.truth = outcome
  BY <1>3
<1>9. ASSUME ~refused, NEW f \in Files
      PROVE  Pending(f)' \/ disk[f] = Fresh(f, text)
  <2>1. CASE f = "trial" \/ Rows(f, text) # <<>>
    <3>1. \E n \in 1 .. Len(WriteOrder) : WriteOrder[n] = f
      BY OrderFacts
    <3>2. QED
      BY <1>8, <2>1, <3>1 DEF Pending
  <2>2. CASE Rows(f, text) = <<>>
    <3>1. ~ShrinkRefusal(f, <<>>)
      BY <1>2, <1>9, <2>2
    <3>2. disk[f] \in [rows : Seq(Lines), torn : BOOLEAN]
      BY DEF RecordsInv, OnDisk
    <3>3. Len(disk[f].rows) \in Nat /\ (disk[f].rows = <<>> <=> Len(disk[f].rows) = 0)
      BY <3>2, NoElements, LenProperties
    <3>4. disk[f].rows = <<>> /\ disk[f].torn = FALSE
      <4>1. PICK k \in Nat : k = Len(disk[f].rows)
        BY <3>3
      <4>2. Len(<<>>) = 0
        OBVIOUS
      <4>3. ~(k + (IF disk[f].torn THEN 1 ELSE 0) > 0)
        BY <3>1, <4>1, <4>2 DEF ShrinkRefusal, OldRows
      <4>4. disk[f].torn \in BOOLEAN
        BY <3>2
      <4>5. ~disk[f].torn /\ k = 0
        BY <4>3, <4>4
      <4>6. QED
        BY <3>3, <4>1, <4>4, <4>5
    <3>5. QED
      BY <2>2, <3>2, <3>4 DEF Fresh
  <2>3. QED
    BY <2>1, <2>2
<1>10. Printed'
  BY <1>4 DEF RecordsInv, Printed
<1>11. OnDisk'
  <2>1. hv' \in [step : 0 .. Len(WriteOrder), text : Seq(Lines), forced : BOOLEAN,
                 truth : Outcomes \cup {<<>>}]
    <3>1. refused \in BOOLEAN
      BY <1>2
    <3>2. 1 \in 0 .. Len(WriteOrder) /\ outcome \in Outcomes \cup {<<>>}
      BY <1>7, OrderFacts DEF Reading
    <3>3. QED
      BY <1>3, <1>6, <3>1, <3>2
  <2>2. QED
    BY <1>4, <2>1 DEF RecordsInv, OnDisk
<1>12. Harvesting'
  BY <1>3, <1>4, <1>7, <1>8, <1>9 DEF Harvesting
<1>13. Settled'
  BY <1>3 DEF Settled
<1>14. QED
  BY <1>10, <1>11, <1>12, <1>13 DEF RecordsInv

(* Where hv goes when a harvest goes on.                                   *)
LEMMA ContinueShape ==
  ASSUME RecordsInv, hv.step # 0, HarvestContinues
  PROVE  hv' \in [step : 0 .. Len(WriteOrder), text : Seq(Lines), forced : BOOLEAN,
                  truth : Outcomes \cup {<<>>}]
<1>1. hv \in [step : 0 .. Len(WriteOrder), text : Seq(Lines), forced : BOOLEAN,
              truth : Outcomes \cup {<<>>}]
  BY DEF RecordsInv, OnDisk
<1>2. CASE WritesAhead # {}
  <2>1. WritesAhead \in SUBSET Nat
    BY <1>1, OrderFacts DEF WritesAhead
  <2>2. PICK m \in WritesAhead : m = Min(WritesAhead)
    BY <1>2, <2>1, FirstAhead
  <2>3. hv' = [hv EXCEPT !.step = m]
    BY <1>2, <2>2 DEF HarvestContinues
  <2>4. m \in 0 .. Len(WriteOrder)
    BY <1>1, OrderFacts DEF WritesAhead
  <2>5. QED
    BY <1>1, <2>3, <2>4
<1>3. CASE WritesAhead = {}
  <2>1. hv' = [step |-> 0, text |-> <<>>, forced |-> FALSE, truth |-> <<>>]
    BY <1>3 DEF HarvestContinues, Idle
  <2>2. 0 \in 0 .. Len(WriteOrder) /\ <<>> \in Seq(Lines) /\ <<>> \in Outcomes \cup {<<>>}
    BY OrderFacts, NoLines
  <2>3. QED
    BY <2>1, <2>2
<1>4. QED
  BY <1>2, <1>3

(* Writing the next file of a harvest keeps the invariant: a file written  *)
(* by an unforced harvest has the rows the text tells of.                  *)
LEMMA WriteFileKeeps ==
  ASSUME RecordsInv, WriteFile
  PROVE  RecordsInv'
<1>1. /\ hv.step # 0 /\ writing \in Files /\ HarvestContinues
      /\ disk' = [disk EXCEPT ![writing] = Fresh(writing, hv.text)]
      /\ UNCHANGED <<launches, at, outcome, log, replayFrom, man>>
  BY DEF WriteFile, Fresh, run
<1>2. Reading(hv.text, hv.truth)
  BY <1>1 DEF RecordsInv, Harvesting
<1>3. /\ disk \in [Files -> [rows : Seq(Lines), torn : BOOLEAN]]
      /\ \A f \in Files : IsInjective(disk[f].rows)
      /\ man \in Manifests
  BY DEF RecordsInv, OnDisk
<1>4. /\ disk'[writing] = Fresh(writing, hv.text)
      /\ \A f \in Files : disk'[f] = disk[f] \/ disk'[f] = Fresh(f, hv.text)
  BY <1>1, <1>3
<1>5. /\ Fresh(writing, hv.text) \in [rows : Seq(Lines), torn : BOOLEAN]
      /\ IsInjective(Fresh(writing, hv.text).rows)
  BY <1>2, FreshFacts DEF Reading
<1>6. OnDisk'
  <2>1. disk' \in [Files -> [rows : Seq(Lines), torn : BOOLEAN]]
    BY <1>1, <1>3, <1>5
  <2>2. \A f \in Files : IsInjective(disk'[f].rows)
    BY <1>1, <1>3, <1>5
  <2>3. man' \in Manifests
    BY <1>1, <1>3
  <2>4. QED
    BY <1>1, <2>1, <2>2, <2>3, ContinueShape DEF OnDisk
<1>7. hv.step >= 6 /\ man'.harvested => man' = Told(hv.text)
  <2>1. hv.step # 6
    BY <1>1, OrderFacts DEF writing
  <2>2. hv.step \in Nat
    BY OrderFacts DEF RecordsInv, OnDisk
  <2>3. hv.step > 6 /\ man.harvested => man = Told(hv.text)
    BY <1>1 DEF RecordsInv, Harvesting
  <2>4. QED
    BY <1>1, <2>1, <2>2, <2>3
<1>8. Printed'
  BY <1>1 DEF RecordsInv, Printed
<1>9. Harvesting' /\ Settled'
  BY <1>1, <1>4, <1>6, <1>7, ContinueKeeps
<1>10. QED
  BY <1>6, <1>8, <1>9 DEF RecordsInv

(* Half a manifest stops the harvest, and nothing is settled.              *)
LEMMA WriteManifestKeeps ==
  ASSUME RecordsInv, WriteManifest
  PROVE  RecordsInv'
<1>1. /\ hv.step # 0 /\ writing = "manifest"
      /\ UNCHANGED <<launches, at, outcome, log, replayFrom, disk>>
  BY DEF WriteManifest, run
<1>2. Printed'
  BY <1>1 DEF RecordsInv, Printed
<1>3. CASE man.torn
  <2>1. /\ hv' = [step |-> 0, text |-> <<>>, forced |-> FALSE, truth |-> <<>>]
        /\ man' = man /\ settled' = settled
    BY <1>3 DEF WriteManifest, Idle
  <2>2. settled = Unsettled
    BY <1>1 DEF RecordsInv, Harvesting
  <2>3. 0 \in 0 .. Len(WriteOrder) /\ <<>> \in Seq(Lines) /\ <<>> \in Outcomes \cup {<<>>}
    BY OrderFacts, NoLines
  <2>4. OnDisk'
    BY <1>1, <2>1, <2>3 DEF RecordsInv, OnDisk
  <2>5. Harvesting' /\ Settled'
    BY <2>1, <2>2 DEF Harvesting, Settled
  <2>6. QED
    BY <1>2, <2>4, <2>5 DEF RecordsInv
<1>4. CASE ~man.torn
  <2>1. man' = Told(hv.text) /\ HarvestContinues
    BY <1>4 DEF WriteManifest, HarvestedManifest, Told
  <2>2. hv.text \in Seq(Lines)
    BY DEF RecordsInv, OnDisk
  <2>3. OnDisk'
    BY <1>1, <2>1, <2>2, TextCounts, ContinueShape DEF RecordsInv, OnDisk
  <2>4. writing \notin Files
    BY <1>1, OrderFacts
  <2>5. Harvesting' /\ Settled'
    BY <1>1, <2>1, <2>3, <2>4, ContinueKeeps
  <2>6. QED
    BY <1>2, <2>3, <2>5 DEF RecordsInv
<1>5. QED
  BY <1>3, <1>4

(* So does the write of env.txt, which is behind the manifest.             *)
LEMMA WriteEnvKeeps ==
  ASSUME RecordsInv, WriteEnv
  PROVE  RecordsInv'
<1>1. /\ hv.step # 0 /\ writing = "env" /\ HarvestContinues
      /\ UNCHANGED <<launches, at, outcome, log, replayFrom, disk, man>>
  BY DEF WriteEnv, run
<1>2. Printed'
  BY <1>1 DEF RecordsInv, Printed
<1>3. OnDisk'
  BY <1>1, ContinueShape DEF RecordsInv, OnDisk
<1>4. hv.step >= 6 /\ man'.harvested => man' = Told(hv.text)
  <2>1. hv.step # 6
    BY <1>1, OrderFacts DEF writing
  <2>2. hv.step \in Nat
    BY OrderFacts DEF RecordsInv, OnDisk
  <2>3. hv.step > 6 /\ man.harvested => man = Told(hv.text)
    BY <1>1 DEF RecordsInv, Harvesting
  <2>4. QED
    BY <1>1, <2>1, <2>2, <2>3
<1>5. writing \notin Files
  BY <1>1, OrderFacts
<1>6. Harvesting' /\ Settled'
  BY <1>1, <1>3, <1>4, <1>5, ContinueKeeps
<1>7. QED
  BY <1>2, <1>3, <1>6 DEF RecordsInv

(* Killed, a harvest leaves the beginning of one file at most, and nothing *)
(* is settled.                                                             *)
LEMMA KilledKeeps ==
  ASSUME RecordsInv, HarvestKilled
  PROVE  RecordsInv'
<1>1. /\ hv.step # 0 /\ UNCHANGED <<launches, at, outcome, log, replayFrom, settled>>
      /\ hv' = [step |-> 0, text |-> <<>>, forced |-> FALSE, truth |-> <<>>]
  BY DEF HarvestKilled, run, Idle
<1>2. Printed'
  BY <1>1 DEF RecordsInv, Printed
<1>3. settled = Unsettled /\ hv.text \in Seq(Lines) /\ IsInjective(hv.text)
  BY <1>1 DEF RecordsInv, Harvesting, Reading
<1>4. Harvesting' /\ Settled'
  BY <1>1, <1>3 DEF Harvesting, Settled
<1>5. /\ disk \in [Files -> [rows : Seq(Lines), torn : BOOLEAN]]
      /\ \A f \in Files : IsInjective(disk[f].rows)
      /\ man \in Manifests
  BY DEF RecordsInv, OnDisk
<1>6. /\ disk' \in [Files -> [rows : Seq(Lines), torn : BOOLEAN]]
      /\ \A f \in Files : IsInjective(disk'[f].rows)
      /\ man' \in Manifests
  <2>1. CASE UNCHANGED dir
    BY <1>5, <2>1 DEF dir
  <2>2. ASSUME writing \in Files, NEW file \in CutShort(Rows(writing, hv.text)),
               disk' = [disk EXCEPT ![writing] = file], UNCHANGED <<env, man>>
        PROVE  /\ disk' \in [Files -> [rows : Seq(Lines), torn : BOOLEAN]]
               /\ \A f \in Files : IsInjective(disk'[f].rows)
               /\ man' \in Manifests
    <3>1. PICK rows : rows = Rows(writing, hv.text)
      OBVIOUS
    <3>2. rows \in Seq(Lines) /\ IsInjective(rows)
      BY <1>3, <3>1, RowsFacts
    <3>3. PICK n \in 0 .. Len(rows), b \in BOOLEAN :
            file = [rows |-> SubSeq(rows, 1, n), torn |-> b]
      BY <3>1 DEF CutShort
    <3>4. SubSeq(rows, 1, n) \in Seq(Lines) /\ IsInjective(SubSeq(rows, 1, n))
      <4>1. Len(rows) \in Nat
        BY <3>2, LenProperties
      <4>2. 1 \in 1 .. Len(rows) + 1 /\ 1 <= n + 1
        BY <4>1
      <4>3. QED
        BY <3>2, <4>2, StretchFacts
    <3>5. file \in [rows : Seq(Lines), torn : BOOLEAN] /\ IsInjective(file.rows)
      BY <3>3, <3>4
    <3>6. QED
      BY <1>5, <2>2, <3>5
  <2>3. CASE man' = [man EXCEPT !.torn = TRUE] /\ UNCHANGED <<disk, env>>
    BY <1>5, <2>3 DEF Manifests
  <2>4. CASE UNCHANGED <<disk, man>>
    BY <1>5, <2>4
  <2>5. QED
    BY <2>1, <2>2, <2>3, <2>4 DEF HarvestKilled
<1>7. OnDisk'
  <2>1. 0 \in 0 .. Len(WriteOrder) /\ <<>> \in Seq(Lines) /\ <<>> \in Outcomes \cup {<<>>}
    BY OrderFacts, NoLines
  <2>2. QED
    BY <1>1, <1>6, <2>1 DEF OnDisk
<1>8. QED
  BY <1>2, <1>4, <1>7 DEF RecordsInv

(* A launch leaves the record files, and the harvest in progress, alone.   *)
LEMMA LaunchKeeps ==
  ASSUME RecordsInv, Launch
  PROVE  OnDisk' /\ Harvesting' /\ Settled'
<1>1. man' = NewManifest /\ settled' = Unsettled /\ UNCHANGED <<disk, hv>>
  BY DEF Launch
<1>2. man' \in Manifests /\ ~man'.harvested
  BY <1>1 DEF NewManifest, Manifests
<1>3. OnDisk'
  BY <1>1, <1>2 DEF RecordsInv, OnDisk
<1>4. \A f : Pending(f)' <=> Pending(f)
  BY <1>1 DEF Pending
<1>5. Harvesting'
  BY <1>1, <1>2, <1>4 DEF RecordsInv, Harvesting
<1>6. Settled'
  BY <1>1 DEF Settled
<1>7. QED
  BY <1>3, <1>5, <1>6

(* The instance's own steps leave the directory and the harvest alone.     *)
LEMMA DirStays ==
  ASSUME RecordsInv, UNCHANGED <<dir, hv, settled>>
  PROVE  OnDisk' /\ Harvesting' /\ Settled'
<1>1. UNCHANGED <<disk, man, hv, settled>>
  BY DEF dir
<1>2. \A f : Pending(f)' <=> Pending(f)
  BY <1>1 DEF Pending
<1>3. OnDisk'
  BY <1>1 DEF RecordsInv, OnDisk
<1>4. Harvesting'
  BY <1>1, <1>2 DEF RecordsInv, Harvesting
<1>5. Settled'
  BY <1>1 DEF RecordsInv, Settled
<1>6. QED
  BY <1>3, <1>4, <1>5

(* Every step keeps the invariant.                                         *)
LEMMA RecordsNextKeeps == RecordsInv /\ [RecordsNext]_recordsVars => RecordsInv'
<1> SUFFICES ASSUME RecordsInv, [RecordsNext]_recordsVars
             PROVE  RecordsInv'
  OBVIOUS
<1>1. CASE UNCHANGED recordsVars
  <2>1. UNCHANGED <<launches, at, outcome, log, replayFrom>> /\ UNCHANGED <<dir, hv, settled>>
    BY <1>1 DEF recordsVars, run
  <2>2. Printed'
    BY <2>1 DEF RecordsInv, Printed
  <2>3. QED
    BY <2>1, <2>2, DirStays DEF RecordsInv
<1>2. ASSUME RecordsNext
      PROVE  Printed'
  BY <1>2, PrintedKeeps DEF RecordsInv
<1>3. CASE Launch
  <2>1. RecordsNext
    BY <1>3 DEF RecordsNext
  <2>2. QED
    BY <1>2, <1>3, <2>1, LaunchKeeps DEF RecordsInv
<1>4. ASSUME RecordsNext, UNCHANGED <<dir, hv, settled>>
      PROVE  RecordsInv'
  BY <1>2, <1>4, DirStays DEF RecordsInv
<1>5. CASE RecordsNext
  <2>1. CASE RunReturns \/ (\E h \in Hooks : Boot(h)) \/ (\E ok \in BOOLEAN : RunPoint(ok))
             \/ (\E n \in 0 .. NParts : RunTermed(n))
    BY <1>4, <1>5, <2>1 DEF RunReturns, Boot, RunPoint, RunTermed
  <2>2. QED
    BY <1>3, <1>5, <2>1, BeginKeeps, WriteFileKeeps, WriteManifestKeeps, WriteEnvKeeps, KilledKeeps
       DEF RecordsNext
<1>6. QED
  BY <1>1, <1>5

(* The inductive invariant.                                                *)
THEOREM RecordsInductive == RecordsSpec => []RecordsInv
BY RecordsInitHolds, RecordsNextKeeps, PTL DEF RecordsSpec

(* After a harvest that went through and overrode no refusal, every file   *)
(* is what its one log says.                                               *)
THEOREM HarvestIsWhole == RecordsSpec => []HarvestWhole
<1>1. RecordsInv => HarvestWhole
  BY DEF RecordsInv, Settled, HarvestWhole, Fresh
<1>2. QED
  BY <1>1, RecordsInductive, PTL

(* No file ever holds two rows for one reading.                            *)
THEOREM RecordsOnce == RecordsSpec => []RecordOnce
<1>1. RecordsInv => RecordOnce
  <2>1. SUFFICES ASSUME RecordsInv, NEW f \in Files
                 PROVE  Cardinality(ToSet(disk[f].rows)) = Len(disk[f].rows)
    BY DEF RecordOnce
  <2>2. disk[f].rows \in Seq(Lines) /\ IsInjective(disk[f].rows)
    BY <2>1 DEF RecordsInv, OnDisk
  <2>3. QED
    BY <2>2, DistinctCounts
<1>2. QED
  BY <1>1, RecordsInductive, PTL

(* What a file of a settled harvest says of a point.                       *)
LEMMA RowTells ==
  ASSUME RecordsInv, settled # Unsettled, NEW f \in Files, NEW p, RowsOf(f, p) # <<>>
  PROVE  \E l \in ToSet(disk[f].rows) : /\ l \in Lines /\ l.kind = f /\ l.pt = p
                                        /\ Agrees(l, settled.truth)
<1>1. /\ disk[f].rows = Rows(f, settled.text) /\ settled.text \in Seq(Lines)
      /\ \A l \in ToSet(settled.text) : Agrees(l, settled.truth)
  <2>1. Reading(settled.text, settled.truth) /\ disk[f] = Fresh(f, settled.text)
    BY DEF RecordsInv, Settled
  <2>2. Fresh(f, settled.text).rows = Rows(f, settled.text)
    BY DEF Fresh
  <2>3. QED
    BY <2>1, <2>2 DEF Reading
<1>2. /\ disk[f].rows \in Seq(Lines)
      /\ ToSet(disk[f].rows) = {l \in ToSet(settled.text) : l.kind = f}
  BY <1>1, RowsFacts
<1>3. /\ RowsOf(f, p) \in Seq(Lines)
      /\ ToSet(RowsOf(f, p)) = {l \in ToSet(disk[f].rows) : l.pt = p}
  BY <1>2, RowsOfFacts
<1>4. PICK l : l \in ToSet(RowsOf(f, p))
  BY <1>3, NoElements
<1>5. l \in ToSet(disk[f].rows) /\ l.pt = p
  BY <1>3, <1>4
<1>6. l \in ToSet(settled.text) /\ l.kind = f
  BY <1>2, <1>5
<1>7. l \in Lines
  BY <1>1, <1>6 DEF ToSet
<1>8. QED
  BY <1>1, <1>5, <1>6, <1>7

(* A directory that passes `check` after a harvest went through is of a    *)
(* run whose every point was measured and whose hook passed.               *)
THEOREM ChecksTellTheTruth == RecordsSpec => []CheckTruthful
<1>1. RecordsInv => CheckTruthful
  <2>1. SUFFICES ASSUME RecordsInv, settled # Unsettled, man.harvested, CheckPasses
                 PROVE  /\ \A p \in Points :
                             IF Tape[p] = "kernel_check" THEN settled.truth[p] # "not run"
                                                         ELSE settled.truth[p] = "ok"
                        /\ settled.truth[0] = "ok"
    BY DEF CheckTruthful
  <2>2. /\ Reading(settled.text, settled.truth) /\ man = Told(settled.text)
        /\ \A f \in Files : disk[f] = Fresh(f, settled.text)
    BY <2>1 DEF RecordsInv, Settled
  <2>3. {"trial", "ppl", "latency", "kernel_check", "pre_run"} \subseteq Files
    BY DEF Files, RecordFiles
  <2>4. \A f \in Files : disk[f].rows \in Seq(Lines)
    BY <2>1 DEF RecordsInv, OnDisk
  <2>5. Len(<<>>) # 1
    OBVIOUS
  <2>6. ASSUME NEW p \in Points
        PROVE  IF Tape[p] = "kernel_check" THEN settled.truth[p] # "not run"
                                           ELSE settled.truth[p] = "ok"
    <3>1. CASE Tape[p] = "trial"
      <4>1. RowsOf("trial", p) # <<>>
        BY <2>1, <2>5, <3>1 DEF CheckPasses, CellFails, On
      <4>2. PICK l \in ToSet(disk["trial"].rows) :
              l \in Lines /\ l.kind = "trial" /\ l.pt = p /\ Agrees(l, settled.truth)
        BY <2>1, <2>3, <4>1, RowTells
      <4>3. ~l.bad
        <5>1. BadRows(disk["trial"].rows) = <<>>
          BY <2>1 DEF CheckPasses, ErrorFails
        <5>2. {x \in ToSet(disk["trial"].rows) : x.bad} = {}
          BY <2>3, <2>4, <5>1, BadRowsFacts, NoLines
        <5>3. QED
          BY <4>2, <5>2
      <4>4. QED
        BY <3>1, <4>2, <4>3 DEF Agrees
    <3>2. CASE Tape[p] = "ppl"
      <4>1. RowsOf("ppl", p) # <<>>
        BY <2>1, <3>2 DEF CheckPasses, PplFails, On
      <4>2. PICK l \in ToSet(disk["ppl"].rows) :
              l \in Lines /\ l.kind = "ppl" /\ l.pt = p /\ Agrees(l, settled.truth)
        BY <2>1, <2>3, <4>1, RowTells
      <4>3. QED
        BY <3>2, <4>2 DEF Agrees
    <3>3. CASE Tape[p] = "latency"
      <4>1. RowsOf("latency", p) # <<>>
        BY <2>1, <3>3 DEF CheckPasses, LatencyFails, On
      <4>2. PICK l \in ToSet(disk["latency"].rows) :
              l \in Lines /\ l.kind = "latency" /\ l.pt = p /\ Agrees(l, settled.truth)
        BY <2>1, <2>3, <4>1, RowTells
      <4>3. QED
        BY <3>3, <4>2 DEF Agrees
    <3>4. CASE Tape[p] = "kernel_check"
      <4>1. RowsOf("kernel_check", p) # <<>>
        BY <2>1, <2>5, <3>4 DEF CheckPasses, KernelCheckFails, On
      <4>2. PICK l \in ToSet(disk["kernel_check"].rows) :
              l \in Lines /\ l.kind = "kernel_check" /\ l.pt = p /\ Agrees(l, settled.truth)
        BY <2>1, <2>3, <4>1, RowTells
      <4>3. QED
        BY <3>4, <4>2 DEF Agrees
    <3>5. QED
      BY <3>1, <3>2, <3>3, <3>4, TapeFacts DEF Axes
  <2>7. settled.truth[0] # "failed"
    <3>1. PreRunRc(settled.text) = "zero"
      BY <2>1, <2>2 DEF CheckPasses, PreRunFails, Told
    <3>2. PICK ends : ends = Rows("rc", settled.text)
      OBVIOUS
    <3>3. ends # <<>> /\ ~ends[1].bad
      BY <3>1, <3>2 DEF PreRunRc
    <3>4. settled.text \in Seq(Lines)
      BY <2>2 DEF Reading
    <3>5. ends \in Seq(Lines) /\ ToSet(ends) = {l \in ToSet(settled.text) : l.kind = "rc"}
      BY <3>2, <3>4, RowsFacts
    <3>6. ends[1] \in ToSet(ends)
      BY <3>3, <3>5, NoElements
    <3>7. ends[1] \in ToSet(settled.text) /\ ends[1].kind = "rc"
      BY <3>5, <3>6
    <3>8. Agrees(ends[1], settled.truth)
      BY <2>2, <3>7 DEF Reading
    <3>9. QED
      BY <3>3, <3>7, <3>8 DEF Agrees
  <2>8. settled.truth[0] \in {"ok", "failed"}
    <3>1. PICK n \in DOMAIN disk["pre_run"].rows : disk["pre_run"].rows[n].part # 0
      BY <2>1 DEF CheckPasses, PreRunFails
    <3>2. PICK l : l = disk["pre_run"].rows[n]
      OBVIOUS
    <3>3. l \in ToSet(disk["pre_run"].rows) /\ l.part # 0
      BY <3>1, <3>2 DEF ToSet
    <3>4. disk["pre_run"].rows = Rows("pre_run", settled.text)
      <4>1. Fresh("pre_run", settled.text).rows = Rows("pre_run", settled.text)
        BY DEF Fresh
      <4>2. QED
        BY <2>2, <2>3, <4>1
    <3>5. settled.text \in Seq(Lines)
      BY <2>2 DEF Reading
    <3>6. l \in ToSet(settled.text) /\ l.kind = "pre_run"
      BY <3>3, <3>4, <3>5, RowsFacts
    <3>7. Agrees(l, settled.truth)
      BY <2>2, <3>6 DEF Reading
    <3>8. QED
      BY <3>3, <3>6, <3>7 DEF Agrees
  <2>9. QED
    BY <2>6, <2>7, <2>8
<1>2. QED
  BY <1>1, RecordsInductive, PTL

(* The errors told of are the failed trials and the error lines, once each.*)
LEMMA ErrorsCount ==
  ASSUME NEW text \in Seq(Lines), IsInjective(text)
  PROVE  Errors(text) = Cardinality({l \in ToSet(text) : l.kind = "trial" /\ l.bad})
                        + Cardinality({l \in ToSet(text) : l.kind = "error"})
<1>1. PICK trials, bad, errors :
        /\ trials = Rows("trial", text) /\ bad = BadRows(trials) /\ errors = Rows("error", text)
  OBVIOUS
<1>2. /\ trials \in Seq(Lines) /\ IsInjective(trials)
      /\ ToSet(trials) = {l \in ToSet(text) : l.kind = "trial"}
  BY <1>1, RowsFacts
<1>3. /\ bad \in Seq(Lines) /\ IsInjective(bad) /\ ToSet(bad) = {l \in ToSet(trials) : l.bad}
  BY <1>1, <1>2, BadRowsFacts
<1>4. /\ errors \in Seq(Lines) /\ IsInjective(errors)
      /\ ToSet(errors) = {l \in ToSet(text) : l.kind = "error"}
  BY <1>1, RowsFacts
<1>5. Len(bad) = Cardinality(ToSet(bad)) /\ Len(errors) = Cardinality(ToSet(errors))
  BY <1>3, <1>4, DistinctCounts
<1>6. ToSet(bad) = {l \in ToSet(text) : l.kind = "trial" /\ l.bad}
  BY <1>2, <1>3
<1>7. Errors(text) = Len(bad) + Len(errors)
  BY <1>1 DEF Errors, ErrorLines
<1>8. QED
  BY <1>4, <1>5, <1>6, <1>7

(* Once the repeat is printed it has every reading of the whole log, each  *)
(* counted once, the failures included.                                    *)
THEOREM RepeatIsEnough == RecordsSpec => []ReplayIsEnough
<1>1. RecordsInv => ReplayIsEnough
  <2>1. SUFFICES ASSUME RecordsInv, replayFrom # 0
                 PROVE  LET whole == Dedup(log)
                            repeat == Dedup(SubSeq(log, replayFrom, Len(log)))
                        IN /\ \A f \in RecordFiles : ToSet(Rows(f, repeat)) = ToSet(Rows(f, whole))
                           /\ Errors(repeat) = Errors(whole)
                           /\ PartsComplete(repeat) = PartsComplete(whole)
    BY DEF ReplayIsEnough
  <2> DEFINE tail == SubSeq(log, replayFrom, Len(log))
  <2>2. PICK whole, repeat : whole = Dedup(log) /\ repeat = Dedup(tail)
    OBVIOUS
  <2>3. /\ log \in Seq(Lines) /\ replayFrom \in 0 .. Len(log) + 1
        /\ ToSet(tail) = {l \in ToSet(log) : Replayable(l)}
    BY <2>1 DEF RecordsInv, Printed
  <2>4. tail \in Seq(Lines)
    <3>1. PICK n \in Nat : n = Len(log)
      BY <2>3, LenProperties
    <3>2. replayFrom \in 1 .. n + 1 /\ n \in 0 .. n /\ replayFrom <= n + 1
      BY <2>1, <2>3, <3>1
    <3>3. QED
      BY <2>3, <3>1, <3>2, StretchFacts
  <2> HIDE DEF tail
  <2>5. /\ whole \in Seq(Lines) /\ IsInjective(whole) /\ ToSet(whole) = ToSet(log)
        /\ repeat \in Seq(Lines) /\ IsInjective(repeat)
        /\ ToSet(repeat) = {l \in ToSet(log) : Replayable(l)}
    BY <2>2, <2>3, <2>4, DedupFacts
  <2>6. \A f \in RecordFiles \cup {"error"} :
          {l \in ToSet(repeat) : l.kind = f} = {l \in ToSet(whole) : l.kind = f}
    BY <2>5 DEF Replayable, RecordFiles
  <2>7. \A f \in RecordFiles : ToSet(Rows(f, repeat)) = ToSet(Rows(f, whole))
    <3>1. SUFFICES ASSUME NEW f \in RecordFiles
                   PROVE  ToSet(Rows(f, repeat)) = ToSet(Rows(f, whole))
      OBVIOUS
    <3>2. /\ ToSet(Rows(f, repeat)) = {l \in ToSet(repeat) : l.kind = f}
          /\ ToSet(Rows(f, whole)) = {l \in ToSet(whole) : l.kind = f}
      BY <2>5, RowsFacts
    <3>3. QED
      BY <2>6, <3>2
  <2>8. Errors(repeat) = Errors(whole)
    <3>1. {l \in ToSet(repeat) : l.kind = "error"} = {l \in ToSet(whole) : l.kind = "error"}
      BY <2>6
    <3>2. {l \in ToSet(repeat) : l.kind = "trial" /\ l.bad}
            = {l \in ToSet(whole) : l.kind = "trial" /\ l.bad}
      BY <2>5 DEF Replayable
    <3>3. QED
      BY <2>5, <3>1, <3>2, ErrorsCount
  <2>9. PartsComplete(repeat) = PartsComplete(whole)
    <3>1. {l \in ToSet(repeat) : l.kind = "pplw"} = {l \in ToSet(whole) : l.kind = "pplw"}
      BY <2>6 DEF RecordFiles
    <3>2. ASSUME NEW p \in Points, NEW text
          PROVE  Parts(text, p)
                   = {l.part : l \in {x \in {y \in ToSet(text) : y.kind = "pplw"} : x.pt = p}}
      BY DEF Parts, ToSet
    <3>3. \A p \in Points : Parts(repeat, p) = Parts(whole, p)
      BY <3>1, <3>2
    <3>4. QED
      BY <3>3 DEF PartsComplete
  <2>10. QED
    BY <2>2, <2>7, <2>8, <2>9 DEF tail
<1>2. QED
  BY <1>1, RecordsInductive, PTL

(***************************************************************************)
(* Gate1: Holm's correction.                                               *)
(***************************************************************************)

(* A finite family of members, each with a p-value.                        *)
Measured(S) == IsFiniteSet(S) /\ \A y \in S : y.p \in Nat

(* The members with at least the p of y.                                   *)
NoSmaller(S, y) == {z \in S : y.p <= z.p}

(* Significance of a product is significance of it uncapped.               *)
Low(n) == 20 * n < Unit

(* The maximum of a finite set of numbers is in it and bounds it.          *)
LEMMA MaxOfNumbers ==
  ASSUME NEW S \in SUBSET Int, IsFiniteSet(S), S # {}
  PROVE  Max(S) \in S /\ \A y \in S : y <= Max(S)
<1>1. Cardinality(S) \in Nat \ {0}
  BY FS_CardinalityType, FS_EmptySet
<1>2. PICK x \in S : Rank(S, x) = Cardinality(S) - 1
  BY <1>1, EveryRankTaken
<1> DEFINE B == {y \in S : y < x}
<1>3. B \in SUBSET (S \ {x}) /\ Cardinality(B) = Cardinality(S) - 1
  BY <1>2 DEF Rank
<1>4. IsFiniteSet(S \ {x}) /\ Cardinality(S \ {x}) = Cardinality(S) - 1
  BY FS_RemoveElement
<1>5. B = S \ {x}
  BY <1>3, <1>4, FS_Subset
<1>6. \A y \in S : x >= y
  BY <1>5
<1>7. QED
  BY <1>6 DEF Max

(* The greater of two numbers.                                             *)
LEMMA MaxOfTwo ==
  ASSUME NEW a \in Int, NEW b \in Int
  PROVE  Max({a, b}) = IF a >= b THEN a ELSE b
BY DEF Max

(* And the lesser.                                                         *)
LEMMA MinOfTwo ==
  ASSUME NEW a \in Int, NEW b \in Int
  PROVE  Min({a, b}) = IF a <= b THEN a ELSE b
BY DEF Min

(* How many members are not below y: all but its rank.                     *)
LEMMA NoSmallerCount ==
  ASSUME NEW S, Measured(S), NEW y \in S
  PROVE  /\ Cardinality(NoSmaller(S, y)) = Cardinality(S) - HolmRank(S, y)
         /\ Cardinality(NoSmaller(S, y)) \in Nat
         /\ IsFiniteSet(NoSmaller(S, y))
<1> DEFINE B == {z \in S : z.p < y.p}
<1>1. IsFiniteSet(S) /\ \A z \in S : z.p \in Nat
  BY DEF Measured
<1>2. NoSmaller(S, y) = S \ B /\ S \cap B = B
  BY <1>1 DEF NoSmaller
<1>3. IsFiniteSet(S \ B) /\ Cardinality(S \ B) = Cardinality(S) - Cardinality(S \cap B)
  BY <1>1, FS_Difference
<1>4. QED
  BY <1>2, <1>3, FS_CardinalityType DEF HolmRank

(* What is multiplied in Holm's correction of x, and its significance.     *)
LEMMA HolmSignificant ==
  ASSUME NEW S, Measured(S), NEW x \in S
  PROVE  /\ Holm(S, x) \in Nat
         /\ Significant(Holm(S, x)) <=>
              \A y \in S : y.p <= x.p => Low(Cardinality(NoSmaller(S, y)) * y.p)
<1> DEFINE Below == {z \in S : z.p <= x.p}
           step == [y \in Below |-> Cardinality(NoSmaller(S, y)) * y.p]
           V == {step[y] : y \in Below}
           W == {(Cardinality(S) - HolmRank(S, y)) * y.p : y \in Below}
<1>1. IsFiniteSet(S) /\ \A z \in S : z.p \in Nat
  BY DEF Measured
<1>2. \A y \in S : /\ Cardinality(NoSmaller(S, y)) = Cardinality(S) - HolmRank(S, y)
                   /\ Cardinality(NoSmaller(S, y)) \in Nat
  BY NoSmallerCount
<1>3. V = W
  BY <1>2
<1>4. \A y \in Below : step[y] \in Nat
  BY <1>1, <1>2
<1>5. V \in SUBSET Int /\ V # {}
  <2>1. x \in Below
    BY <1>1
  <2>2. QED
    BY <2>1, <1>4
<1>6. IsFiniteSet(V)
  <2>1. IsFiniteSet(Below)
    BY <1>1, FS_Subset
  <2>2. step \in Surjection(Below, V)
    BY DEF Surjection
  <2>3. QED
    BY <2>1, <2>2, FS_Surjection
<1>7. PICK top \in Below : Max(V) = step[top]
  BY <1>5, <1>6, MaxOfNumbers
<1>8. \A y \in Below : step[y] <= step[top]
  BY <1>5, <1>6, <1>7, MaxOfNumbers
<1>9. PICK M \in Nat : M = step[top]
  BY <1>4
<1>10. Holm(S, x) = IF Unit <= M THEN Unit ELSE M
  <2>1. Holm(S, x) = Min({Unit, Max(W)})
    BY DEF Holm
  <2>2. Unit \in Int
    BY DEF Unit
  <2>3. Max(W) = M
    BY <1>3, <1>7, <1>9
  <2>4. QED
    <3> HIDE DEF W
    <3>1. QED
      BY <2>1, <2>2, <2>3, MinOfTwo
<1>11. Holm(S, x) \in Nat
  BY <1>10 DEF Unit
<1>12. Significant(Holm(S, x)) <=> Low(M)
  BY <1>10, <1>11 DEF Significant, Low, Unit, None
<1>13. Low(M) <=> \A y \in Below : Low(step[y])
  <2>1. \A y \in Below : step[y] \in Nat /\ step[y] <= M
    BY <1>4, <1>8, <1>9
  <2>2. Low(M) => \A y \in Below : Low(step[y])
    <3> HIDE DEF step, Below
    <3>1. QED
      BY <2>1 DEF Low, Unit
  <2>3. QED
    BY <2>2, <1>9
<1>14. QED
  BY <1>11, <1>12, <1>13

(* Every nonempty family has a member of smallest p.                       *)
LEMMA SmallestMember ==
  ASSUME NEW T, Measured(T), NEW x \in T
  PROVE  \E y \in T : \A z \in T : y.p <= z.p
<1> DEFINE P == {z.p : z \in T}
<1>1. P \in SUBSET Nat /\ P # {}
  BY DEF Measured
<1>2. PICK m \in P : \A q \in P : m <= q
  BY <1>1, LeastElement
<1>3. QED
  BY <1>2

(* Holm's correction is the closure of Bonferroni's.                       *)
LEMMA HolmCloses ==
  ASSUME NEW S, Measured(S), NEW x \in S
  PROVE  Significant(Holm(S, x)) <=>
           \A T \in SUBSET S : x \in T => \E y \in T : Significant(Cardinality(T) * y.p)
<1>1. IsFiniteSet(S) /\ \A z \in S : z.p \in Nat
  BY DEF Measured
<1>2. \A T \in SUBSET S : IsFiniteSet(T) /\ Cardinality(T) \in Nat
  BY <1>1, FS_Subset, FS_CardinalityType
<1>3. \A n \in Nat, z \in S : n * z.p \in Nat
  BY <1>1
<1>4. \A n \in Nat : Significant(n) <=> Low(n)
  BY DEF Significant, Low, None
<1>5. ASSUME Significant(Holm(S, x)), NEW T \in SUBSET S, x \in T
      PROVE  \E y \in T : Significant(Cardinality(T) * y.p)
  <2>1. Measured(T)
    BY <1>1, <1>2 DEF Measured
  <2>2. PICK y \in T : \A z \in T : y.p <= z.p
    BY <2>1, <1>5, SmallestMember
  <2>3. T \in SUBSET NoSmaller(S, y) /\ y.p <= x.p /\ y \in S
    BY <2>2, <1>5 DEF NoSmaller
  <2>4. PICK n \in Nat : n = Cardinality(NoSmaller(S, y))
    BY <2>3, NoSmallerCount
  <2>5. PICK t \in Nat : t = Cardinality(T)
    BY <1>2
  <2>6. t <= n
    BY <2>3, <2>4, <2>5, NoSmallerCount, FS_Subset
  <2>7. Low(n * y.p)
    BY <1>5, <2>3, <2>4, HolmSignificant
  <2>8. PICK p \in Nat : p = y.p
    BY <1>1, <2>3
  <2>9. t * p \in Int /\ n * p \in Int /\ t * p <= n * p
    BY <2>6, ProductGrows
  <2>10. Low(t * p)
    BY <2>7, <2>8, <2>9 DEF Low, Unit
  <2>11. QED
    BY <2>10, <2>5, <2>8, <1>3, <1>4, <2>3
<1>6. ASSUME \A T \in SUBSET S : x \in T => \E y \in T : Significant(Cardinality(T) * y.p)
      PROVE  Significant(Holm(S, x))
  <2>1. SUFFICES ASSUME NEW y \in S, y.p <= x.p
                 PROVE  Low(Cardinality(NoSmaller(S, y)) * y.p)
    BY HolmSignificant
  <2>2. NoSmaller(S, y) \in SUBSET S /\ x \in NoSmaller(S, y)
    BY <2>1 DEF NoSmaller
  <2>3. PICK z \in NoSmaller(S, y) : Significant(Cardinality(NoSmaller(S, y)) * z.p)
    BY <2>2, <1>6
  <2>4. z \in S /\ y.p <= z.p
    BY <2>3 DEF NoSmaller
  <2>5. PICK n \in Nat : n = Cardinality(NoSmaller(S, y))
    BY <2>2, <1>2
  <2>6. PICK p, q \in Nat : p = y.p /\ q = z.p
    BY <1>1, <2>4
  <2>7. p * n \in Int /\ q * n \in Int /\ p * n <= q * n
    BY <2>4, <2>6, ProductGrows
  <2>8. p * n = n * p /\ q * n = n * q
    OBVIOUS
  <2>9. Low(n * q)
    BY <2>3, <2>5, <2>6, <2>4, <1>3, <1>4
  <2>10. QED
    BY <2>5, <2>6, <2>7, <2>8, <2>9 DEF Low, Unit
<1>7. QED
  BY <1>5, <1>6

(***************************************************************************)
(* Gate1: what the records are.                                            *)
(***************************************************************************)

(* Every arm a pod can have come out with is of the shape of a record.     *)
LEMMA ArmShapes ==
  /\ Even \in ArmRecords /\ Even.sbits = 100
  /\ \A k \in Trackers : /\ Odd[k] \subseteq ArmRecords
                         /\ k = REFERENCE => \A r \in Odd[k] : r.sbits # 110 /\ r.sweep = Even.sweep
                         /\ k = "bf16" => \A r \in Odd[k] : r.sbits # 120
<1>1. /\ 0 \in 0 .. Pairs /\ Pairs \in 0 .. Pairs /\ Pairs - (Pairs \div 3) \in 0 .. Pairs
      /\ 512 \in 0 .. Unit /\ 1 \in 0 .. Unit /\ Unit \in 0 .. Unit
  BY GateAssumption DEF Unit
<1>2. ASSUME NEW a \in 0 .. Pairs, NEW b \in 0 .. Pairs
      PROVE  Cell(a, b) \in CellRecords
  BY DEF Cell, CellRecords
<1>3. ASSUME NEW d \in {-1, 0}, NEW p \in 0 .. Unit, NEW e \in BOOLEAN, NEW c \in BOOLEAN
      PROVE  Sweep(d, p, e, c) \in SweepRecords
  BY DEF Sweep, SweepRecords
<1>4. ASSUME NEW c \in CellRecords, NEW e \in BOOLEAN
      PROVE  /\ [c EXCEPT !.ran = e] \in CellRecords /\ [c EXCEPT !.error = e] \in CellRecords
             /\ [c EXCEPT !.paired = e] \in CellRecords
  BY DEF CellRecords
<1>5. ASSUME NEW s \in SweepRecords, NEW e \in BOOLEAN
      PROVE  [s EXCEPT !.ran = e] \in SweepRecords
  BY DEF SweepRecords
<1>6. NotRun \in CellRecords /\ NoSweep \in SweepRecords
  <2>1. Sweep(0, Unit, FALSE, FALSE) \in SweepRecords
    BY <1>1, <1>3
  <2>2. NoSweep \in SweepRecords
    BY <2>1, <1>5 DEF NoSweep
  <2>3. NotRun \in CellRecords
    BY <1>1, <1>2, <1>4 DEF NotRun
  <2>4. QED
    BY <2>2, <2>3
<1>7. ASSUME NEW c \in [Tasks -> CellRecords], NEW s \in SweepRecords,
              NEW b \in {None, 100, 110, 120}
       PROVE  [cell |-> c, sweep |-> s, sbits |-> b] \in ArmRecords
  BY DEF ArmRecords
<1>8. Even \in ArmRecords /\ Even.sbits = 100
  <2>1. [t \in Tasks |-> Cell(0, 0)] \in [Tasks -> CellRecords]
    BY <1>1, <1>2
  <2>2. Sweep(0, 512, TRUE, TRUE) \in SweepRecords
    BY <1>1, <1>3
  <2>3. QED
    BY <2>1, <2>2, <1>7 DEF Even
<1>9. Stopped \in ArmRecords /\ Stopped.sbits = None
  BY <1>6 DEF Stopped, ArmRecords
<1>10. \A c \in CellRecords : Retrieval(c) \in ArmRecords /\ Retrieval(c).sbits = 100
  BY <1>8 DEF Retrieval, ArmRecords
<1>11. \A s \in SweepRecords : Perplexity(s) \in ArmRecords /\ Perplexity(s).sbits = 100
  BY <1>8 DEF Perplexity, ArmRecords
<1>12. \A b \in {None, 100, 110, 120} :
        Stored(b) \in ArmRecords /\ Stored(b).sbits = b /\ Stored(b).sweep = Even.sweep
  BY <1>8 DEF Stored, ArmRecords
<1>13. \A T \in SUBSET Tasks :
         Erred(T) \in ArmRecords /\ Erred(T).sbits = 100 /\ Erred(T).sweep = Even.sweep
  <2>1. SUFFICES ASSUME NEW T \in SUBSET Tasks
                 PROVE  /\ Erred(T) \in ArmRecords /\ Erred(T).sbits = 100
                        /\ Erred(T).sweep = Even.sweep
    OBVIOUS
  <2>2. Even.cell \in [Tasks -> CellRecords]
    BY <1>8 DEF ArmRecords
  <2>3. [t \in Tasks |-> [Even.cell[t] EXCEPT !.error = t \in T]] \in [Tasks -> CellRecords]
    <3>1. ASSUME NEW t \in Tasks
          PROVE  [Even.cell[t] EXCEPT !.error = t \in T] \in CellRecords
      <4>1. Even.cell[t] \in CellRecords
        BY <2>2
      <4>2. CASE t \in T
        BY <4>1, <4>2, <1>4
      <4>3. CASE t \notin T
        <5>1. [Even.cell[t] EXCEPT !.error = FALSE] \in CellRecords
          BY <4>1, <1>4
        <5>2. (t \in T) = FALSE
          BY <4>3
        <5>3. QED
          BY <5>1, <5>2, Zenon
      <4>4. QED
        BY <4>2, <4>3
    <3>2. QED
      BY <3>1
  <2>4. QED
    BY <2>3, <1>8 DEF Erred, ArmRecords
<1>14. /\ {Strong, Weak, Behind, Unpaired} \subseteq ArmRecords
       /\ \A r \in {Strong, Weak, Behind, Unpaired} : r.sbits = 100
  <2>1. [Cell(0, 0) EXCEPT !.paired = FALSE] \in CellRecords
    BY <1>1, <1>2, <1>4
  <2>2. Retrieval([Cell(0, 0) EXCEPT !.paired = FALSE]) = Unpaired
    BY DEF Unpaired
  <2>3. /\ Unpaired \in ArmRecords /\ Unpaired.sbits = 100
    BY <2>1, <2>2, <1>10
  <2>4. QED
    BY <2>3, <1>1, <1>2, <1>10 DEF Strong, Weak, Behind
<1>15. /\ {Ahead, Inside, Wide} \subseteq ArmRecords
       /\ \A r \in {Ahead, Inside, Wide} : r.sbits = 100
  <2>1. /\ Sweep(-1, 1, FALSE, TRUE) \in SweepRecords /\ Sweep(-1, 1, TRUE, TRUE) \in SweepRecords
        /\ Sweep(0, 512, FALSE, FALSE) \in SweepRecords
    BY <1>1, <1>3
  <2>2. /\ Ahead = Perplexity(Sweep(-1, 1, FALSE, TRUE))
        /\ Inside = Perplexity(Sweep(-1, 1, TRUE, TRUE))
        /\ Wide = Perplexity(Sweep(0, 512, FALSE, FALSE))
    BY DEF Ahead, Inside, Wide
  <2>3. /\ Ahead \in ArmRecords /\ Ahead.sbits = 100
        /\ Inside \in ArmRecords /\ Inside.sbits = 100
        /\ Wide \in ArmRecords /\ Wide.sbits = 100
    <3>1. Ahead \in ArmRecords /\ Ahead.sbits = 100
      BY <2>1, <2>2, <1>11, Zenon
    <3>2. Inside \in ArmRecords /\ Inside.sbits = 100
      BY <2>1, <2>2, <1>11, Zenon
    <3>3. Wide \in ArmRecords /\ Wide.sbits = 100
      BY <2>1, <2>2, <1>11, Zenon
    <3>4. QED
      BY <3>1, <3>2, <3>3
  <2>4. QED
    BY <2>3
<1>16. /\ {Erred(counted), Erred(Excluded)} \subseteq ArmRecords
       /\ \A r \in {Erred(counted), Erred(Excluded)} : r.sbits = 100 /\ r.sweep = Even.sweep
  BY <1>13, GateAssumption DEF counted
<1>17. /\ {Stored(None), Stored(110), Stored(120)} \subseteq ArmRecords
       /\ Stored(None).sweep = Even.sweep
       /\ Stored(None).sbits = None /\ Stored(110).sbits = 110 /\ Stored(120).sbits = 120
  BY <1>12
<1>18. ASSUME NEW k \in Trackers
       PROVE  /\ Odd[k] \subseteq ArmRecords
              /\ k = REFERENCE => \A r \in Odd[k] : r.sbits # 110 /\ r.sweep = Even.sweep
              /\ k = "bf16" => \A r \in Odd[k] : r.sbits # 120
  BY <1>9, <1>14, <1>15, <1>16, <1>17 DEF Odd, Trackers, REFERENCE, None
<1>19. QED
  BY <1>8, <1>18

(* So every pod of a family is.                                            *)
LEMMA PodShapes ==
  ASSUME NEW f \in Families, NEW made \in Landings[f]
  PROVE  /\ made \in [arm : [Trackers -> ArmRecords], diag : {CleanDiag, LateRepair}]
         /\ made.arm[REFERENCE].sbits # 110 /\ made.arm["bf16"].sbits # 120
         /\ made.arm[REFERENCE].sweep = Even.sweep
<1>1. REFERENCE \in Trackers /\ "bf16" \in Trackers
  BY DEF REFERENCE, Trackers
<1>2. CASE made = [arm |-> [k \in Trackers |-> Even], diag |-> LateRepair]
  BY <1>1, <1>2, ArmShapes
<1>3. CASE made # [arm |-> [k \in Trackers |-> Even], diag |-> LateRepair]
  <2>1. PICK S, odd : /\ odd \in [S -> UNION Range(Odd)]
                      /\ \A k \in S : odd[k] \in Odd[k]
                      /\ made = [arm |-> [k \in Trackers |->
                                          IF k \in DOMAIN odd THEN odd[k] ELSE Even],
                                diag |-> CleanDiag]
    BY <1>3 DEF Landings
  <2>2. \A k \in Trackers : k \in DOMAIN odd => odd[k] \in Odd[k]
    BY <2>1
  <2>3. QED
    BY <1>1, <2>1, <2>2, ArmShapes
<1>4. QED
  BY <1>2, <1>3

(* The records always have these shapes.                                   *)
THEOREM GateTypeCorrect == GateSpec => []GateTypeOK
<1>1. GateInit => GateTypeOK
  BY DEF GateInit, GateTypeOK
<1>2. GateTypeOK /\ [GateNext]_records => GateTypeOK'
  <2>1. SUFFICES ASSUME GateTypeOK, GateNext
                 PROVE  GateTypeOK'
    BY DEF GateTypeOK
  <2>2. PICK f \in Families : Land(f)
    BY <2>1 DEF GateNext
  <2>3. PICK made \in Landings[f] :
          records' = [g \in DOMAIN records \cup {f} |-> IF g = f THEN made ELSE records[g]]
    BY <2>2 DEF Land
  <2>4. QED
    BY <2>1, <2>3, PodShapes DEF GateTypeOK
<1>3. QED
  BY <1>1, <1>2, PTL DEF GateSpec

(***************************************************************************)
(* Gate1: the contrasts and their correction.                              *)
(***************************************************************************)

(* Correcting inside a group is closed.                                    *)
LEMMA GroupCloses ==
  ASSUME NEW draft, NEW E \in SUBSET draft, Measured(E), NEW C, C = HolmByGroup(draft, E)
  PROVE  LET eligible == {x \in DOMAIN C : C[x] # None}
         IN \A x \in eligible :
              Significant(C[x]) <=>
                \A T \in SUBSET {y \in eligible : SameRole(x, y)} :
                  x \in T => \E y \in T : Significant(Cardinality(T) * y.p)
<1> DEFINE Group(x) == {y \in E : SameRole(x, y)}
<1>1. ASSUME NEW x \in E
      PROVE  Measured(Group(x)) /\ x \in Group(x)
  <2>1. IsFiniteSet(Group(x))
    BY FS_Subset DEF Measured
  <2>2. QED
    BY <2>1 DEF Measured, SameRole
<1>2. DOMAIN C = draft /\ \A x \in draft : C[x] = IF x \in E THEN Holm(Group(x), x) ELSE None
  BY DEF HolmByGroup
<1>3. \A x \in E : Holm(Group(x), x) \in Nat
  BY <1>1, HolmSignificant
<1>4. {x \in DOMAIN C : C[x] # None} = E
  <2> HIDE DEF Group
  <2>1. \A x \in draft : x \in E <=> C[x] # None
    BY <1>2, <1>3 DEF None
  <2>2. QED
    BY <2>1, <1>2
<1>5. ASSUME NEW x \in E
      PROVE  Significant(C[x]) <=>
               \A T \in SUBSET Group(x) :
                 x \in T => \E y \in T : Significant(Cardinality(T) * y.p)
  <2>1. C[x] = Holm(Group(x), x)
    BY <1>2
  <2>2. Measured(Group(x)) /\ x \in Group(x)
    BY <1>1
  <2> HIDE DEF Group
  <2>3. QED
    BY <2>1, <2>2, HolmCloses
<1>6. QED
  BY <1>4, <1>5

(* A p-value is a number or missing.                                       *)
LEMMA McNemarShape ==
  ASSUME NEW a \in 0 .. Pairs, NEW b \in 0 .. Pairs
  PROVE  McNemar[a][b] = None \/ McNemar[a][b] \in Nat
<1> DEFINE ways == SUBSET (1 .. a + b)
           tail == {w \in ways : Cardinality(w) <= Min({a, b})}
<1>1. IsFiniteSet(1 .. a + b)
  BY FS_Interval
<1>2. IsFiniteSet(ways) /\ ways # {}
  BY <1>1, FS_SUBSET
<1>3. PICK n \in Nat \ {0} : n = Cardinality(ways)
  BY <1>2, FS_EmptySet, FS_CardinalityType
<1>4. PICK m \in Nat : m = Cardinality(tail)
  BY <1>2, FS_Subset, FS_CardinalityType
<1>5. (2 * m * Unit) \div n \in Nat
  BY DEF Unit
<1>6. McNemar[a][b] = IF a + b > Pairs THEN None
                      ELSE Min({Unit, (2 * Cardinality(tail) * Unit) \div Cardinality(ways)})
  BY DEF McNemar
<1>7. PICK q \in Nat : q = (2 * m * Unit) \div n
  BY <1>5
<1>8. McNemar[a][b] = None \/ McNemar[a][b] = Min({Unit, q})
  <2> HIDE DEF ways, tail
  <2>1. QED
    BY <1>3, <1>4, <1>6, <1>7
<1>9. Min({Unit, q}) \in Nat
  BY MinOfTwo DEF Unit
<1>10. QED
  BY <1>8, <1>9

(* The drafts are finite.                                                  *)
LEMMA DraftFinite ==
  ASSUME NEW D, IsFiniteSet(DOMAIN D), NEW K, IsFiniteSet(K)
  PROVE  IsFiniteSet(MembersAgainst(D, K))
<1> DEFINE X == {y \in ReferenceCells(D) \X K : Hit(D, y[1][1], y[1][2], y[2])}
           member == [x \in X |-> Member(D, x[1][1], x[1][2], x[2])]
<1>1. IsFiniteSet(counted)
  BY GateAssumption, FS_Subset DEF counted
<1>2. IsFiniteSet((DOMAIN D) \X counted)
  BY <1>1, FS_Product
<1>3. IsFiniteSet(ReferenceCells(D))
  BY <1>2, FS_Subset DEF ReferenceCells
<1>4. IsFiniteSet(ReferenceCells(D) \X K)
  BY <1>3, FS_Product
<1>5. IsFiniteSet(X)
  BY <1>4, FS_Subset
<1>6. member \in Surjection(X, MembersAgainst(D, K))
  BY DEF Surjection, MembersAgainst
<1>7. QED
  BY <1>5, <1>6, FS_Surjection

(* There are finitely many trackers.                                       *)
LEMMA TrackersFinite == IsFiniteSet(Trackers)
<1> DEFINE name == [i \in 1 .. 6 |-> <<"isvd", "frozen", "nogist", "fd", "oja", "bf16">>[i]]
<1>1. name \in Surjection(1 .. 6, Trackers)
  <2>1. /\ name[1] = "isvd" /\ name[2] = "frozen" /\ name[3] = "nogist"
        /\ name[4] = "fd" /\ name[5] = "oja" /\ name[6] = "bf16"
    OBVIOUS
  <2>2. \A i \in 1 .. 6 : i = 1 \/ i = 2 \/ i = 3 \/ i = 4 \/ i = 5 \/ i = 6
    OBVIOUS
  <2>3. name \in [1 .. 6 -> Trackers]
    BY <2>1, <2>2 DEF Trackers
  <2>4. \A k \in Trackers : \E i \in 1 .. 6 : name[i] = k
    BY <2>1 DEF Trackers
  <2>5. QED
    BY <2>3, <2>4 DEF Surjection
<1>2. PICK n \in Nat : n = 6
  OBVIOUS
<1>3. IsFiniteSet(1 .. n)
  BY FS_Interval
<1> HIDE DEF name
<1>4. QED
  BY <1>1, <1>2, <1>3, FS_Surjection

(* The perplexity draft is finite.                                         *)
LEMMA PplDraftFinite ==
  ASSUME NEW D, IsFiniteSet(DOMAIN D)
  PROVE  IsFiniteSet(PplDraft(D))
<1> DEFINE X == {y \in (DOMAIN D) \X (Trackers \ {REFERENCE}) :
                  \A k \in {REFERENCE, y[2]} : D[y[1]].arm[k].sweep.ran}
           member == [x \in X |->
             [family |-> x[1], b |-> x[2], primary |-> x[2] \in PRIMARY_CONTROLS,
              sweep |-> D[x[1]].arm[x[2]].sweep, p |-> D[x[1]].arm[x[2]].sweep.p]]
<1>1. IsFiniteSet(Trackers)
  BY TrackersFinite
<1>2. IsFiniteSet(Trackers \ {REFERENCE})
  BY <1>1, FS_RemoveElement
<1>3. IsFiniteSet((DOMAIN D) \X (Trackers \ {REFERENCE}))
  BY <1>2, FS_Product
<1>4. IsFiniteSet(X)
  BY <1>3, FS_Subset
<1>5. member \in Surjection(X, PplDraft(D))
  BY DEF Surjection, PplDraft
<1>6. QED
  <2> HIDE DEF X, member
  <2>1. QED
    BY <1>4, <1>5, FS_Surjection

(* The contrasts of the retrieval axis are measured where they are eligible. *)
LEMMA RetrievalMeasured ==
  ASSUME GateTypeOK, NEW refused
  PROVE  /\ Eligible(refused, DraftRetrieval(records)) \subseteq DraftRetrieval(records)
         /\ Measured(Eligible(refused, DraftRetrieval(records)))
<1> DEFINE K == PRIMARY_CONTROLS \cup SECONDARY_CONTROLS
           draft == DraftRetrieval(records)
<1>1. IsFiniteSet(DOMAIN records)
  BY GateAssumption, FS_Subset DEF GateTypeOK
<1>2. IsFiniteSet(K) /\ K \subseteq Trackers
  <2>1. K \subseteq Trackers
    BY DEF PRIMARY_CONTROLS, SECONDARY_CONTROLS, Trackers
  <2>2. QED
    BY <2>1, TrackersFinite, FS_Subset
<1>3. IsFiniteSet(draft)
  BY <1>1, <1>2, DraftFinite DEF DraftRetrieval
<1>4. ASSUME NEW f \in DOMAIN records, NEW t \in counted, NEW k \in K
      PROVE  Member(records, f, t, k).p = None \/ Member(records, f, t, k).p \in Nat
  <2> DEFINE a == At(records, f, t, REFERENCE)
             b == At(records, f, t, k)
  <2>1. records[f].arm[k] \in ArmRecords /\ t \in Tasks
    BY <1>2 DEF GateTypeOK, counted
  <2>2. b \in CellRecords
    BY <2>1 DEF At, ArmRecords
  <2>3. b.a \in 0 .. Pairs /\ b.b \in 0 .. Pairs
    BY <2>2 DEF CellRecords
  <2>4. Member(records, f, t, k).p = IF a.paired /\ b.paired THEN McNemar[b.a][b.b] ELSE None
    BY DEF Member
  <2>5. QED
    BY <2>3, <2>4, McNemarShape
<1>5. \A x \in draft : x.p = None \/ x.p \in Nat
  <2>1. SUFFICES ASSUME NEW x \in draft
                 PROVE  x.p = None \/ x.p \in Nat
    OBVIOUS
  <2>2. PICK y \in ReferenceCells(records) \X K : x = Member(records, y[1][1], y[1][2], y[2])
    BY DEF DraftRetrieval, MembersAgainst
  <2>3. y[1][1] \in DOMAIN records /\ y[1][2] \in counted /\ y[2] \in K
    BY <2>2 DEF ReferenceCells
  <2>4. QED
    BY <2>2, <2>3, <1>4
<1>6. Eligible(refused, draft) \subseteq draft /\ \A x \in Eligible(refused, draft) : x.p \in Nat
  BY <1>5 DEF Eligible
<1>7. IsFiniteSet(Eligible(refused, draft))
  BY <1>3, <1>6, FS_Subset
<1>8. QED
  BY <1>6, <1>7 DEF Measured

(* And those of the perplexity axis.                                       *)
LEMMA PplMeasured ==
  ASSUME GateTypeOK, NEW refused
  PROVE  Measured({x \in PplDraft(records) : x.primary /\ x.family \notin refused})
<1>1. IsFiniteSet(DOMAIN records)
  BY GateAssumption, FS_Subset DEF GateTypeOK
<1>2. \A x \in PplDraft(records) : x.p \in Nat
  <2>1. SUFFICES ASSUME NEW x \in PplDraft(records)
                 PROVE  x.p \in Nat
    OBVIOUS
  <2>2. PICK f \in DOMAIN records, k \in Trackers : x.p = records[f].arm[k].sweep.p
    BY DEF PplDraft
  <2>3. records[f].arm[k].sweep \in SweepRecords
    BY DEF GateTypeOK, ArmRecords
  <2>4. QED
    BY <2>2, <2>3 DEF SweepRecords
<1>3. IsFiniteSet(PplDraft(records))
  BY <1>1, PplDraftFinite
<1>4. QED
  BY <1>2, <1>3, FS_Subset DEF Measured

(* Holm's correction of both axes is the closure of Bonferroni's test: a   *)
(* member is significant exactly when every set of its family that holds   *)
(* it has a member significant at the size of that set.                    *)
THEOREM HolmIsClosure == GateSpec => []HolmIsClosed
<1>1. GateTypeOK => HolmIsClosed
  <2> SUFFICES ASSUME GateTypeOK
               PROVE  HolmIsClosed
    OBVIOUS
  <2> DEFINE refused == Refused(records)
             R == RetrievalContrasts(records, refused)
             P == PplContrasts(records, refused)
             E == Eligible(refused, DraftRetrieval(records))
             F == {x \in PplDraft(records) : x.primary /\ x.family \notin refused}
             Closed(C) ==
               LET eligible == {x \in DOMAIN C : C[x] # None}
               IN \A x \in eligible :
                   Significant(C[x]) <=>
                       \A T \in SUBSET {y \in eligible : SameRole(x, y)} :
                           x \in T => \E y \in T : Significant(Cardinality(T) * y.p)
  <2>1. R = HolmByGroup(DraftRetrieval(records), E)
    BY DEF RetrievalContrasts
  <2>2. P = HolmByGroup(PplDraft(records), F)
    BY DEF PplContrasts
  <2>3. E \in SUBSET DraftRetrieval(records) /\ Measured(E)
    BY RetrievalMeasured
  <2>4. F \in SUBSET PplDraft(records) /\ Measured(F)
    BY PplMeasured
  <2>5. Closed(R)
    <3> HIDE DEF R, E, refused
    <3>1. QED
      BY <2>1, <2>3, GroupCloses
  <2>6. Closed(P)
    <3> HIDE DEF P, F, refused
    <3>1. QED
      BY <2>2, <2>4, GroupCloses
  <2>7. QED
    BY <2>5, <2>6 DEF HolmIsClosed
<1>2. QED
  BY <1>1, GateTypeCorrect, PTL

(***************************************************************************)
(* Gate1: the verdict.                                                     *)
(***************************************************************************)

(* A member is its family, task and control.                               *)
LEMMA DraftMembers ==
  ASSUME NEW D, NEW K, NEW x \in MembersAgainst(D, K)
  PROVE  /\ x.family \in DOMAIN D /\ x.task \in counted /\ x.b \in K
         /\ Hit(D, x.family, x.task, REFERENCE) /\ Hit(D, x.family, x.task, x.b)
         /\ x = Member(D, x.family, x.task, x.b)
<1>1. PICK y \in ReferenceCells(D) \X K :
        Hit(D, y[1][1], y[1][2], y[2]) /\ x = Member(D, y[1][1], y[1][2], y[2])
  BY DEF MembersAgainst
<1>2. /\ y[1][1] \in DOMAIN D /\ y[1][2] \in counted /\ y[2] \in K
      /\ Hit(D, y[1][1], y[1][2], REFERENCE)
  BY <1>1 DEF ReferenceCells
<1>3. x.family = y[1][1] /\ x.task = y[1][2] /\ x.b = y[2]
  BY <1>1 DEF Member
<1>4. QED
  BY <1>1, <1>2, <1>3

(* A hit of a reference cell is a member of the draft.                     *)
LEMMA InDraft ==
  ASSUME NEW D, NEW K, NEW f, NEW t, NEW k \in K,
         <<f, t>> \in ReferenceCells(D), Hit(D, f, t, k)
  PROVE  Member(D, f, t, k) \in MembersAgainst(D, K)
<1> DEFINE y == <<<<f, t>>, k>>
<1>1. y \in ReferenceCells(D) \X K /\ y[1][1] = f /\ y[1][2] = t /\ y[2] = k
  OBVIOUS
<1> HIDE DEF y
<1>2. y \in {z \in ReferenceCells(D) \X K : Hit(D, z[1][1], z[1][2], z[2])}
  BY <1>1
<1>3. Member(D, f, t, k) = Member(D, y[1][1], y[1][2], y[2])
  BY <1>1
<1>4. QED
  BY <1>2, <1>3 DEF MembersAgainst

(* Whatever separates a family from the frozen control blocks branch C in  *)
(* it: the two branches read the same member, or the same sweep.           *)
LEMMA SeparatedIsBlocked ==
  ASSUME NEW D, NEW refused, NEW R, R = RetrievalContrasts(D, refused),
         NEW P, P = PplContrasts(D, refused), NEW f \in Separated(D, refused, R, P)
  PROVE  Blocked(D, f, R, P)
<1>1. "frozen" \in PRIMARY_CONTROLS /\ "frozen" \in C_CONTROLS
  BY DEF PRIMARY_CONTROLS, C_CONTROLS
<1>2. BeatsOnRetrieval(f, "frozen", R) \/ BeatsOnPerplexity(f, "frozen", P)
  BY <1>1 DEF Separated
<1>3. CASE BeatsOnRetrieval(f, "frozen", R)
  <2>1. DOMAIN R = DraftRetrieval(D)
    BY DEF RetrievalContrasts, HolmByGroup
  <2>2. PICK x \in DOMAIN R : x.family = f /\ x.b = "frozen" /\ Significant(R[x])
    BY <1>3 DEF BeatsOnRetrieval
  <2>3. /\ f \in DOMAIN D /\ x.task \in counted /\ Hit(D, f, x.task, REFERENCE)
        /\ x = Member(D, f, x.task, "frozen")
    BY <2>1, <2>2, DraftMembers DEF DraftRetrieval
  <2>4. \A y \in DOMAIN R : y.family = f /\ y.task = x.task /\ y.b = "frozen" => y = x
    BY <2>1, <2>3, DraftMembers DEF DraftRetrieval
  <2>5. \A y \in DOMAIN R : y.family = f /\ y.task = x.task /\ y.b = "frozen"
                            => R[y] = None \/ Significant(R[y])
    BY <2>2, <2>4
  <2>6. \E g \in DOMAIN D, k \in Trackers : Hit(D, g, x.task, k)
    BY <2>3 DEF Trackers, REFERENCE
  <2>7. QED
    BY <2>3, <2>5, <2>6, <1>1 DEF Blocked
<1>4. CASE BeatsOnPerplexity(f, "frozen", P)
  <2>1. PICK x \in DOMAIN P : x.family = f /\ x.b = "frozen" /\ ~x.sweep.equivalent
    BY <1>4 DEF BeatsOnPerplexity
  <2>2. x.sweep \in {y.sweep : y \in {z \in DOMAIN P : z.family = f /\ z.b = "frozen"}}
    BY <2>1
  <2>3. QED
    BY <2>1, <2>2, <1>1 DEF Blocked
<1>5. QED
  BY <1>2, <1>3, <1>4

(* Branches A/B and C are mutually exclusive, whatever the records hold:   *)
(* the RuntimeError of gate1_verdict is dead code.                         *)
THEOREM BranchesExclusive == GateSpec => []Exclusive
<1>1. Exclusive
  <2> DEFINE D == records
             refused == Refused(D)
             R == RetrievalContrasts(D, refused)
             P == PplContrasts(D, refused)
             separated == Separated(D, refused, R, P)
             blocked == {f \in DOMAIN D \ refused : Blocked(D, f, R, P)}
             isAB == Cardinality(separated) >= 2
             isC == blocked = {} /\ Readable(D) # {} /\ refused = {}
  <2>1. separated \subseteq blocked
    <3>1. separated \subseteq DOMAIN D \ refused
      BY DEF Separated
    <3>2. \A f \in separated : Blocked(D, f, R, P)
      BY SeparatedIsBlocked
    <3>3. QED
      BY <3>1, <3>2
  <2>2. ~(isAB /\ isC)
    <3>1. separated = {} => Cardinality(separated) = 0
      BY FS_EmptySet
    <3>2. QED
      BY <2>1, <3>1
  <2>3. Gate1Verdict(D).branch =
          CASE isAB /\ isC    -> "RuntimeError"
            [] isAB /\ ~isC   -> "A/B"
            [] isC /\ ~isAB   -> "C"
            [] OTHER -> IF refused # {} THEN "REFUSED" ELSE "UNDECIDED"
    BY DEF Gate1Verdict
  <2> HIDE DEF isAB, isC, refused
  <2>4. Gate1Verdict(D).branch # "RuntimeError"
    BY <2>2, <2>3
  <2>5. QED
    BY <2>4 DEF Exclusive
<1>2. QED
  BY <1>1, PTL

(* A verdict on the bf16 arm is read on both Stage-1 families.             *)
LEMMA Bf16Reads ==
  ASSUME NEW D, Bf16Verdict(D) \in {"pass", "fail"}
  PROVE  /\ Stage1 \subseteq DOMAIN D
         /\ \A f \in Stage1 : ~Bf16Refused(D, f)
<1> DEFINE B == Bf16Contrasts(D)
           read == {f \in DOMAIN D : HasArm(D, f, "bf16")}
           state == [f \in read |-> Bf16Family(D, f, B)]
<1>1. /\ {x.family : x \in DOMAIN B} \subseteq Stage1
      /\ Bf16Overall(state) \in {"pass", "fail"}
  BY DEF Bf16Verdict
<1>2. "REFUSED" \notin Range(state) /\ ~(Cardinality(DOMAIN state) < 2)
  BY <1>1 DEF Bf16Overall
<1>3. DOMAIN state = read /\ \A f \in read : state[f] = Bf16Family(D, f, B)
  OBVIOUS
<1>4. \A f \in read : ~Bf16Refused(D, f)
  <2>1. \A f \in read : state[f] # "REFUSED"
    BY <1>2 DEF Range
  <2>2. \A f \in read : Bf16Refused(D, f) => Bf16Family(D, f, B) = "REFUSED"
    BY DEF Bf16Family
  <2>3. QED
    BY <2>1, <2>2, <1>3
<1>5. ASSUME NEW f \in read
      PROVE  f \in Stage1
  <2>1. PICK t \in counted : TRUE
    BY GateAssumption DEF counted
  <2>2. Hit(D, f, t, REFERENCE) /\ Hit(D, f, t, "bf16")
    BY <1>4 DEF Bf16Refused
  <2>3. <<f, t>> \in ReferenceCells(D)
    BY <2>2 DEF ReferenceCells
  <2>4. Member(D, f, t, "bf16") \in Bf16Draft(D)
    BY <2>2, <2>3, InDraft DEF Bf16Draft
  <2>5. Member(D, f, t, "bf16") \in DOMAIN B /\ Member(D, f, t, "bf16").family = f
    BY <2>4 DEF Bf16Contrasts, HolmByGroup, Member
  <2>6. QED
    BY <2>5, <1>1
<1>6. IsFiniteSet(Stage1)
  BY GateAssumption, FS_Subset
<1>7. read = Stage1
  <2>1. read \in SUBSET Stage1
    BY <1>5
  <2>2. Cardinality(Stage1) = 2 /\ Cardinality(read) \in Nat
    BY <1>6, <2>1, GateAssumption, FS_Subset, FS_CardinalityType
  <2>3. Cardinality(read) <= Cardinality(Stage1)
    BY <1>6, <2>1, FS_Subset
  <2>4. Cardinality(Stage1) = Cardinality(read)
    BY <1>2, <1>3, <2>2, <2>3
  <2>5. QED
    BY <1>6, <2>1, <2>4, FS_Subset
<1>8. QED
  BY <1>4, <1>7

(* A pass or a fail of the bf16 arm rests on both registered families,     *)
(* their cells paired and free of errors, the bytes as planned and the     *)
(* sweeps decidable.                                                       *)
THEOREM Bf16RestsOnBoth == GateSpec => []Bf16OnBoth
<1>1. GateTypeOK => Bf16OnBoth
  <2>1. SUFFICES ASSUME GateTypeOK, Bf16Verdict(records) \in {"pass", "fail"},
                        NEW f \in Stage1
                 PROVE  \A k \in {REFERENCE, "bf16"} :
                          LET arm == records[f].arm[k]
                          IN /\ \A t \in counted : LET c == arm.cell[t]
                                                   IN c.ran /\ c.paired /\ ~c.error
                             /\ arm.sweep.ran /\ (arm.sweep.equivalent \/ arm.sweep.decidable)
                             /\ arm.sbits = 100
    BY Bf16Reads DEF Bf16OnBoth
  <2> DEFINE arm(k) == records[f].arm[k]
  <2>2. f \in DOMAIN records /\ ~Bf16Refused(records, f)
    BY <2>1, Bf16Reads
  <2>3. \A t \in counted, k \in {REFERENCE, "bf16"} :
          arm(k).cell[t].ran /\ ~arm(k).cell[t].error
    BY <2>2 DEF Bf16Refused, Hit, Error, At
  <2>4. \A t \in counted, k \in {REFERENCE, "bf16"} : arm(k).cell[t].paired
    <3>1. SUFFICES ASSUME NEW t \in counted
                   PROVE  arm(REFERENCE).cell[t].paired /\ arm("bf16").cell[t].paired
      OBVIOUS
    <3>2. <<f, t>> \in ReferenceCells(records) /\ Hit(records, f, t, "bf16")
      BY <2>2, <2>3 DEF ReferenceCells, Hit, At
    <3>3. Member(records, f, t, "bf16") \in Bf16Draft(records)
      BY <3>2, InDraft DEF Bf16Draft
    <3>4. Member(records, f, t, "bf16").p # None
      <4>1. Member(records, f, t, "bf16").family = f
        BY DEF Member
      <4>2. QED
        BY <4>1, <3>3, <2>2 DEF Bf16Refused
    <3>5. QED
      BY <3>4 DEF Member, At
  <2>5. /\ arm(REFERENCE).sweep.ran /\ arm("bf16").sweep.ran
        /\ arm("bf16").sweep.equivalent \/ arm("bf16").sweep.decidable
    <3>1. PICK s \in Bf16Sweeps(records, f) : s.equivalent \/ s.decidable
      BY <2>2 DEF Bf16Refused
    <3>2. PICK x \in PplDraft(records) : x.family = f /\ x.b = "bf16" /\ s = x.sweep
      BY <3>1 DEF Bf16Sweeps
    <3>3. /\ x.sweep = records[x.family].arm[x.b].sweep
          /\ \A k \in {REFERENCE, x.b} : records[x.family].arm[k].sweep.ran
      BY <3>2 DEF PplDraft
    <3>4. QED
      BY <3>1, <3>2, <3>3
  <2>6. arm(REFERENCE).sweep.equivalent
    BY <2>1, <2>2 DEF GateTypeOK, Even, Sweep
  <2>7. arm(REFERENCE).sbits = 100 /\ arm("bf16").sbits = 100
    <3> DEFINE g == arm(REFERENCE).sbits
               h == arm("bf16").sbits
    <3>1. arm(REFERENCE) \in ArmRecords /\ arm("bf16") \in ArmRecords
      BY <2>1, <2>2 DEF GateTypeOK, Trackers, REFERENCE
    <3>2. g \in {None, 100, 120} /\ h \in {None, 100, 110}
      BY <3>1, <2>1, <2>2 DEF GateTypeOK, ArmRecords
    <3>3. g = Sbits(records, f, REFERENCE) /\ h = Sbits(records, f, "bf16")
      BY <2>5 DEF Sbits
    <3>4. h # None /\ g # None /\ ~(100 * Max({h - g, g - h}) > g)
      BY <2>2, <3>3 DEF Bf16Refused
    <3> HIDE DEF g, h
    <3>5. h \in Int /\ g \in Int
      BY <3>2 DEF None
    <3>6. Max({h - g, g - h}) = IF h - g >= g - h THEN h - g ELSE g - h
      BY <3>5, MaxOfTwo
    <3>7. g = 100 /\ h = 100
      BY <3>2, <3>4, <3>5, <3>6 DEF None
    <3>8. QED
      BY <3>7 DEF g, h
  <2>8. QED
    BY <2>3, <2>4, <2>5, <2>6, <2>7
<1>2. QED
  BY <1>1, GateTypeCorrect, PTL

(***************************************************************************)
(* Gate1: what is outside the gate.                                        *)
(***************************************************************************)

(* Two sets of records that have the same pods of family f, but for the    *)
(* arms outside K.                                                         *)
SamePod(D, E, f, K) ==
  /\ f \in DOMAIN D /\ f \in DOMAIN E /\ E[f].diag = D[f].diag
  /\ \A k \in K : E[f].arm[k] = D[f].arm[k]

(* Two corrected drafts that say the same of family f against K.           *)
SameContrasts(R, S, f, K) ==
  \A x : x.family = f /\ x.b \in K =>
           /\ x \in DOMAIN R <=> x \in DOMAIN S
           /\ x \in DOMAIN R => R[x] = S[x]

GateArms == Trackers \ {"bf16"}

(* The same pods and contrasts of every family that is not refused.        *)
SameReadings(D, E, refused, R, S, P, Q) ==
  \A f \in (DOMAIN D) \ refused :
    /\ SamePod(D, E, f, GateArms) /\ SamePod(E, D, f, GateArms)
    /\ SameContrasts(R, S, f, GateArms) /\ SameContrasts(P, Q, f, GateArms)

BlockedFamilies(D, refused, R, P) == {f \in DOMAIN D \ refused : Blocked(D, f, R, P)}

(* The arms the gate reads are not the bf16 one.                           *)
LEMMA GateArmsRead ==
  /\ REFERENCE \in GateArms /\ RULE_ARMS \subseteq GateArms /\ C_CONTROLS \subseteq GateArms
  /\ PRIMARY_CONTROLS \cup SECONDARY_CONTROLS \subseteq GateArms /\ "nogist" \in GateArms
  /\ GateArms \subseteq Trackers /\ PRIMARY_CONTROLS \subseteq GateArms
BY DEF GateArms, REFERENCE, RULE_ARMS, C_CONTROLS, PRIMARY_CONTROLS, SECONDARY_CONTROLS, Trackers

(* The same pods have the same cells.                                      *)
LEMMA SameCells ==
  ASSUME NEW D, NEW E, NEW f, NEW K, SamePod(D, E, f, K), NEW t, NEW k \in K
  PROVE  /\ At(E, f, t, k) = At(D, f, t, k)
         /\ Hit(E, f, t, k) <=> Hit(D, f, t, k)
         /\ Error(E, f, t, k) <=> Error(D, f, t, k)
BY DEF SamePod, At, Hit, Error

(* The same members.                                                       *)
LEMMA SameMembers ==
  ASSUME NEW D, NEW E, NEW f, NEW K, REFERENCE \in K, SamePod(D, E, f, K),
         NEW C \in SUBSET K, NEW x \in MembersAgainst(D, C), x.family = f
  PROVE  x \in MembersAgainst(E, C)
<1>1. /\ x.task \in counted /\ x.b \in C /\ x = Member(D, f, x.task, x.b)
      /\ Hit(D, f, x.task, REFERENCE) /\ Hit(D, f, x.task, x.b)
  BY DraftMembers
<1>2. PICK t, k : t = x.task /\ k = x.b
  OBVIOUS
<1>3. k \in K /\ k \in C /\ t \in counted /\ x = Member(D, f, t, k)
  BY <1>1, <1>2
<1>4. /\ At(E, f, t, REFERENCE) = At(D, f, t, REFERENCE) /\ At(E, f, t, k) = At(D, f, t, k)
      /\ Hit(E, f, t, REFERENCE) /\ Hit(E, f, t, k)
  BY <1>1, <1>2, <1>3, SameCells
<1>5. Member(E, f, t, k) = Member(D, f, t, k)
  BY <1>4 DEF Member
<1>6. <<f, t>> \in ReferenceCells(E)
  BY <1>3, <1>4 DEF ReferenceCells, SamePod
<1>7. Member(E, f, t, k) \in MembersAgainst(E, C)
  BY <1>3, <1>4, <1>6, InDraft
<1>8. QED
  BY <1>3, <1>5, <1>7

(* A sweep of a draft is of a family and a control.                        *)
LEMMA PplMembers ==
  ASSUME NEW D
  PROVE  \A x : x \in PplDraft(D) <=>
           /\ x.family \in DOMAIN D /\ x.b \in Trackers \ {REFERENCE}
           /\ \A k \in {REFERENCE, x.b} : D[x.family].arm[k].sweep.ran
           /\ x = [family |-> x.family, b |-> x.b, primary |-> x.b \in PRIMARY_CONTROLS,
                   sweep |-> D[x.family].arm[x.b].sweep, p |-> D[x.family].arm[x.b].sweep.p]
<1>1. SUFFICES ASSUME NEW x
               PROVE  x \in PplDraft(D) <=>
           /\ x.family \in DOMAIN D /\ x.b \in Trackers \ {REFERENCE}
           /\ \A k \in {REFERENCE, x.b} : D[x.family].arm[k].sweep.ran
           /\ x = [family |-> x.family, b |-> x.b, primary |-> x.b \in PRIMARY_CONTROLS,
                   sweep |-> D[x.family].arm[x.b].sweep, p |-> D[x.family].arm[x.b].sweep.p]
  OBVIOUS
<1>2. ASSUME x \in PplDraft(D)
      PROVE  /\ x.family \in DOMAIN D /\ x.b \in Trackers \ {REFERENCE}
             /\ \A k \in {REFERENCE, x.b} : D[x.family].arm[k].sweep.ran
             /\ x = [family |-> x.family, b |-> x.b, primary |-> x.b \in PRIMARY_CONTROLS,
                     sweep |-> D[x.family].arm[x.b].sweep, p |-> D[x.family].arm[x.b].sweep.p]
  BY <1>2 DEF PplDraft
<1>3. ASSUME x.family \in DOMAIN D, x.b \in Trackers \ {REFERENCE},
             \A k \in {REFERENCE, x.b} : D[x.family].arm[k].sweep.ran,
             x = [family |-> x.family, b |-> x.b, primary |-> x.b \in PRIMARY_CONTROLS,
                  sweep |-> D[x.family].arm[x.b].sweep, p |-> D[x.family].arm[x.b].sweep.p]
      PROVE  x \in PplDraft(D)
  <2> DEFINE y == <<x.family, x.b>>
  <2>1. y[1] = x.family /\ y[2] = x.b /\ y \in (DOMAIN D) \X (Trackers \ {REFERENCE})
    BY <1>3
  <2> HIDE DEF y
  <2>2. y \in {z \in (DOMAIN D) \X (Trackers \ {REFERENCE}) :
                 \A k \in {REFERENCE, z[2]} : D[z[1]].arm[k].sweep.ran}
    BY <1>3, <2>1
  <2>3. x = [family |-> y[1], b |-> y[2], primary |-> y[2] \in PRIMARY_CONTROLS,
             sweep |-> D[y[1]].arm[y[2]].sweep, p |-> D[y[1]].arm[y[2]].sweep.p]
    BY <1>3, <2>1
  <2>4. QED
    BY <2>2, <2>3 DEF PplDraft
<1>4. QED
  BY <1>2, <1>3

(* The same sweeps.                                                        *)
LEMMA SameSweeps ==
  ASSUME NEW D, NEW E, NEW f, NEW K, REFERENCE \in K, SamePod(D, E, f, K),
         NEW x \in PplDraft(D), x.family = f, x.b \in K
  PROVE  x \in PplDraft(E)
<1>1. /\ x.b \in Trackers \ {REFERENCE}
      /\ \A k \in {REFERENCE, x.b} : D[f].arm[k].sweep.ran
      /\ x = [family |-> f, b |-> x.b, primary |-> x.b \in PRIMARY_CONTROLS,
              sweep |-> D[f].arm[x.b].sweep, p |-> D[f].arm[x.b].sweep.p]
  BY PplMembers
<1>2. /\ f \in DOMAIN E /\ E[f].arm[REFERENCE] = D[f].arm[REFERENCE]
      /\ E[f].arm[x.b] = D[f].arm[x.b]
  BY DEF SamePod
<1>3. QED
  BY <1>1, <1>2, PplMembers

(* A family's refusal reads its own pod, and not the bf16 arm of it.       *)
LEMMA SameRefusal ==
  ASSUME NEW D, NEW E, NEW f, SamePod(D, E, f, GateArms), f \in Refused(D)
  PROVE  f \in Refused(E)
<1>1. f \in DOMAIN E
  BY DEF SamePod
<1>2. CASE ErrorRefuses(D, f)
  <2>1. PICK t \in Tasks, k \in RULE_ARMS : Error(D, f, t, k)
    BY <1>2 DEF ErrorRefuses
  <2>2. Error(E, f, t, k)
    BY <2>1, GateArmsRead, SameCells
  <2>3. QED
    BY <1>1, <2>2 DEF Refused, ErrorRefuses
<1>3. ASSUME NEW x \in DraftRetrieval(D), x.family = f, x.primary, x.p = None
      PROVE  f \in Refused(E)
  <2>1. x \in DraftRetrieval(E)
    BY <1>3, GateArmsRead, SameMembers DEF DraftRetrieval
  <2>2. QED
    BY <1>1, <1>3, <2>1 DEF Refused
<1>4. CASE FrozenDefects(D, f) # {}
  <2>1. FrozenDefects(E, f) = FrozenDefects(D, f)
    BY DEF FrozenDefects, SamePod
  <2>2. QED
    BY <1>1, <1>4, <2>1 DEF Refused
<1>5. CASE ByteMatchRefuses(D, f)
  <2>1. E[f].arm[REFERENCE] = D[f].arm[REFERENCE] /\ E[f].arm["nogist"] = D[f].arm["nogist"]
    BY GateArmsRead DEF SamePod
  <2>2. /\ Sbits(E, f, REFERENCE) = Sbits(D, f, REFERENCE)
        /\ Sbits(E, f, "nogist") = Sbits(D, f, "nogist")
        /\ HasArm(E, f, "nogist") <=> HasArm(D, f, "nogist")
    BY <2>1 DEF Sbits, HasArm, Hit, At
  <2>3. ByteMatchRefuses(E, f)
    BY <1>5, <2>2 DEF ByteMatchRefuses
  <2>4. QED
    BY <1>1, <2>3 DEF Refused
<1>6. QED
  BY <1>2, <1>3, <1>4, <1>5 DEF Refused

(* Nothing that separates or blocks a family reads another, or bf16.       *)
LEMMA SameBlocks ==
  ASSUME NEW D, NEW E, NEW f, SamePod(D, E, f, GateArms), NEW R, NEW S, NEW P, NEW Q,
         SameContrasts(R, S, f, GateArms), SameContrasts(P, Q, f, GateArms),
         Blocked(D, f, R, P)
  PROVE  Blocked(E, f, S, Q)
<1>1. CASE \E t \in counted : ~Hit(D, f, t, REFERENCE)
  BY <1>1, GateArmsRead, SameCells DEF Blocked
<1>2. CASE \A t \in counted : Hit(D, f, t, REFERENCE)
  <2>1. \A t \in counted : Hit(E, f, t, REFERENCE)
    BY <1>2, GateArmsRead, SameCells
  <2>2. {t \in counted : \E g \in DOMAIN E, k \in Trackers : Hit(E, g, t, k)} = counted
    BY <2>1, GateArmsRead DEF SamePod
  <2>3. CASE \E b \in C_CONTROLS, t \in counted :
               \A x \in DOMAIN R :
                 x.family = f /\ x.task = t /\ x.b = b => R[x] = None \/ Significant(R[x])
    <3>1. PICK b \in C_CONTROLS, t \in counted :
               \A x \in DOMAIN R :
                 x.family = f /\ x.task = t /\ x.b = b => R[x] = None \/ Significant(R[x])
      BY <2>3
    <3>2. \A x \in DOMAIN S :
            x.family = f /\ x.task = t /\ x.b = b => S[x] = None \/ Significant(S[x])
      BY <3>1, GateArmsRead DEF SameContrasts
    <3>3. QED
      BY <2>2, <3>2 DEF Blocked
  <2>4. ASSUME NEW b \in C_CONTROLS
        PROVE  {x.sweep : x \in {y \in DOMAIN P : y.family = f /\ y.b = b}}
                 = {x.sweep : x \in {y \in DOMAIN Q : y.family = f /\ y.b = b}}
    <3>1. {y \in DOMAIN P : y.family = f /\ y.b = b} = {y \in DOMAIN Q : y.family = f /\ y.b = b}
      BY GateArmsRead DEF SameContrasts
    <3>2. QED
      BY <3>1
  <2>5. CASE \E b \in C_CONTROLS :
               LET sweeps == {x.sweep : x \in {y \in DOMAIN P : y.family = f /\ y.b = b}}
               IN sweeps = {} \/ \E s \in sweeps : ~s.equivalent
    BY <2>4, <2>5 DEF Blocked
  <2>6. QED
    BY <1>2, <2>3, <2>5 DEF Blocked
<1>3. QED
  BY <1>1, <1>2

(* A control that beats the reference in one reading does in the other.    *)
LEMMA SameBeats ==
  ASSUME NEW f, NEW R, NEW S, NEW P, NEW Q, NEW b \in PRIMARY_CONTROLS,
         SameContrasts(R, S, f, GateArms), SameContrasts(P, Q, f, GateArms),
         BeatsOnRetrieval(f, b, R) \/ BeatsOnPerplexity(f, b, P)
  PROVE  BeatsOnRetrieval(f, b, S) \/ BeatsOnPerplexity(f, b, Q)
<1>1. b \in GateArms
  BY GateArmsRead
<1>2. BeatsOnRetrieval(f, b, R) => BeatsOnRetrieval(f, b, S)
  BY <1>1 DEF BeatsOnRetrieval, SameContrasts
<1>3. BeatsOnPerplexity(f, b, P) => BeatsOnPerplexity(f, b, Q)
  BY <1>1 DEF BeatsOnPerplexity, SameContrasts
<1>4. QED
  BY <1>2, <1>3

(* Two readings that refuse the same of f, and correct it alike, decide    *)
(* alike on it.                                                            *)
LEMMA SameDecisions ==
  ASSUME NEW D, NEW E, NEW r, NEW s, NEW R, NEW S, NEW P, NEW Q,
         (DOMAIN D) \ r = (DOMAIN E) \ s, SameReadings(D, E, r, R, S, P, Q)
  PROVE  /\ Separated(D, r, R, P) = Separated(E, s, S, Q)
         /\ BlockedFamilies(D, r, R, P) = BlockedFamilies(E, s, S, Q)
<1> USE DEF SameReadings
<1>1. \A f \in (DOMAIN D) \ r : /\ SameContrasts(S, R, f, GateArms)
                               /\ SameContrasts(Q, P, f, GateArms)
  BY DEF SameContrasts
<1>2. \A f \in (DOMAIN D) \ r : Blocked(D, f, R, P) <=> Blocked(E, f, S, Q)
  BY <1>1, SameBlocks
<1>3. \A f \in (DOMAIN D) \ r, b \in PRIMARY_CONTROLS :
        BeatsOnRetrieval(f, b, R) \/ BeatsOnPerplexity(f, b, P)
          <=> BeatsOnRetrieval(f, b, S) \/ BeatsOnPerplexity(f, b, Q)
  BY <1>1, SameBeats
<1>4. QED
  BY <1>2, <1>3 DEF Separated, BlockedFamilies

(* A correction reads the eligible members alone.                          *)
LEMMA HolmOfPart ==
  ASSUME NEW draft, NEW part \in SUBSET draft, NEW eligible,
         NEW R, R = HolmByGroup(draft, eligible), NEW S, S = HolmByGroup(part, eligible)
  PROVE  DOMAIN R = draft /\ DOMAIN S = part /\ \A x \in part : S[x] = R[x]
BY DEF HolmByGroup

(* Without the refused families, nothing is refused and the rest reads the *)
(* same.                                                                   *)
LEMMA RefusedLeaveNoTrace ==
  ASSUME NEW D, NEW E, E = Restrict(D, DOMAIN D \ Refused(D))
  PROVE  /\ Gate1Verdict(E).adjusted = Gate1Verdict(D).adjusted
         /\ Gate1Verdict(E).separated = Gate1Verdict(D).separated
         /\ Gate1Verdict(E).blocked = Gate1Verdict(D).blocked
         /\ Gate1Verdict(E).refused = {}
<1> DEFINE refused == Refused(D)
           draft == DraftRetrieval(D)
           part == DraftRetrieval(E)
           sweeps == PplDraft(D)
           swept == PplDraft(E)
           R == RetrievalContrasts(D, refused)
           S == RetrievalContrasts(E, {})
           P == PplContrasts(D, refused)
           Q == PplContrasts(E, {})
<1>1. DOMAIN E = DOMAIN D \ refused /\ \A f \in DOMAIN E : E[f] = D[f]
  BY DEF Restrict
<1>2. \A f \in DOMAIN E : \A K : SamePod(D, E, f, K) /\ SamePod(E, D, f, K)
  BY <1>1 DEF SamePod
<1>3. Refused(E) = {}
  <2>1. Refused(E) \subseteq DOMAIN E
    BY DEF Refused
  <2>2. \A f \in Refused(E) : f \in refused
    BY <1>2, <2>1, SameRefusal
  <2>3. QED
    BY <1>1, <2>1, <2>2
<1>4. REFERENCE \in GateArms /\ PRIMARY_CONTROLS \cup SECONDARY_CONTROLS \subseteq GateArms
  BY GateArmsRead
<1>5. part = {x \in draft : x.family \notin refused}
  <2>1. \A x \in draft : x.family \in DOMAIN D
    BY DraftMembers DEF DraftRetrieval
  <2>2. \A x \in part : x.family \in DOMAIN E
    BY DraftMembers DEF DraftRetrieval
  <2>3. \A x \in draft : x.family \in DOMAIN E => x \in part
    BY <1>2, <1>4, SameMembers DEF DraftRetrieval
  <2>4. \A x \in part : x \in draft
    BY <1>2, <1>4, <2>2, SameMembers DEF DraftRetrieval
  <2> HIDE DEF refused, draft, part
  <2>5. QED
    BY <1>1, <2>1, <2>2, <2>3, <2>4
<1>6. swept = {x \in sweeps : x.family \notin refused}
  <2>1. \A x \in sweeps : x.family \in DOMAIN D /\ x.b \in Trackers
    BY PplMembers
  <2>2. \A x \in swept : x.family \in DOMAIN E /\ x.b \in Trackers
    BY PplMembers
  <2>3. REFERENCE \in Trackers
    BY DEF REFERENCE, Trackers
  <2>4. \A x \in sweeps : x.family \in DOMAIN E => x \in swept
    BY <1>2, <2>1, <2>3, SameSweeps
  <2>5. \A x \in swept : x \in sweeps
    BY <1>2, <2>2, <2>3, SameSweeps
  <2> HIDE DEF refused, sweeps, swept
  <2>6. QED
    BY <1>1, <2>1, <2>2, <2>4, <2>5
<1>7. DOMAIN R = draft /\ DOMAIN S = part /\ \A x \in part : S[x] = R[x]
  <2>1. Eligible({}, part) = Eligible(refused, draft)
    <3> HIDE DEF part, refused, draft
    <3>1. QED
      BY <1>5 DEF Eligible
  <2>2. /\ R = HolmByGroup(draft, Eligible(refused, draft))
        /\ S = HolmByGroup(part, Eligible({}, part))
    BY DEF RetrievalContrasts
  <2>3. part \in SUBSET draft
    BY <1>5
  <2> HIDE DEF part, refused, draft, R, S
  <2>4. QED
    BY <2>1, <2>2, <2>3, HolmOfPart
<1>8. DOMAIN P = sweeps /\ DOMAIN Q = swept /\ \A x \in swept : Q[x] = P[x]
  <2> DEFINE eligible == {x \in sweeps : x.primary /\ x.family \notin refused}
  <2>1. {x \in swept : x.primary /\ x.family \notin {}} = eligible
    BY <1>6
  <2>2. P = HolmByGroup(sweeps, eligible) /\ Q = HolmByGroup(swept, eligible)
    BY <2>1 DEF PplContrasts
  <2>3. swept \in SUBSET sweeps
    BY <1>6
  <2> HIDE DEF swept, eligible, refused, sweeps, P, Q
  <2>4. QED
    BY <2>2, <2>3, HolmOfPart
<1> HIDE DEF refused, draft, part, sweeps, swept, R, S, P, Q
<1>9. \A f \in DOMAIN D \ refused :
        SameContrasts(R, S, f, GateArms) /\ SameContrasts(P, Q, f, GateArms)
  BY <1>5, <1>6, <1>7, <1>8 DEF SameContrasts
<1>10. /\ Separated(D, refused, R, P) = Separated(E, {}, S, Q)
       /\ BlockedFamilies(D, refused, R, P) = BlockedFamilies(E, {}, S, Q)
  <2>1. DOMAIN D \ refused = DOMAIN E \ {}
    BY <1>1
  <2>2. SameReadings(D, E, refused, R, S, P, Q)
    BY <1>1, <1>2, <1>9 DEF SameReadings
  <2>3. QED
    BY <2>1, <2>2, SameDecisions
<1>11. [x \in {y \in DOMAIN R : y.family \notin refused} |-> R[x]]
         = [x \in {y \in DOMAIN S : y.family \notin {}} |-> S[x]]
  BY <1>5, <1>7
<1>12. /\ Gate1Verdict(D).adjusted = [x \in {y \in DOMAIN R : y.family \notin refused} |-> R[x]]
       /\ Gate1Verdict(D).separated = Separated(D, refused, R, P)
       /\ Gate1Verdict(D).blocked = BlockedFamilies(D, refused, R, P)
  BY DEF Gate1Verdict, BlockedFamilies, refused, R, P
<1>13. /\ Gate1Verdict(E).adjusted = [x \in {y \in DOMAIN S : y.family \notin {}} |-> S[x]]
       /\ Gate1Verdict(E).separated = Separated(E, {}, S, Q)
       /\ Gate1Verdict(E).blocked = BlockedFamilies(E, {}, S, Q)
       /\ Gate1Verdict(E).refused = {}
  BY <1>3 DEF Gate1Verdict, BlockedFamilies, S, Q
<1>14. QED
  BY <1>10, <1>11, <1>12, <1>13

(* Two readings that differ in the bf16 arm at most have one verdict.       *)
LEMMA GateArmsDecide ==
  ASSUME NEW D, NEW E, DOMAIN E = DOMAIN D,
         \A f \in DOMAIN D : SamePod(D, E, f, GateArms) /\ SamePod(E, D, f, GateArms)
  PROVE  Gate1Verdict(E) = Gate1Verdict(D)
<1> DEFINE refused == Refused(D)
           draft == DraftRetrieval(D)
           sweeps == PplDraft(D)
           swept == PplDraft(E)
           R == RetrievalContrasts(D, refused)
           P == PplContrasts(D, refused)
           Q == PplContrasts(E, refused)
<1>1. DOMAIN E = DOMAIN D
  OBVIOUS
<1>2. \A f \in DOMAIN D : SamePod(D, E, f, GateArms) /\ SamePod(E, D, f, GateArms)
  OBVIOUS
<1>3. Refused(E) = refused
  <2>1. Refused(E) \subseteq DOMAIN D /\ refused \subseteq DOMAIN D
    BY <1>1 DEF Refused
  <2>2. \A f \in refused : f \in Refused(E)
    BY <1>2, <2>1, SameRefusal
  <2>3. \A f \in Refused(E) : f \in refused
    BY <1>2, <2>1, SameRefusal
  <2>4. QED
    BY <2>2, <2>3
<1>4. REFERENCE \in GateArms /\ PRIMARY_CONTROLS \cup SECONDARY_CONTROLS \subseteq GateArms
  BY GateArmsRead
<1>5. DraftRetrieval(E) = draft
  <2>1. \A x \in draft : x \in DraftRetrieval(E)
    BY <1>2, <1>4, DraftMembers, SameMembers DEF DraftRetrieval
  <2>2. \A x \in DraftRetrieval(E) : x \in draft
    <3>1. SUFFICES ASSUME NEW x \in DraftRetrieval(E)
                   PROVE  x \in draft
      OBVIOUS
    <3>2. x.family \in DOMAIN D
      BY <1>1, DraftMembers DEF DraftRetrieval
    <3>3. QED
      BY <1>2, <1>4, <3>2, SameMembers DEF DraftRetrieval
  <2> HIDE DEF draft
  <2>3. QED
    BY <2>1, <2>2
<1>6. RetrievalContrasts(E, refused) = R
  BY <1>5 DEF RetrievalContrasts
<1>7. \A x : x.b \in GateArms => (x \in sweeps <=> x \in swept)
  <2>1. \A x \in sweeps : x.family \in DOMAIN D
    BY PplMembers
  <2>2. \A x \in swept : x.family \in DOMAIN D
    BY PplMembers
  <2>3. QED
    BY <1>2, <1>4, <2>1, <2>2, SameSweeps
<1>8. \A x \in sweeps \cup swept : x.primary => x.b \in GateArms
  <2>1. \A x \in sweeps \cup swept : x.primary = (x.b \in PRIMARY_CONTROLS)
    BY PplMembers
  <2>2. QED
    BY <2>1, GateArmsRead
<1>9. {x \in swept : x.primary /\ x.family \notin refused} =
        {x \in sweeps : x.primary /\ x.family \notin refused}
  <2> HIDE DEF sweeps, swept, refused
  <2>1. QED
    BY <1>7, <1>8
<1>10. \A f : SameContrasts(P, Q, f, GateArms)
  <2> DEFINE eligible == {x \in sweeps : x.primary /\ x.family \notin refused}
  <2>1. P = HolmByGroup(sweeps, eligible) /\ Q = HolmByGroup(swept, eligible)
    BY <1>9 DEF PplContrasts
  <2> HIDE DEF eligible, sweeps, swept, P, Q
  <2>2. QED
    BY <1>7, <2>1 DEF SameContrasts, HolmByGroup
<1> HIDE DEF refused, draft, sweeps, swept, R, P, Q
<1>11. \A f : SameContrasts(R, R, f, GateArms)
  BY DEF SameContrasts
<1>12. /\ Separated(D, refused, R, P) = Separated(E, refused, R, Q)
       /\ BlockedFamilies(D, refused, R, P) = BlockedFamilies(E, refused, R, Q)
  <2>1. SameReadings(D, E, refused, R, R, P, Q)
    BY <1>2, <1>10, <1>11 DEF SameReadings
  <2>2. (DOMAIN D) \ refused = (DOMAIN E) \ refused
    BY <1>1
  <2>3. QED
    BY <2>1, <2>2, SameDecisions
<1>13. Readable(E) = Readable(D)
  <2>1. \A f \in DOMAIN D : HasArm(E, f, REFERENCE) <=> HasArm(D, f, REFERENCE)
    BY <1>2, <1>4, SameCells DEF HasArm
  <2>2. QED
    BY <1>1, <2>1 DEF Readable
<1>14. QED
  BY <1>3, <1>6, <1>12, <1>13 DEF Gate1Verdict, BlockedFamilies, refused, R, P, Q

(* Without the bf16 arm, the verdict is the same.                          *)
LEMMA Bf16LeavesNoTrace ==
  ASSUME GateTypeOK
  PROVE  Gate1Verdict(WithoutBf16) = Gate1Verdict(records)
<1>1. ASSUME NEW f \in DOMAIN records
      PROVE  /\ SamePod(records, WithoutBf16, f, GateArms)
             /\ SamePod(WithoutBf16, records, f, GateArms)
  <2>1. /\ records[f] \in [arm : [Trackers -> ArmRecords], diag : {CleanDiag, LateRepair}]
        /\ WithoutBf16[f] = [records[f] EXCEPT !.arm["bf16"] = Stopped]
        /\ f \in DOMAIN WithoutBf16
    BY DEF GateTypeOK, WithoutBf16
  <2>2. /\ WithoutBf16[f].diag = records[f].diag
        /\ \A k \in GateArms : WithoutBf16[f].arm[k] = records[f].arm[k]
    BY <2>1 DEF GateArms
  <2>3. QED
    BY <2>1, <2>2 DEF SamePod
<1>2. DOMAIN WithoutBf16 = DOMAIN records
  BY DEF WithoutBf16
<1>3. QED
  BY <1>1, <1>2, GateArmsDecide

(* A refused family's records are gone before anything is corrected, and   *)
(* the bf16 arm moves nothing: the gate is a function of the rest.         *)
THEOREM OutsidersAreOutside == GateSpec => []OutsidersLeaveNoTrace
<1>1. GateTypeOK => OutsidersLeaveNoTrace
  <2>1. SUFFICES ASSUME GateTypeOK
                 PROVE  OutsidersLeaveNoTrace
    OBVIOUS
  <2>2. /\ Gate1Verdict(WithoutRefused).adjusted = Gate1Verdict(records).adjusted
        /\ Gate1Verdict(WithoutRefused).separated = Gate1Verdict(records).separated
        /\ Gate1Verdict(WithoutRefused).blocked = Gate1Verdict(records).blocked
        /\ Gate1Verdict(WithoutRefused).refused = {}
    BY RefusedLeaveNoTrace DEF WithoutRefused
  <2>3. Gate1Verdict(WithoutBf16) = Gate1Verdict(records)
    BY <2>1, Bf16LeavesNoTrace
  <2>4. QED
    BY <2>2, <2>3 DEF OutsidersLeaveNoTrace
<1>2. QED
  BY <1>1, GateTypeCorrect, PTL
=============================================================================
