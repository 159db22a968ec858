------------------------------ MODULE PodWatch ------------------------------
(***************************************************************************)
(* The life of rented GPU instances: launch (scripts/pod.py) creates one   *)
(* and appends its label to pods.txt; boot.sh on the instance boots, runs  *)
(* under `timeout`, prints a final marker and destroys itself a grace      *)
(* period later; watchdog.sh on the operator's machine polls the logs of   *)
(* every label that is not in done.txt and, on a marker, destroys, retires *)
(* and harvests it.  Three processes that share two text files and a log   *)
(* only fetched by polling; any of the two scripts on the operator's side  *)
(* may be killed between any two commands, and be started again.           *)
(*                                                                         *)
(* Time is counted in polls, the watchdog's `sleep 150`.                   *)
(***************************************************************************)
EXTENDS Integers, SequencesExt

CONSTANTS Instances,    \* instance ids, which are also the labels
          GpuBudget,    \* the YAML's gpu_budget_h, in polls; 0 where it sets none
          MaxHours,     \* what `launch --max-hours` may be given, in polls
          Grace,        \* GRACE_S, in polls
          MinIters,     \* the floor under BUDGET_ITERS (600)
          RowKinds,     \* kinds of row an instance prints and the watchdog keeps
          Replayed,     \* those the replay repeats: what a parser reads back,
                        \* and [stage]; never [diag], left out on purpose
          MaxBoot,      \* bound: polls spent before the entrypoint starts
          Keyrings,     \* which instances may have a CONTAINER_API_KEY: sets of them
          Outages,      \* for which ones the watchdog's destroy may fail: sets of them
          MaxKills      \* bound: kills of the watchdog

ASSUME TimesAssumption ==
  /\ GpuBudget \in Nat /\ MaxHours \subseteq Nat \ {0}
  /\ Grace \in Nat \ {0} /\ MinIters \in Nat
  /\ MaxBoot \in 0..Grace
  /\ MaxKills \in Nat
ASSUME RowsAssumption == Replayed \subseteq RowKinds
ASSUME InstancesAssumption ==
  Keyrings \subseteq SUBSET Instances /\ Outages \subseteq SUBSET Instances

(* Mutant: the grace is left out.                                         *)
BudgetItersBar == IF GpuBudget < MinIters THEN MinIters ELSE GpuBudget

(* int((gpu_budget_h * 3600 + 7200) / 150) + 1, never under the floor.  It *)
(* reads the YAML and knows nothing of the bar an instance was launched    *)
(* with.                                                                   *)
BudgetIters == LET n == GpuBudget + Grace + 1 IN IF n < MinIters THEN MinIters ELSE n

(* The bar is --max-hours, or the YAML's budget; launch refuses a bar of   *)
(* zero.                                                                   *)
Bars == (MaxHours \cup {GpuBudget}) \ {0}

VARIABLES
  keyed,      \* the instances whose self-destruct works
  flaky,      \* the instances whose destroy may fail, unnoticed
  stage,      \* per instance: what boot.sh is doing
  age,        \* per instance: polls spent in that stage
  bar,        \* per instance: its MAX_HOURS, in polls
  missing,    \* per instance: kinds of row of which <label>.raw lacks one
  marker,     \* per instance: the markers in its log
  pods,       \* pods.txt, in append order
  launching,  \* a created instance whose pods.txt line is not yet written
  done,       \* done.txt, in append order
  harvested,  \* labels whose harvest succeeded
  pc,         \* watchdog.sh: which command comes next, or its status.txt
  pos,        \* which line of pods.txt it is at
  iter,       \* its poll counter
  kills,      \* kills so far
  late,       \* history: labels appended while the watchdog was running
  sound       \* history: L, the last fetch, is of full length and has ALL_DONE

given == <<keyed, flaky>>
pod == <<stage, age, marker, bar>>
files == <<pods, launching, done, missing, harvested>>
watch == <<pc, pos, iter, kills>>
history == <<late, sound>>
vars == <<given, pod, files, watch, history>>

Alive(i) == stage[i] \in {"boot", "run", "grace"}
cur == pods[pos]                       \* lab of the loop
Final == {"ALL_DONE", "RUN_FAILED", "BOOT_FAILED"}   \* what the watchdog looks for

Init ==
  /\ keyed \in Keyrings /\ flaky \in Outages
  /\ stage = [i \in Instances |-> "none"]
  /\ age = [i \in Instances |-> 0]
  /\ bar = [i \in Instances |-> 0]
  /\ missing = [i \in Instances |-> {}]
  /\ marker = [i \in Instances |-> {}]
  /\ pods = <<>> /\ launching = {} /\ done = <<>>
  /\ harvested = {}
  /\ pc = "off" /\ pos = 1 /\ iter = 0 /\ kills = 0
  /\ late = {} /\ sound = FALSE

-----------------------------------------------------------------------------
(* launch: the instance exists, and bills, before pods.txt knows of it.    *)

CreateInstance(i) ==
  /\ stage[i] = "none"
  /\ launching = {}
  /\ stage' = [stage EXCEPT ![i] = "boot"]
  /\ \E hours \in Bars : bar' = [bar EXCEPT ![i] = hours]
  /\ launching' = {i}
  /\ UNCHANGED <<given, age, marker, pods, done, missing, harvested, watch, history>>

Stops == {"ALL_DONE", "FLOOR_STOP", "BUDGET_EXPIRED"}
Running == pc \notin {"off"} \cup Stops

AppendPods(i) ==
  /\ i \in launching
  /\ pods' = Append(pods, i)
  /\ late' = IF Running THEN late \cup {i} ELSE late
  /\ launching' = {}
  /\ UNCHANGED <<given, pod, done, missing, harvested, watch, sound>>

LaunchKilled(i) ==
  /\ i \in launching
  /\ launching' = {}
  /\ UNCHANGED <<given, pod, pods, done, missing, harvested, watch, history>>

-----------------------------------------------------------------------------
(* boot.sh.                                                                *)

Enter(i, next) == /\ stage' = [stage EXCEPT ![i] = next]
                  /\ age' = [age EXCEPT ![i] = 0]
                  /\ UNCHANGED bar
Say(i, words) == marker' = [marker EXCEPT ![i] = @ \cup words]

(* A missing package or quantization backend is reported and the run goes  *)
(* on all the same; every other boot failure exits.                        *)
BootFails(i) ==
  /\ stage[i] = "boot"
  /\ Say(i, {"BOOT_FAILED"})
  /\ \/ Enter(i, "grace")
     \/ UNCHANGED <<stage, age, bar>>
  /\ UNCHANGED <<given, files, watch, history>>

StartRun(i) ==
  /\ stage[i] = "boot"
  /\ Enter(i, "run")
  /\ UNCHANGED <<given, marker, files, watch, history>>

PrintRow(i) ==
  /\ stage[i] = "run"
  /\ \E row \in RowKinds : missing' = [missing EXCEPT ![i] = @ \cup {row}]
  /\ UNCHANGED <<given, pod, pods, launching, done, harvested, watch, history>>

(* Mutant: the rows are not repeated.                                      *)
RunEndsOnce(i) ==
  /\ stage[i] = "run"
  /\ Enter(i, "grace")
  /\ \E end \in {"ALL_DONE", "RUN_FAILED"} : Say(i, {end})
  /\ UNCHANGED <<given, files, watch, history>>

(* Every row once, then the records again; an error or the TERM of         *)
(* `timeout` repeats what there is; the KILL after it repeats nothing.     *)
RunEnds(i) ==
  /\ stage[i] = "run"
  /\ Enter(i, "grace")
  /\ \/ Say(i, {"REPLAY", "ALL_DONE"})
     \/ Say(i, {"REPLAY", "RUN_FAILED"})
     \/ Say(i, {"RUN_FAILED"})
  /\ UNCHANGED <<given, files, watch, history>>

(* The log dies with the instance.                                         *)
Dies(S) == LET T == {i \in S : Alive(i)}
           IN /\ stage' = [i \in Instances |-> IF i \in T THEN "gone" ELSE stage[i]]
              /\ age' = [i \in Instances |-> IF i \in T THEN 0 ELSE age[i]]
              /\ marker' = [i \in Instances |-> IF i \in T THEN {} ELSE marker[i]]
              /\ UNCHANGED bar

(* Without credentials the call fails and the instance stays.              *)
SelfDestruct(i) ==
  /\ stage[i] = "grace"
  /\ age[i] = Grace
  /\ i \in keyed
  /\ Dies({i})
  /\ UNCHANGED <<given, files, watch, history>>

(* A step of the instance is due before the clock may go on: booting has a *)
(* bound, `timeout` ends the run at its bar, the grace sleep is over.      *)
Due(i) == \/ stage[i] = "boot" /\ age[i] = MaxBoot
          \/ stage[i] = "run" /\ age[i] = bar[i]
          \/ stage[i] = "grace" /\ age[i] = Grace /\ i \in keyed

Older == [i \in Instances |->
            IF Alive(i) /\ ~(stage[i] = "grace" /\ age[i] = Grace)
              THEN age[i] + 1 ELSE age[i]]

(* Time passes without the watchdog: it is not running, or its machine is  *)
(* asleep, at whatever command.                                            *)
Asleep ==
  /\ \A i \in Instances : ~Due(i)
  /\ age' = Older /\ age' # age
  /\ UNCHANGED <<given, stage, marker, bar, files, watch, history>>

(* sleep 150, and round the loop.                                          *)
SleepOver ==
  /\ pc = "sleep"
  /\ \A i \in Instances : ~Due(i)
  /\ age' = Older
  /\ IF iter < BudgetIters
       THEN pc' = "next" /\ pos' = 1 /\ iter' = iter + 1
       ELSE pc' = "expired" /\ UNCHANGED <<pos, iter>>
  /\ UNCHANGED <<given, stage, marker, bar, files, kills, history>>

-----------------------------------------------------------------------------
(* watchdog.sh.  Started, and after a kill or an exit started again, while *)
(* a listed label is not in done.txt; one at a time.                       *)

StartWatchdog ==
  /\ ~Running
  /\ ToSet(pods) \ ToSet(done) # {}
  /\ pc' = "next" /\ pos' = 1 /\ iter' = 1
  /\ late' = {}
  /\ UNCHANGED <<given, pod, files, kills, sound>>

WatchdogKilled ==
  /\ Running
  /\ kills < MaxKills
  /\ kills' = kills + 1
  /\ pc' = "off" /\ pos' = 1 /\ iter' = 0
  /\ sound' = FALSE
  /\ UNCHANGED <<given, pod, files, late>>

Goto(next) == pc' = next /\ UNCHANGED <<pos, iter, kills>>

(* Mutant: done.txt is not looked at.                                      *)
NextLabelAgain ==
  /\ pc = "next"
  /\ IF pos > Len(pods)
       THEN Goto("credit")
       ELSE Goto("fetch")
  /\ UNCHANGED <<given, pod, files, history>>

NextLabel ==
  /\ pc = "next"
  /\ IF pos > Len(pods)
       THEN Goto("credit")
       ELSE IF pods[pos] \in ToSet(done)
         THEN pos' = pos + 1 /\ UNCHANGED <<pc, iter, kills>>
         ELSE Goto("fetch")
  /\ UNCHANGED <<given, pod, files, history>>

Skip == pc' = "next" /\ pos' = pos + 1 /\ UNCHANGED <<iter, kills>>

(* Both fetches may come back empty, and do for an instance that is gone.  *)
(* A full-length one of a log that repeats its records has those all,      *)
(* however many had scrolled out between two polls; what is not repeated   *)
(* may have scrolled out for good, and any other fetch may miss anything.  *)
FetchLog ==
  /\ pc = "fetch"
  /\ \/ /\ Skip
        /\ UNCHANGED <<missing, sound>>
     \/ /\ Alive(cur)
        /\ \E full \in BOOLEAN, scrolled \in SUBSET RowKinds :
             /\ full /\ "REPLAY" \in marker[cur] => scrolled \cap Replayed = {}
             /\ missing' = [missing EXCEPT ![cur] = @ \cap scrolled]
             /\ IF marker[cur] \cap Final # {}
                  THEN /\ Goto("destroy")
                       /\ sound' = (full /\ "ALL_DONE" \in marker[cur])
                  ELSE Skip /\ UNCHANGED sound
  /\ UNCHANGED <<given, pod, pods, launching, done, harvested, late>>

(* `vastai destroy`, its exit code thrown away.                            *)
DestroyCalls(S) == \E T \in SUBSET S : S \ T \subseteq flaky /\ Dies(T)

Destroy ==
  /\ pc = "destroy"
  /\ DestroyCalls({cur})
  /\ Goto("retire")
  /\ UNCHANGED <<given, files, history>>

Retire ==
  /\ pc = "retire"
  /\ done' = Append(done, cur)
  /\ Goto("harvest")
  /\ UNCHANGED <<given, pod, pods, launching, missing, harvested, history>>

(* .raw becomes .log and `pod.py harvest` is run on it; it may refuse.     *)
Harvest ==
  /\ pc = "harvest"
  /\ harvested' \in {harvested, harvested \cup {cur}}
  /\ Skip
  /\ sound' = FALSE
  /\ UNCHANGED <<given, pod, pods, launching, done, missing, late>>

Exit(why) == pc' = why /\ pos' = 1 /\ iter' = 0 /\ UNCHANGED kills   \* status.txt

(* Below the floor everything goes, harvested or not; with as many lines   *)
(* in done.txt as in pods.txt the watchdog's work is over.  Counting and   *)
(* exiting are one step: a line appended between them is as good as one    *)
(* appended after the exit.                                                *)
CreditCheck ==
  /\ pc = "credit"
  /\ \/ /\ DestroyCalls(ToSet(pods))
        /\ Exit("FLOOR_STOP")
     \/ /\ UNCHANGED pod
        /\ IF Len(pods) > 0 /\ Len(done) >= Len(pods)
             THEN Exit("ALL_DONE")
             ELSE Goto("sleep")
  /\ UNCHANGED <<given, files, history>>

(* Mutant: the watchdog stops polling and that is all.                     *)
ExpiredQuietly ==
  /\ pc = "expired"
  /\ Exit("BUDGET_EXPIRED")
  /\ UNCHANGED <<given, pod, pods, launching, done, missing, harvested, history>>

Expired ==
  /\ pc = "expired"
  /\ DestroyCalls(ToSet(pods))
  /\ Exit("BUDGET_EXPIRED")
  /\ UNCHANGED <<given, files, history>>

-----------------------------------------------------------------------------
LaunchStep == \E i \in Instances : CreateInstance(i) \/ AppendPods(i) \/ LaunchKilled(i)
PodStep(i) == BootFails(i) \/ StartRun(i) \/ PrintRow(i) \/ RunEnds(i) \/ SelfDestruct(i)
WatchStep == \/ NextLabel \/ FetchLog \/ Destroy \/ Retire \/ Harvest
             \/ CreditCheck \/ SleepOver \/ Expired

Next == \/ LaunchStep
        \/ \E i \in Instances : PodStep(i)
        \/ Asleep \/ StartWatchdog \/ WatchdogKilled
        \/ WatchStep

Spec == Init /\ [][Next]_vars

(* An instance leaves each stage: boot.sh is sequential and its run is     *)
(* under `timeout`.  Time passes.  A running watchdog takes its next step, *)
(* and a killed one is started again while a label is left.                *)
FairSpec == /\ Spec
            /\ \A i \in Instances : WF_vars(StartRun(i)) /\ WF_vars(RunEnds(i))
                                    /\ WF_vars(SelfDestruct(i))
            /\ WF_vars(Asleep) /\ WF_vars(WatchStep) /\ WF_vars(StartWatchdog)

-----------------------------------------------------------------------------
(* The states the variables stay in.                                       *)
TypeOK ==
  /\ keyed \in Keyrings /\ flaky \in Outages
  /\ stage \in [Instances -> {"none", "boot", "run", "grace", "gone"}]
  /\ age \in [Instances -> Nat]
  /\ bar \in [Instances -> Bars \cup {0}]
  /\ \A i \in Instances :
       age[i] <= CASE stage[i] = "boot" -> MaxBoot [] stage[i] = "run" -> bar[i]
                   [] stage[i] = "grace" -> Grace [] OTHER -> 0
  /\ missing \in [Instances -> SUBSET RowKinds]
  /\ marker \in [Instances -> SUBSET (Final \cup {"REPLAY"})]
  /\ pods \in Seq(Instances) /\ done \in Seq(Instances)
  /\ launching \in SUBSET Instances /\ harvested \in SUBSET Instances
  /\ pc \in {"off", "next", "fetch", "destroy", "retire", "harvest", "credit",
             "sleep", "expired"} \cup Stops
  /\ pos \in 1..Len(pods) + 1
  /\ iter \in 0..BudgetIters /\ kills \in 0..MaxKills

(* The records of a run that ended ALL_DONE miss no row that a parser      *)
(* reads back, unless the fetch it was retired on was the fall-back: none  *)
(* is lost to the scrolling buffer, to a destroy that overtakes the fetch, *)
(* or to a kill.  Nothing is said of [diag] rows: those that scroll out    *)
(* between two polls are lost, as records.py means them to be.             *)
HarvestComplete ==
  [][harvested' # harvested /\ sound => missing[cur] \cap Replayed = {}]_vars

(* The expiry never takes an instance that was listed when the watchdog    *)
(* started and has not ended: the polls it counts cover the boot, the bar  *)
(* and the grace, however often the watchdog was killed and restarted.     *)
(* Except one launched with a longer bar than the YAML's budget and than   *)
(* what the floor covers: the watchdog does not know of --max-hours.       *)
Healthy(i) == stage[i] \in {"boot", "run"}
Reaps(i) == pc = "expired" /\ Healthy(i) /\ stage'[i] = "gone"
Outbid(i) == bar[i] > GpuBudget /\ bar[i] + Grace + 1 > MinIters
ExpiryAfterBar ==
  [][\A i \in Instances : Reaps(i) => i \in late \/ Outbid(i)]_vars

(* status.txt says ALL_DONE only when every listed label is in done.txt:   *)
(* counting its lines is as good as comparing the files.                   *)
AllDoneIsTrue == [][pc' # pc /\ pc' = "ALL_DONE" => ToSet(pods) \subseteq ToSet(done)]_vars

(* Nothing bills for ever: an instance that can destroy itself does, and   *)
(* one that cannot is destroyed by the watchdog once pods.txt lists it,    *)
(* unless the calls themselves fail; the watchdog may be killed, asleep,   *)
(* or fetch nothing.                                                       *)
BillingStops ==
  \A i \in Instances :
    (stage[i] # "none" /\ (i \in keyed \/ i \in ToSet(pods) \ flaky))
      ~> stage[i] = "gone"
=============================================================================
