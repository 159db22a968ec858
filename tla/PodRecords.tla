----------------------------- MODULE PodRecords -----------------------------
(***************************************************************************)
(* How the readings of a pod reach its results directory.  The run on the  *)
(* instance prints record lines, and prints them a second time on its way  *)
(* out (runner.py, records.py `replayed`); `pod.py harvest` on the         *)
(* operator's machine fetches some stretch of the log, parses all of it,   *)
(* refuses to shrink a record file, and rewrites the files one by one;     *)
(* `pod.py check` says from the files alone whether the pod is complete.   *)
(* The log dies with its instance, a fetch returns what it likes, harvest  *)
(* may be killed inside any write, and a relaunch of the same pod shares   *)
(* the directory with the launch before it.                                *)
(*                                                                         *)
(* Abstracted: what a reading says beyond having failed or not, the order  *)
(* of the rows of a file, [diag] and [stage] lines, the checks of config   *)
(* hash, commit and package pins (they read nothing the harvest writes).   *)
(***************************************************************************)
EXTENDS Integers, FiniteSets, SequencesExt

CONSTANTS Tape,        \* the pod's points in the order run_pod visits them: their axes
          NParts,      \* how many fragments a [pplw] group is split into
          Polls,       \* bound: how long the log may be at an earlier poll
          MaxLaunches, MaxHarvests, MaxCuts, MaxFailures    \* bounds

Axes == {"trial", "ppl", "latency", "kernel_check"}
ASSUME TapeAssumption == Tape \in Seq(Axes) /\ NParts \in Nat \ {0}

Points == DOMAIN Tape

(* A line: its kind, the point it reports (0: the boot's), its part        *)
(* number, whether it reports a failure, and the launch it comes from.     *)
VARIABLES
  launches,  \* launches so far
  at,        \* the point run_pod is at; 0 while booting, Len(Tape) + 1 when over
  outcome,   \* per point of this launch: "not run", "ok", "failed"; 0 is the hook
  log,       \* the lines of the last launch's instance
  replayFrom, \* where in log the repeated lines start, 0 while there are none
  disk,      \* the record files and pre_run.txt
  env,       \* env.txt: "absent", "whole" or "torn"
  man,       \* manifest.json
  hv,        \* the harvest in progress
  cuts,     \* bound: harvests killed so far
  harvests,  \* bound: harvests started so far
  settled    \* history: what the last harvest of this launch read, if it went
             \* through and overrode no refusal

run == <<launches, at, outcome, log, replayFrom>>
dir == <<disk, env, man>>
recordsVars == <<run, dir, hv, cuts, harvests, settled>>

Line(kind, p, part, bad) ==
  [kind |-> kind, pt |-> p, part |-> part, bad |-> bad, launch |-> launches]

-----------------------------------------------------------------------------
(* The lines of one point.  A trial carries its failure in its own row and *)
(* a checked prompt does too, beside an [error] line; the other axes leave *)
(* nothing but the [error] line.                                           *)
ErrorLine(p) == <<Line("error", p, 0, TRUE)>>

TrialLines(p, ok) == <<Line("trial", p, 0, ~ok)>>

KernelCheckLines(p, ok) ==
  (IF ok THEN <<>> ELSE ErrorLine(p)) \o <<Line("kernel_check", p, 0, ~ok)>>

LatencyLines(p, ok) == IF ok THEN <<Line("latency", p, 0, FALSE)>> ELSE ErrorLine(p)

WindowLines(p) == [n \in 1..NParts |-> Line("pplw", p, n, FALSE)]

PplLines(p, ok) ==
  IF ok THEN WindowLines(p) \o <<Line("ppl", p, 0, FALSE)>> ELSE ErrorLine(p)

PointLines(p, ok) ==
  CASE Tape[p] = "trial" -> TrialLines(p, ok)
    [] Tape[p] = "kernel_check" -> KernelCheckLines(p, ok)
    [] Tape[p] = "latency" -> LatencyLines(p, ok)
    [] Tape[p] = "ppl" -> PplLines(p, ok)

(* What boot.sh prints before the entrypoint: the ENV block, the pre_run   *)
(* hook's counts row (part 1: it counts passed tests) and its exit code.   *)
Hooks == {"ok", "failed", "skipped"}
BootLines(h) ==
  <<Line("env", 0, 0, FALSE),
    Line("pre_run", 0, IF h = "skipped" THEN 0 ELSE 1, h = "failed"),
    Line("rc", 0, 0, h = "failed")>>

(* Mutant: the per-window lines are left out of the repeat.                *)
ReplayableNoWindows(l) == l.kind \notin {"env", "pre_run", "rc", "pplw"}

(* What the tee around the run keeps: python's own record lines.           *)
Replayable(l) == l.kind \notin {"env", "pre_run", "rc"}

-----------------------------------------------------------------------------
(* The parsers.                                                            *)

(* Mutant: nothing is dropped.                                             *)
DedupNot(s) == s

(* The elements of s at the positions in keep, in the order of s.          *)
Picked(s, keep) ==
  LET kept[n \in 0..Len(s)] ==
        IF n = 0 THEN <<>> ELSE IF n \in keep THEN Append(kept[n - 1], s[n]) ELSE kept[n - 1]
  IN kept[Len(s)]

(* dict.fromkeys: exact duplicates dropped, the first one stays.           *)
Dedup(s) == Picked(s, {n \in DOMAIN s : \A m \in 1..(n - 1) : s[m] # s[n]})

RecordFiles == {"trial", "pplw", "ppl", "latency", "kernel_check"}
Files == RecordFiles \cup {"pre_run"}

Rows(f, text) == Picked(text, {n \in DOMAIN text : text[n].kind = f})

Parts(text, p) ==
  {text[n].part : n \in {k \in DOMAIN text : text[k].kind = "pplw" /\ text[k].pt = p}}

(* Otherwise parse_pplw_lines stops the harvest.                           *)
PartsComplete(text) == \A p \in Points : Parts(text, p) \in {{}, 1..NParts}

ErrorLines(text) == Rows("error", text)
BadRows(rows) == Picked(rows, {n \in DOMAIN rows : rows[n].bad})

(* manifest["errors"]: the failed trials and the [error] lines.            *)
Errors(text) == Len(BadRows(Rows("trial", text))) + Len(ErrorLines(text))

(* manifest["pre_run_rc"], from boot.sh's END marker.                      *)
PreRunRc(text) ==
  LET ends == Rows("rc", text)
  IN IF ends = <<>> THEN "none" ELSE IF ends[1].bad THEN "nonzero" ELSE "zero"

-----------------------------------------------------------------------------
(* The results directory.  A missing file and an empty one are alike.      *)

Empty == [rows |-> <<>>, torn |-> FALSE]
NewManifest == [exists |-> TRUE, torn |-> FALSE, errors |-> 0, rc |-> "none",
                harvested |-> FALSE]
Idle == [step |-> 0, text |-> <<>>, forced |-> FALSE, truth |-> <<>>]
Unsettled == [text |-> <<>>, truth |-> <<>>]

(* A kill inside a write leaves the file's beginning, its last line whole  *)
(* or not.                                                                 *)
CutShort(rows) ==
  {[rows |-> SubSeq(rows, 1, n), torn |-> b] : n \in 0..Len(rows), b \in BOOLEAN}
    \ {[rows |-> rows, torn |-> TRUE]}

(* read_jsonl raises on half a line; pre_run.txt is read as plain lines.   *)
Parses(f) == f = "pre_run" \/ ~disk[f].torn

OldRows(f) == Len(disk[f].rows) + (IF disk[f].torn THEN 1 ELSE 0)

(* Mutant: the guard covers trials.jsonl alone.                            *)
ShrinkRefusalTrials(f, rows) == f = "trial" /\ OldRows(f) > Len(rows)

ShrinkRefusal(f, rows) == OldRows(f) > Len(rows)


RecordsInit ==
  /\ launches = 0 /\ at = Len(Tape) + 1
  /\ outcome = [p \in 0..Len(Tape) |-> "not run"]
  /\ log = <<>> /\ replayFrom = 0
  /\ disk = [f \in Files |-> Empty]
  /\ env = "absent"
  /\ man = [NewManifest EXCEPT !.exists = FALSE]
  /\ hv = Idle /\ cuts = 0 /\ harvests = 0
  /\ settled = Unsettled

-----------------------------------------------------------------------------
(* The instance.                                                           *)

(* pod.py launch: a fresh manifest; the record files stay as they are.     *)
Launch ==
  /\ launches < MaxLaunches
  /\ launches' = launches + 1
  /\ at' = 0
  /\ outcome' = [p \in 0..Len(Tape) |-> "not run"]
  /\ log' = <<>> /\ replayFrom' = 0
  /\ man' = NewManifest
  /\ settled' = Unsettled
  /\ UNCHANGED <<disk, env, hv, cuts, harvests>>

(* A harvest in progress has its text: what the instance prints meanwhile  *)
(* is seen by none of its steps, so it may as well be printed before or    *)
(* after.  A log nobody will fetch any more is not printed (a bound).      *)
Prints == hv.step = 0 /\ harvests < MaxHarvests

Failures == Cardinality({p \in DOMAIN outcome : outcome[p] \in {"failed", "skipped"}})

Boot(h) ==
  /\ at = 0 /\ Prints
  /\ log' = BootLines(h)
  /\ outcome' = [outcome EXCEPT ![0] = h]
  /\ at' = 1
  /\ UNCHANGED <<launches, replayFrom, dir, hv, cuts, harvests, settled>>

(* One point, raising or not: run_pod goes on to the next.                 *)
RunPoint(ok) ==
  /\ at \in Points /\ Prints
  /\ ok \/ Failures < MaxFailures
  /\ log' = log \o PointLines(at, ok)
  /\ outcome' = [outcome EXCEPT ![at] = IF ok THEN "ok" ELSE "failed"]
  /\ at' = at + 1
  /\ UNCHANGED <<launches, replayFrom, dir, hv, cuts, harvests, settled>>

(* `replayed` prints the record lines again, whether the run ended...      *)
Repeats(body) ==
  /\ log' = body \o Picked(body, {n \in DOMAIN body : Replayable(body[n])})
  /\ replayFrom' = Len(body) + 1
  /\ at' = Len(Tape) + 1

RunReturns ==
  /\ launches > 0 /\ at = Len(Tape) + 1 /\ replayFrom = 0 /\ Prints
  /\ Repeats(log)
  /\ UNCHANGED <<launches, outcome, dir, hv, cuts, harvests, settled>>

(* ... or was stopped by TERM at the bar, between any two prints of a      *)
(* point.                                                                  *)
RunTermed(n) ==
  /\ at \in Points /\ Prints
  /\ n < Len(PointLines(at, TRUE))
  /\ Repeats(log \o SubSeq(PointLines(at, TRUE), 1, n))
  /\ UNCHANGED <<launches, outcome, dir, hv, cuts, harvests, settled>>

-----------------------------------------------------------------------------
(* pod.py harvest.                                                         *)

(* A fetch, or a dump kept of one, is a tail of the log as it is.  The     *)
(* watchdog harvests what it kept of several, duplicates dropped: before   *)
(* the tail what an earlier poll had got of a log that had not scrolled    *)
(* yet, with a gap where lines have scrolled out since.                    *)
LogTail(i) == SubSeq(log, i, Len(log))
Fetches == {LogTail(i) : i \in DOMAIN log}
             \cup UNION {{SubSeq(log, 1, n) \o LogTail(i) : i \in (n + 2)..Len(log)} :
                          n \in Polls \cap DOMAIN log}

(* Exact duplicates are dropped before anything is parsed.                 *)
Texts == {Dedup(fetched) : fetched \in Fetches}

(* Everything is parsed, and every file compared, before any is written.   *)
(* A refused harvest that is not forced changes nothing, and is no step.   *)
BeginHarvest ==
  /\ hv.step = 0
  /\ harvests < MaxHarvests
  /\ \A f \in Files : Parses(f)
  /\ \E text \in Texts :
       /\ PartsComplete(text)
       /\ hv' = [step |-> 1, text |-> text, truth |-> outcome,
                 forced |-> \E f \in Files : ShrinkRefusal(f, Rows(f, text))]
  /\ settled' = Unsettled
  /\ harvests' = harvests + 1
  /\ UNCHANGED <<run, dir, cuts>>

WriteOrder == <<"trial", "pplw", "ppl", "latency", "kernel_check", "manifest", "env", "pre_run">>
writing == WriteOrder[hv.step]

(* trials.jsonl is written even when it is empty, the others are not.      *)
Rewrites(f) == f = "trial" \/ Rows(f, hv.text) # <<>>

(* The writes after this one; the return is part of the last.              *)
WritesAhead == {n \in (hv.step + 1)..Len(WriteOrder) :
                  WriteOrder[n] \in Files => Rewrites(WriteOrder[n])}

HarvestContinues ==
  IF WritesAhead # {} THEN /\ hv' = [hv EXCEPT !.step = Min(WritesAhead)]
                           /\ UNCHANGED settled
                      ELSE /\ hv' = Idle
                           /\ settled' = IF hv.forced THEN Unsettled
                                          ELSE [text |-> hv.text, truth |-> hv.truth]

WriteFile ==
  /\ hv.step # 0 /\ writing \in Files
  /\ disk' = [disk EXCEPT ![writing] = [rows |-> Rows(writing, hv.text), torn |-> FALSE]]
  /\ HarvestContinues
  /\ UNCHANGED <<run, env, man, cuts, harvests>>

HarvestedManifest ==
  [exists |-> TRUE, torn |-> FALSE, errors |-> Errors(hv.text), rc |-> PreRunRc(hv.text),
   harvested |-> TRUE]

(* The manifest is read here, after the records were replaced: half a      *)
(* manifest stops the harvest at this point.                               *)
WriteManifest ==
  /\ hv.step # 0 /\ writing = "manifest"
  /\ IF man.torn THEN /\ hv' = Idle
                      /\ UNCHANGED <<man, settled>>
                 ELSE /\ man' = HarvestedManifest
                      /\ HarvestContinues
  /\ UNCHANGED <<run, disk, env, cuts, harvests>>

(* Never over an env.txt that is there, and only from the log's ENV block. *)
EnvWritten == env = "absent" /\ Rows("env", hv.text) # <<>>

WriteEnv ==
  /\ hv.step # 0 /\ writing = "env"
  /\ env' = IF EnvWritten THEN "whole" ELSE env
  /\ HarvestContinues
  /\ UNCHANGED <<run, disk, man, cuts, harvests>>

HarvestKilled ==
  /\ hv.step # 0 /\ cuts < MaxCuts
  /\ cuts' = cuts + 1
  /\ hv' = Idle
  /\ \/ UNCHANGED dir
     \/ /\ writing \in Files
        /\ \E file \in CutShort(Rows(writing, hv.text)) : disk' = [disk EXCEPT ![writing] = file]
        /\ UNCHANGED <<env, man>>
     \/ /\ writing = "manifest" /\ ~man.torn
        /\ man' = [man EXCEPT !.torn = TRUE]
        /\ UNCHANGED <<disk, env>>
     \/ /\ writing = "env" /\ EnvWritten
        /\ env' = "torn"
        /\ UNCHANGED <<disk, man>>
  /\ UNCHANGED <<run, harvests, settled>>

RecordsNext ==
  \/ Launch \/ RunReturns
  \/ \E h \in Hooks : Boot(h)
  \/ \E ok \in BOOLEAN : RunPoint(ok)
  \/ \E n \in 0..NParts : RunTermed(n)
  \/ BeginHarvest \/ WriteFile \/ WriteManifest \/ WriteEnv \/ HarvestKilled

RecordsSpec == RecordsInit /\ [][RecordsNext]_recordsVars

-----------------------------------------------------------------------------
(* pod.py check: what it looks at, rule by rule.                           *)

RowsOf(f, p) ==
  Picked(disk[f].rows, {n \in DOMAIN disk[f].rows : disk[f].rows[n].pt = p})
On(axis) == {p \in Points : Tape[p] = axis}

(* No trial raised, and the manifest counts nothing else either.           *)
ErrorFails == man.errors # 0 \/ BadRows(disk["trial"].rows) # <<>>

CellFails == \E p \in On("trial") : Len(RowsOf("trial", p)) # 1

PplFails == \E p \in On("ppl") : RowsOf("ppl", p) = <<>>
PplwFails == \E p \in On("ppl") : Len(RowsOf("pplw", p)) # NParts

(* Mutant: as before the decode axis had a rule of its own.                *)
LatencyFailsNot == FALSE

LatencyFails == \E p \in On("latency") : RowsOf("latency", p) = <<>>

KernelCheckFails == \E p \in On("kernel_check") : Len(RowsOf("kernel_check", p)) # 1

(* The exit code is zero and the counts row tells of a passed test.        *)
PreRunFails ==
  \/ man.rc # "zero"
  \/ \A n \in DOMAIN disk["pre_run"].rows : disk["pre_run"].rows[n].part = 0
  \/ BadRows(disk["pre_run"].rows) # <<>>

(* It raises on half a line before it can pass.                            *)
CheckPasses ==
  /\ man.exists /\ ~man.torn
  /\ \A f \in Files : Parses(f)
  /\ ~ErrorFails /\ ~CellFails /\ ~PplFails /\ ~PplwFails
  /\ ~LatencyFails /\ ~KernelCheckFails /\ ~PreRunFails
  /\ env = "whole"

-----------------------------------------------------------------------------
(* Properties.                                                             *)

(* Files hold rows of their own kind; counts and files stay in shape.      *)
RecordsTypeOK ==
  /\ launches \in 0..MaxLaunches /\ harvests \in 0..MaxHarvests /\ cuts \in 0..MaxCuts
  /\ at \in 0..(Len(Tape) + 1)
  /\ outcome \in [0..Len(Tape) -> Hooks \cup {"not run"}]
  /\ \A f \in Files : /\ disk[f].torn \in BOOLEAN
                      /\ \A l \in ToSet(disk[f].rows) : l.kind = f /\ l.pt \in 0..Len(Tape)
  /\ env \in {"absent", "whole", "torn"}
  /\ man.errors \in 0..Len(Tape) /\ man.rc \in {"none", "zero", "nonzero"}
  /\ hv.step \in 0..Len(WriteOrder)
  /\ replayFrom \in 0..(Len(log) + 1)

(* All or nothing: after a harvest that went through and overrode no       *)
(* refusal, every file of the directory is what that one log says, whatever*)
(* shorter, killed or forced harvest, of this launch or of the one before, *)
(* had left there.                                                         *)
HarvestWhole ==
  settled # Unsettled =>
    \A f \in Files : disk[f] = [rows |-> Rows(f, settled.text), torn |-> FALSE]

(* The lines the run prints twice are one record each: no file ever holds  *)
(* two rows for one reading.                                               *)
RecordOnce ==
  \A f \in Files : Cardinality(ToSet(disk[f].rows)) = Len(disk[f].rows)

(* A directory that passes `check` after a harvest went through is of a    *)
(* run whose hook passed and whose every trial, perplexity and decode      *)
(* point was measured, and every prompt checked, however little of the log *)
(* was fetched.  (A checked prompt may have failed: check counts the rows, *)
(* and the [error] line may be the one the tail begins after.)             *)
CheckTruthful ==
  settled # Unsettled /\ man.harvested /\ CheckPasses =>
    /\ \A p \in Points : IF Tape[p] = "kernel_check" THEN settled.truth[p] # "not run"
                                                     ELSE settled.truth[p] = "ok"
    /\ settled.truth[0] = "ok"

(* Once the repeat is printed it has every reading of the whole log, each  *)
(* counted once, the failures included; so has any tail that holds it,     *)
(* which lies between the two.  It is asked between harvests: during one   *)
(* nothing is printed.                                                     *)
ReplayIsEnough ==
  replayFrom # 0 /\ hv.step = 0 =>
    LET whole == Dedup(log)
        repeat == Dedup(SubSeq(log, replayFrom, Len(log)))
    IN /\ \A f \in RecordFiles : ToSet(Rows(f, repeat)) = ToSet(Rows(f, whole))
       /\ Errors(repeat) = Errors(whole)
       /\ PartsComplete(repeat) = PartsComplete(whole)
=============================================================================
