------------------------------- MODULE Profile -------------------------------
(***************************************************************************)
(* The performance profile of a machine: one file beside the indexes,      *)
(* calibrated by the scan that finds it missing or unfit, and corrected    *)
(* after several scans whose observed rates deviate from it                *)
(* (src/profile.cpp, src/calibration.cpp and the beginning and the end of  *)
(* MediaSearchEngine::scan).  Engines may be of two processes: nothing     *)
(* locks the file.                                                         *)
(*                                                                         *)
(* Rates are levels that tell the 25 % and 40 % tolerances apart, and a    *)
(* measured pair carries, as history, the GPU and the day it was measured. *)
(* Exact and Soft matches are used alike and not told apart; a CPU model   *)
(* is compared as a GPU is, so only the GPU is kept.  The confidence is    *)
(* stored and never read.                                                  *)
(***************************************************************************)
EXTENDS Naturals

CONSTANTS
  Engines,        \* the engines that scan, one in each process
  Gpus, NoGpu,    \* the GPUs the machine may have, or none
  Levels,         \* the levels of throughput
  NoRate, NoFile,
  MaxAge,         \* kDefaultMaxAgeDays
  Repetitions,    \* DeviationPolicy::repetitions
  MaxProfileDays, \* bound: days that pass
  MaxSwaps        \* bound: changes of the GPU

ASSUME ProfileAssumption ==
  /\ {MaxAge, MaxProfileDays, MaxSwaps} \subseteq Nat
  /\ Repetitions \in Nat /\ Repetitions >= 2

VARIABLES
  gpu,       \* the machine's GPU
  today,
  file,      \* PerformanceProfile.ini
  scan,      \* what the scan of an engine knows
  tracker,   \* recalTracker_ of an engine
  reuse,     \* one engine runs many scans (the class allows it, and no caller does it)
  drift,     \* history: scans in a row that deviated from their profile, no recalibration since
  swaps

profileVars == <<gpu, today, file, scan, tracker, reuse, drift, swaps>>

Machine == Gpus \cup {NoGpu}
Rate == [level: Levels, on: Machine, taken: 0..MaxProfileDays]
\* cpu: only the CPU is measured; a file without a measured CPU is never saved.
File == [gpu: Machine, rate: Rate \cup {NoRate}, updated: 0..MaxProfileDays]
Resting == [phase |-> "idle", had |-> FALSE, old |-> NoRate, base |-> NoRate,
            gpuOn |-> FALSE, seen |-> NoFile, live |-> 0, began |-> 0]
FreshTracker == [count |-> 0, id |-> NoGpu]

-----------------------------------------------------------------------------
\* ProfileStore.

\* A mutant: an absent GPU is unknown, not another capability.
ClassifyLenient(f) ==
  CASE f = NoFile -> "missing"
    [] f # NoFile /\ f.gpu # gpu /\ gpu # NoGpu -> "hard"
    [] OTHER -> IF today > f.updated + MaxAge THEN "stale" ELSE "match"

Classify(f) ==
  CASE f = NoFile -> "missing"
    [] f # NoFile /\ f.gpu # gpu -> "hard"
    [] OTHER -> IF today > f.updated + MaxAge THEN "stale" ELSE "match"

\* initialEstimate: a pair or nothing.
Estimate(f) == IF Classify(f) = "match" THEN f.rate ELSE NoRate

\* profileNeedsCalibration on top of the verdict.
NeedsCalibration(f, gpuOn) ==
  \/ Classify(f) # "match"
  \/ f.rate = NoRate /\ gpuOn /\ gpu # NoGpu

\* save: the new file, a failure that leaves the old one, or a failure (or an
\* end of the process) between the removal and the rename.
Saved(new) == {new, file, NoFile}

-----------------------------------------------------------------------------
ProfileInit ==
  /\ gpu \in Machine
  /\ today = 0
  /\ file = NoFile
  /\ scan = [e \in Engines |-> Resting]
  /\ tracker = [e \in Engines |-> FreshTracker]
  /\ reuse \in BOOLEAN
  /\ drift = [e \in Engines |-> 0]
  /\ swaps = 0

\* scan(): the profile is loaded and judged.  A new engine has a new tracker.
BeginProfiledScan(e, gpuOn) ==
  /\ scan[e].phase = "idle"
  /\ tracker' = IF reuse THEN tracker ELSE [tracker EXCEPT ![e] = FreshTracker]
  /\ scan' = [scan EXCEPT ![e] =
        [Resting EXCEPT !.phase = IF NeedsCalibration(file, gpuOn) THEN "calibrating" ELSE "running",
                        !.had = file # NoFile, !.gpuOn = gpuOn, !.began = today,
                        !.old = Estimate(file),
                        !.base = IF NeedsCalibration(file, gpuOn) THEN NoRate ELSE Estimate(file)]]
  /\ UNCHANGED <<gpu, today, file, reuse, drift, swaps>>

\* What Calibrator::run can find: a stage failed; the CPU alone (no GPU, GPU
\* switched off, or the time was up); both.
Found(e) == {"failed", "cpu"} \cup (IF gpu # NoGpu /\ scan[e].gpuOn THEN {"both"} ELSE {})

\* The scan calibrates.  An incomplete candidate is only saved where no
\* profile was loaded, and is never the baseline.
Calibrate(e, found, level) ==
  /\ scan[e].phase = "calibrating"
  /\ found \in Found(e)
  /\ LET rate == IF found = "both" THEN [level |-> level, on |-> gpu, taken |-> today] ELSE NoRate
         complete == found = "both" \/ (found = "cpu" /\ ~scan[e].had)
     IN /\ file' \in IF complete THEN Saved([gpu |-> gpu, rate |-> rate, updated |-> today]) ELSE {file}
        /\ scan' = [scan EXCEPT ![e].phase = "running",
                                ![e].base = IF complete THEN rate ELSE scan[e].old]
  /\ UNCHANGED <<gpu, today, tracker, reuse, drift, swaps>>

\* DeviationTracker::feed for a profile of this id: the deviations in a row,
Deviations(t, id, deviates) ==
  IF ~deviates THEN 0 ELSE (IF t.id = id THEN t.count ELSE 0) + 1

\* A mutant: a recalibration does not begin the count anew.
FedUncleared(t, id, deviates) == [count |-> Deviations(t, id, deviates), id |-> id]

\* and the tracker after it, which begins anew when the policy's number is reached.
Fed(t, id, deviates) ==
  [count |-> IF Deviations(t, id, deviates) >= Repetitions THEN 0 ELSE Deviations(t, id, deviates),
   id |-> id]

\* finishScan of a scan that is stopped or fails, that no profile fed, or that
\* has not observed both rates: the tracker is not asked.
EndUnfed(e) ==
  /\ scan[e].phase = "running"
  /\ scan' = [scan EXCEPT ![e] = Resting]
  /\ drift' = [drift EXCEPT ![e] = 0]
  /\ UNCHANGED <<gpu, today, file, tracker, reuse, swaps>>

\* finishScan of a completed scan: the observed rates against the baseline.
EndFed(e, live) ==
  /\ scan[e].phase = "running"
  /\ scan[e].base # NoRate
  /\ file # NoFile
  /\ LET deviates == live # scan[e].base.level
         fires == Deviations(tracker[e], file.gpu, deviates) >= Repetitions
     IN /\ tracker' = [tracker EXCEPT ![e] = Fed(@, file.gpu, deviates)]
        /\ scan' = [scan EXCEPT ![e] = IF ~fires THEN Resting
                                       ELSE [@ EXCEPT !.phase = "recalibrating", !.seen = file, !.live = live]]
        /\ drift' = [drift EXCEPT ![e] =
                       IF ~deviates \/ fires THEN 0
                       ELSE (IF tracker[e].id = file.gpu \/ ~reuse THEN @ ELSE 0) + 1]
  /\ drift[e] < Repetitions
  /\ UNCHANGED <<gpu, today, file, reuse, swaps>>

\* The recalibration: the profile that was loaded before the measurement is
\* written back, with the new rates when they agree with the observed ones,
\* and as of today either way.
Recalibrate(e, found, level) ==
  /\ scan[e].phase = "recalibrating"
  /\ found \in Found(e)
  /\ file' \in
       IF found # "both" THEN {file}
       ELSE Saved([scan[e].seen EXCEPT
                     !.rate = IF level = scan[e].live
                              THEN [level |-> level, on |-> gpu, taken |-> today] ELSE @,
                     !.updated = today])
  /\ scan' = [scan EXCEPT ![e] = Resting]
  /\ UNCHANGED <<gpu, today, tracker, reuse, drift, swaps>>

\* The process ends; the file may be between its removal and its rename.
KillScan(e) ==
  /\ scan[e].phase # "idle"
  /\ file' \in IF scan[e].phase = "running" THEN {file} ELSE {file, NoFile}
  /\ scan' = [scan EXCEPT ![e] = Resting]
  /\ tracker' = [tracker EXCEPT ![e] = FreshTracker]
  /\ drift' = [drift EXCEPT ![e] = 0]
  /\ UNCHANGED <<gpu, today, reuse, swaps>>

\* A measurement takes seconds: days pass outside of it.
DayPasses ==
  /\ today < MaxProfileDays
  /\ \A e \in Engines : scan[e].phase \in {"idle", "running"}
  /\ today' = today + 1
  /\ UNCHANGED <<gpu, file, scan, tracker, reuse, drift, swaps>>

\* The GPU is changed, added or removed while nothing runs.
ChangeGpu(g) ==
  /\ swaps < MaxSwaps /\ g # gpu
  /\ \A e \in Engines : scan[e].phase = "idle"
  /\ gpu' = g
  /\ swaps' = swaps + 1
  /\ UNCHANGED <<today, file, scan, tracker, reuse, drift>>

ProfileNext ==
  \/ \E e \in Engines :
       \/ \E gpuOn \in BOOLEAN : BeginProfiledScan(e, gpuOn)
       \/ \E found \in {"failed", "cpu", "both"}, level \in Levels :
            Calibrate(e, found, level) \/ Recalibrate(e, found, level)
       \/ EndUnfed(e)
       \/ \E live \in Levels : EndFed(e, live)
       \/ KillScan(e)
  \/ DayPasses
  \/ \E g \in Machine : ChangeGpu(g)

ProfileSpec == ProfileInit /\ [][ProfileNext]_profileVars

-----------------------------------------------------------------------------
\* Types of the variables.
ProfileTypeOK ==
  /\ gpu \in Machine /\ today \in 0..MaxProfileDays /\ swaps \in 0..MaxSwaps /\ reuse \in BOOLEAN
  /\ file \in File \cup {NoFile}
  /\ scan \in [Engines -> [phase: {"idle", "calibrating", "running", "recalibrating"},
                           had: BOOLEAN, old: Rate \cup {NoRate}, base: Rate \cup {NoRate},
                           gpuOn: BOOLEAN, seen: File \cup {NoFile}, live: Levels \cup {0},
                           began: 0..MaxProfileDays]]
  /\ tracker \in [Engines -> [count: 0..(Repetitions - 1), id: Machine]]
  /\ drift \in [Engines -> 0..Repetitions]

\* The rates a scan takes as its baseline were measured on the GPU the machine
\* has, on a day no further back than the age the profile is trusted to, in the
\* program, whose engines run one scan each: whatever the other process wrote
\* meanwhile, and whatever failed (scan, initialEstimate).
EstimateSound ==
  ~reuse =>
    \A e \in Engines :
      scan[e].base # NoRate =>
        /\ scan[e].base.on = gpu
        /\ scan[e].began <= scan[e].base.taken + MaxAge

\* What an engine that runs many scans would give: no run of deviating scans
\* as long as the policy's goes without a recalibration.
TrackerFires == reuse => \A e \in Engines : drift[e] < Repetitions

\* What a scan takes from the profile is sound, and it is corrected in time.
ProfileTrue == EstimateSound /\ TrackerFires

\* Refuted.  The same of the program: the tracker is a member of the engine,
\* every scan makes an engine of its own, and so it never counts past one.
DriftSeen == \A e \in Engines : drift[e] < Repetitions
=============================================================================
