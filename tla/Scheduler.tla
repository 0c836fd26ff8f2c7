------------------------------ MODULE Scheduler ------------------------------
(***************************************************************************)
(* Whether a scan uses the GPU (src/scheduler.cpp, and its calls in        *)
(* src/media_search_engine.cpp): decided when the scan starts and again    *)
(* before each batch, from an average of the last samples of the GPU's     *)
(* load, with a band in which the published decision is kept and a time    *)
(* for which it is held.                                                   *)
(*                                                                         *)
(* The availability of the GPU is a level.  The shares of CPU and GPU are  *)
(* left out: that one of them moved, for a load or a rate of either, is a  *)
(* choice of the step that evaluates them.                                 *)
(***************************************************************************)
EXTENDS Naturals, Sequences, SequencesExt

CONSTANTS
  Modes,         \* ResourceMode
  HoldTime,      \* holdMs of a mode, in ticks
  KillAt,        \* killAt of a mode: the GPU is given up at this level or below
  RelieveAbove,  \* relieveAbove of a mode: it is taken back above this level
  Window,        \* samples averaged (Sma::n_)
  EvalEvery,     \* reevalIntervalMs_, in ticks
  MaxLevel       \* the level of a GPU nobody else uses

ASSUME SchedulerAssumption ==
  /\ Window \in Nat \ {0} /\ EvalEvery \in Nat \ {0} /\ MaxLevel \in Nat
  /\ HoldTime \in [Modes -> Nat] /\ KillAt \in [Modes -> Nat] /\ RelieveAbove \in [Modes -> Nat]
  /\ \A m \in Modes : KillAt[m] <= RelieveAbove[m]
  /\ \E m \in Modes : \A n \in Modes : HoldTime[n] <= HoldTime[m]

VARIABLES
  avail,          \* the GPU's availability as the sampler finds it, or Unknown
  run,            \* the scan: off, or its mode and whether there is a GPU to use
  samples,        \* smaGpuLoad_
  used,           \* last_.gpuUsed: what the phases of the scan act on
  lastThrottled,  \* lastThrottled_
  sincePublish,   \* ticks since lastPublishTickMs_, or Exempt
  sinceEval,      \* ticks since lastEvalTickMs_
  sinceSwitch     \* history: ticks since used last changed within the scan, or Exempt

schedulerVars == <<avail, run, samples, used, lastThrottled, sincePublish, sinceEval, sinceSwitch>>

Levels == 0..MaxLevel
Unknown == MaxLevel + 1
LongestHold == CHOOSE h \in {HoldTime[m] : m \in Modes} : \A m \in Modes : HoldTime[m] <= h
\* A clock stops here: no hold is longer.
Exempt == LongestHold
NoScan == [on |-> FALSE, mode |-> CHOOSE m \in Modes : TRUE, gpu |-> FALSE]

-----------------------------------------------------------------------------
\* The samples after one more: an unknown load clears them (Sma, smoothHw).
Smoothed ==
  IF avail = Unknown THEN <<>>
  ELSE LET q == Append(samples, avail)
       IN IF Len(q) > Window THEN Tail(q) ELSE q

Total(q) == FoldLeft(LAMBDA a, b : a + b, 0, q)
Kills(m, q) == q # <<>> /\ Total(q) <= KillAt[m] * Len(q)
Relieves(m, q) == q # <<>> /\ Total(q) > RelieveAbove[m] * Len(q)

\* evaluate and effectivePair: throttled for the load.
Throttled(q, keepThrottled) ==
  run.gpu /\ (Kills(run.mode, q) \/ (keepThrottled /\ ~Relieves(run.mode, q)))

SchedulerInit ==
  /\ avail \in Levels \cup {Unknown}
  /\ run = NoScan
  /\ samples = <<>> /\ used = FALSE /\ lastThrottled = FALSE
  /\ sincePublish = Exempt /\ sinceEval = EvalEvery /\ sinceSwitch = Exempt

\* The scan starts: reset and decide.  The band is judged as if no load had
\* been seen, and the next change need not wait.
Decide(mode, gpu) ==
  /\ ~run.on
  /\ run' = [on |-> TRUE, mode |-> mode, gpu |-> gpu]
  /\ samples' = IF avail = Unknown THEN <<>> ELSE <<avail>>
  /\ lastThrottled' = (gpu /\ Kills(mode, samples'))
  /\ used' = (gpu /\ ~lastThrottled')
  /\ sincePublish' = Exempt /\ sinceEval' = EvalEvery /\ sinceSwitch' = Exempt
  /\ UNCHANGED avail

\* A mutant: the throttle is noted when it is found, not when it is published.
ReevaluateNoting(moved) ==
  /\ run.on /\ sinceEval >= EvalEvery
  /\ sinceEval' = 0
  /\ samples' = Smoothed
  /\ LET throttled == Throttled(samples', lastThrottled)
         next == run.gpu /\ ~throttled
         publish == next # used \/ (used /\ moved)
     IN /\ lastThrottled' = throttled
        /\ IF publish /\ sincePublish >= HoldTime[run.mode]
           THEN used' = next /\ sincePublish' = 0
           ELSE UNCHANGED <<used, sincePublish>>
  /\ sinceSwitch' = IF used' # used THEN 0 ELSE sinceSwitch
  /\ UNCHANGED <<avail, run>>

\* A mutant: the hold starts again with each evaluation.
ReevaluateHolding(moved) ==
  /\ run.on /\ sinceEval >= EvalEvery
  /\ sinceEval' = 0
  /\ samples' = Smoothed
  /\ LET throttled == Throttled(samples', lastThrottled)
         next == run.gpu /\ ~throttled
         publish == next # used \/ (used /\ moved)
     IN IF publish /\ sincePublish >= HoldTime[run.mode]
        THEN used' = next /\ lastThrottled' = throttled /\ sincePublish' = 0
        ELSE sincePublish' = 0 /\ UNCHANGED <<used, lastThrottled>>
  /\ sinceSwitch' = IF used' # used THEN 0 ELSE sinceSwitch
  /\ UNCHANGED <<avail, run>>

\* Before a batch, once the interval is over: maybeReevaluate.  A decision
\* that differs (used, or a share that moved) is published when the last one
\* has been held; the throttle that the band keeps is the published one.
Reevaluate(moved) ==
  /\ run.on /\ sinceEval >= EvalEvery
  /\ sinceEval' = 0
  /\ samples' = Smoothed
  /\ LET throttled == Throttled(samples', lastThrottled)
         next == run.gpu /\ ~throttled
         publish == next # used \/ (used /\ moved)
     IN IF publish /\ sincePublish >= HoldTime[run.mode]
        THEN used' = next /\ lastThrottled' = throttled /\ sincePublish' = 0
        ELSE UNCHANGED <<used, lastThrottled, sincePublish>>
  /\ sinceSwitch' = IF used' # used THEN 0 ELSE sinceSwitch
  /\ UNCHANGED <<avail, run>>

\* Time passes; a clock stops where nothing depends on it any more.
SchedulerTick ==
  /\ run.on
  /\ <<sincePublish, sinceEval, sinceSwitch>> # <<Exempt, EvalEvery, Exempt>>
  /\ sincePublish' = IF sincePublish = Exempt THEN Exempt ELSE sincePublish + 1
  /\ sinceEval' = IF sinceEval = EvalEvery THEN EvalEvery ELSE sinceEval + 1
  /\ sinceSwitch' = IF sinceSwitch = Exempt THEN Exempt ELSE sinceSwitch + 1
  /\ UNCHANGED <<avail, run, samples, used, lastThrottled>>

\* The load changes, or the sampler loses or finds the device.
LoadChanges(a) ==
  /\ a # avail
  /\ avail' = a
  /\ UNCHANGED <<run, samples, used, lastThrottled, sincePublish, sinceEval, sinceSwitch>>

EndScan ==
  /\ run.on
  /\ run' = NoScan
  /\ samples' = <<>> /\ used' = FALSE /\ lastThrottled' = FALSE
  /\ sincePublish' = Exempt /\ sinceEval' = EvalEvery /\ sinceSwitch' = Exempt
  /\ UNCHANGED avail

SchedulerNext ==
  \/ \E mode \in Modes, gpu \in BOOLEAN : Decide(mode, gpu)
  \/ \E moved \in BOOLEAN : Reevaluate(moved)
  \/ SchedulerTick
  \/ \E a \in Levels \cup {Unknown} : LoadChanges(a)
  \/ EndScan

\* Time passes, and a scan that goes on comes to its next batch.
SchedulerFairness == WF_schedulerVars(SchedulerTick) /\ WF_schedulerVars(\E moved \in BOOLEAN : Reevaluate(moved))

SchedulerSpec == SchedulerInit /\ [][SchedulerNext]_schedulerVars /\ SchedulerFairness

-----------------------------------------------------------------------------
\* Types of the variables.
SchedulerTypeOK ==
  /\ avail \in Levels \cup {Unknown}
  /\ run \in [on: BOOLEAN, mode: Modes, gpu: BOOLEAN]
  /\ samples \in Seq(Levels) /\ Len(samples) <= Window
  /\ used \in BOOLEAN /\ lastThrottled \in BOOLEAN
  /\ sincePublish \in 0..Exempt /\ sinceEval \in 0..EvalEvery /\ sinceSwitch \in 0..Exempt

\* Within a scan the GPU is given up only for an average at the mode's lower
\* edge and taken back only for one above its upper edge, never in between;
\* and two switches are at least the mode's hold apart
\* (maybeReevaluate, effectivePair: hysteresis and hold).
SwitchesHoldStill ==
  [][run.on /\ run'.on /\ used' # used =>
       /\ IF used THEN Kills(run.mode, samples') ELSE Relieves(run.mode, samples')
       /\ sinceSwitch >= HoldTime[run.mode]]_schedulerVars

\* A scan that goes on gives the GPU up when the load stays at the lower edge,
\* and takes it back when the load stays known and above the upper edge, however
\* the shares move meanwhile.
FollowsLoad ==
  \A m \in Modes :
    /\ <>[](run.on /\ run.mode = m /\ avail <= KillAt[m]) => <>[]~used
    /\ <>[](run.on /\ run.mode = m /\ run.gpu /\ RelieveAbove[m] < avail /\ avail # Unknown) => <>[]used

\* Refuted.  The same when the load becomes unknown: the sampler that lost the
\* device leaves the band's verdict in force for the rest of the scan.
UnknownReleases ==
  \A m \in Modes : <>[](run.on /\ run.mode = m /\ run.gpu /\ avail = Unknown) => <>[]used
=============================================================================
