------------------------------ MODULE StallWatchdog ------------------------------
(***************************************************************************)
(* The stall detector of a scan and the places the consumer asks it.         *)
(*                                                                         *)
(* It has no thread of its own: the consumer's loop asks while it waits for  *)
(* files, the harvest of a video range between two looks at its futures, the *)
(* final pass between two pairs.  Nobody asks while an image batch runs.     *)
(* Time is counted in thresholds (ten minutes).                             *)
(***************************************************************************)
EXTENDS Naturals

CONSTANTS RangeFiles,   \* videos of a range
          BatchFiles,   \* images of a batch
          MaxUnits      \* bound: units of work

ASSUME WatchdogAssumption == {RangeFiles, BatchFiles, MaxUnits} \subseteq Nat \ {0}

VARIABLES
    stage,      \* what the consumer does: "loop", "batch", "range", "analyze", "done"
    unitLeft,   \* what remains of the unit
    unitKind,   \* unit_.kind
    silence,    \* time since lastActivityMs_
    fireAge,    \* time since lastFireMs_
    episode,    \* episodeFired_
    unitMoved,  \* completions_ # completionsAtUnitStart_
    walkAlive, queued, held,   \* walker running; files in the queue; scan paused
    stallVerdict,   \* the last answer
    unitsLeft   \* what remains of the bound

clockVars == <<silence, fireAge, episode, unitMoved>>
workVars  == <<stage, unitLeft, unitKind, unitsLeft>>
sideVars  == <<walkAlive, queued, held>>
wdVars    == <<clockVars, workVars, sideVars, stallVerdict>>

WdInit ==
    /\ stage = "loop" /\ unitLeft = 0 /\ unitKind = "walk" /\ unitsLeft = MaxUnits
    /\ silence = 0 /\ fireAge = 0 /\ episode = FALSE /\ unitMoved = FALSE
    /\ walkAlive = TRUE /\ queued = FALSE /\ held = FALSE
    /\ stallVerdict = "none"

-----------------------------------------------------------------------------
(* The detector.                                                             *)

NoteActivity == silence' = 0 /\ episode' = FALSE /\ unitMoved' = TRUE /\ UNCHANGED fireAge

BeginUnit(kind) ==
    /\ unitKind' = kind /\ unitMoved' = FALSE /\ episode' = FALSE
    /\ UNCHANGED <<silence, fireAge>>

\* check: the first answer in a silence is a diagnosis; the next one cancels,
\* without another wait, when the unit is a batch of images nothing of which
\* has completed; else diagnoses follow at the threshold.
Judge ==
    IF silence = 0 THEN "none"
    ELSE IF ~episode THEN "diagnose"
    ELSE IF unitKind = "images" /\ ~unitMoved THEN "cancel"
    ELSE IF fireAge > 0 THEN "diagnose" ELSE "none"

\* A mutant: the poll itself counts as activity.
PollAsActivity ==
    /\ NoteActivity
    /\ stallVerdict' = "none"

\* checkWatchdog: a pause, and a walker with nothing to give, are not silence.
CheckWatchdog ==
    IF held \/ (~queued /\ walkAlive)
    THEN NoteActivity /\ stallVerdict' = "none"
    ELSE /\ stallVerdict' = Judge
         /\ IF stallVerdict' = "none" THEN UNCHANGED clockVars
            ELSE episode' = TRUE /\ fireAge' = 0 /\ UNCHANGED <<silence, unitMoved>>

-----------------------------------------------------------------------------
(* Who asks, and what moves.                                                 *)

\* A threshold passes.
StallTick ==
    /\ stage # "done"
    /\ silence < 2 \/ fireAge < 2
    /\ silence' = IF silence < 2 THEN silence + 1 ELSE 2
    /\ fireAge' = IF fireAge < 2 THEN fireAge + 1 ELSE 2
    /\ UNCHANGED <<episode, unitMoved, workVars, sideVars, stallVerdict>>

Side ==
    /\ stage # "done"
    /\ \/ held' = ~held /\ UNCHANGED <<walkAlive, queued>>
       \/ walkAlive /\ walkAlive' = FALSE /\ UNCHANGED <<held, queued>>
       \/ (queued \/ walkAlive) /\ queued' = ~queued /\ UNCHANGED <<held, walkAlive>>
    /\ UNCHANGED <<clockVars, workVars, stallVerdict>>

\* The consumer's loop, every 50 ms, and the harvest of a range.
Poll ==
    /\ stage \in {"loop", "range"} /\ stallVerdict # "cancel"
    /\ CheckWatchdog
    /\ UNCHANGED <<workVars, sideVars>>

\* A full batch or range is taken up.
TakeUp ==
    /\ stage = "loop" /\ unitsLeft > 0 /\ stallVerdict # "cancel"
    /\ \/ stage' = "batch" /\ unitLeft' = BatchFiles /\ BeginUnit("images")
       \/ stage' = "range" /\ unitLeft' = RangeFiles /\ BeginUnit("videos")
    /\ unitsLeft' = unitsLeft - 1
    /\ UNCHANGED <<sideVars, stallVerdict>>

\* imageBatch returns, if it does, with everything; then its results are settled.
BatchItem ==
    /\ stage = "batch"
    /\ NoteActivity
    /\ unitLeft' = unitLeft - 1
    /\ stage' = IF unitLeft = 1 THEN "loop" ELSE "batch"
    /\ UNCHANGED <<unitKind, unitsLeft, sideVars, stallVerdict>>

RangeItem ==
    /\ stage = "range" /\ stallVerdict # "cancel"
    /\ NoteActivity
    /\ unitLeft' = unitLeft - 1
    /\ stage' = IF unitLeft = 1 THEN "loop" ELSE "range"
    /\ UNCHANGED <<unitKind, unitsLeft, sideVars, stallVerdict>>

\* The walk is over: the final pass, which asks before each pair it looks at.
BeginAnalyze ==
    /\ stage = "loop" /\ ~walkAlive /\ ~queued
    /\ stage' = "analyze" /\ BeginUnit("analyze")
    /\ UNCHANGED <<unitLeft, unitsLeft, sideVars, stallVerdict>>
AnalyzePoll ==
    /\ stage = "analyze"
    /\ stallVerdict' = IF held THEN "none" ELSE Judge
    /\ silence' = 0 /\ episode' = FALSE /\ unitMoved' = TRUE
    /\ fireAge' = IF stallVerdict' = "none" THEN fireAge ELSE 0
    /\ UNCHANGED <<workVars, sideVars>>
AnalyzeEnds == stage = "analyze" /\ stage' = "done"
               /\ UNCHANGED <<clockVars, unitLeft, unitKind, unitsLeft, sideVars, stallVerdict>>

WdNext == \/ StallTick \/ Side \/ Poll \/ TakeUp \/ BatchItem \/ RangeItem
          \/ BeginAnalyze \/ AnalyzePoll \/ AnalyzeEnds

\* The thread that polls runs, and time passes; work may hang.
WdFairness == WF_wdVars(Poll) /\ WF_wdVars(StallTick)
WdSpec == WdInit /\ [][WdNext]_wdVars /\ WdFairness

-----------------------------------------------------------------------------

\* "Video ranges and the analyze phase only ever diagnose; cancelling them could
\* abort legitimate long work": no scan is ever cancelled from here.
LongWorkKept == stallVerdict # "cancel"

\* A video that hangs is reported: unless the scan is paused, the walker is
\* what the scan waits for, or a file of the range ends.
HungRangeSeen ==
    stage = "range" /\ ~walkAlive /\ ~held ~>
        episode \/ held \/ stage # "range"

\* "Diagnose any 10-minute completion silence": nor is a batch or a pair that
\* hangs, for nobody asks.
AnySilenceSeen == silence > 0 ~> stallVerdict # "none" \/ silence = 0 \/ held \/ stage = "done"

\* The detector sees a video that hangs, and cancels nothing that may be long.
WatchdogTrue == []LongWorkKept /\ HungRangeSeen
=================================================================================
