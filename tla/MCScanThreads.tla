----------------------------- MODULE MCScanThreads -----------------------------
(***************************************************************************)
(* Instances for TLC of the threads that work beside the scan: its walk      *)
(* (ScanWalk), the detector of stalls (StallWatchdog), the choice of the     *)
(* device (Scheduler), and the monitor of a folder (Monitor).                *)
(*                                                                         *)
(* They share no variable, so that one of them at a time is run: part names  *)
(* it, and what belongs to the others keeps its first value.                *)
(***************************************************************************)
EXTENDS ScanWalk, StallWatchdog, Scheduler, Monitor

CONSTANTS f, g   \* files

VARIABLE part
threadVars == <<walkVars, wdVars, schedulerVars, monVars, part>>

\* The hold and the edges of two modes of the scheduler.
Holds    == [calm |-> 2, gaming |-> 3]
Kill     == [calm |-> 0, gaming |-> 1]
Relieved == [calm |-> 1, gaming |-> 2]

\* A part that is not run has one first state.
ThreadsInit ==
    /\ WalkInit /\ WdInit /\ SchedulerInit /\ MonitorInit
    /\ part \in {"walk", "watchdog", "scheduler", "monitor"}
    /\ part # "scheduler" => avail = MaxLevel
    /\ part # "monitor" => content = [p \in MonPaths |-> 0]
    /\ content[g] <= content[f]    \* the two files are interchangeable

ThreadsNext ==
    \/ part = "walk" /\ WalkNext /\ UNCHANGED <<wdVars, schedulerVars, monVars, part>>
    \/ part = "watchdog" /\ WdNext /\ UNCHANGED <<walkVars, schedulerVars, monVars, part>>
    \/ part = "scheduler" /\ SchedulerNext /\ UNCHANGED <<walkVars, wdVars, monVars, part>>
    \/ part = "monitor" /\ MonitorNext /\ UNCHANGED <<walkVars, wdVars, schedulerVars, part>>

\* The fairness of WalkFairSpec, WdFairness, SchedulerFairness and
\* MonitorFairness, each for its part.
ThreadsFairness ==
    /\ WF_walkVars(part = "walk" /\ WalkerRuns) /\ WF_walkVars(part = "walk" /\ Consumer)
    /\ WF_wdVars(part = "watchdog" /\ Poll) /\ WF_wdVars(part = "watchdog" /\ StallTick)
    /\ WF_schedulerVars(part = "scheduler" /\ SchedulerTick)
    /\ WF_schedulerVars(part = "scheduler" /\ \E moved \in BOOLEAN : Reevaluate(moved))
    /\ WF_monVars(part = "monitor" /\ ReadNotice) /\ WF_monVars(part = "monitor" /\ ItemStep)
    /\ \A p \in MonPaths : SF_monVars(part = "monitor" /\ TakeItem(p))

ThreadsSpec == ThreadsInit /\ [][ThreadsNext]_threadVars /\ ThreadsFairness

\* The types of all four.
ThreadsTypeOK == WalkTypeOK /\ SchedulerTypeOK /\ MonitorTypeOK

\* A walk that is run ends, told to or by itself.
ScanWalkEnds == part = "walk" => StopEnds /\ WalkEnds
================================================================================
