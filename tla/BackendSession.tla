----------------------------- MODULE BackendSession -----------------------------
(***************************************************************************)
(* The backend process: BackendServer, which reads commands from its        *)
(* standard input, and BackendSession, which owns the scan worker, the      *)
(* threads that load an index or adopt the result of a Test Mode scan, and  *)
(* reports what they emit.                                                  *)
(*                                                                         *)
(* Handlers run on the process's event loop, one after another, in the      *)
(* order of its event queue (inbox).  A reader thread posts each line of    *)
(* standard input (pipe) there, and the other threads post their signals,   *)
(* so a command may be overtaken by the end of the scan it is meant for.    *)
(* A handler that waits for a thread blocks the loop: it is an action that  *)
(* is enabled when the thread is over.                                      *)
(*                                                                         *)
(* Jobs (scans and loads alike) are numbered as they are asked for.  The    *)
(* matches of a scan are pairs <<its number, a member of Matches>>.         *)
(* Load and Re-verify run alike but for what they write.                    *)
(***************************************************************************)
EXTENDS Naturals, Sequences, SequencesExt, FiniteSets

CONSTANTS MaxJobs,         \* scans and loads, a resumed scan included
          Matches          \* what each scan may find

ASSUME SessionAssumption == MaxJobs \in Nat \ {0}

VARIABLES
    process,         \* up; dead: it has exited and its parent does not know yet; gone
    pipe,            \* its standard input: commands not read yet
    inbox,           \* the event queue of its main thread
    out,             \* its standard output: events not read yet
    worker,          \* worker_ and its thread
    scanActive,      \* scanning_
    loads,           \* what each load's thread is doing
    loadThread,      \* loadThread_, 0 for a null pointer
    applyThread,     \* what the thread in applyThread_ is doing
    testPending      \* testModePending_

queues  == <<pipe, inbox, out>>
threads == <<worker, loads, applyThread>>
session == <<scanActive, loadThread, testPending>>
backend == <<process, queues, threads, session>>

Jobs == 1..MaxJobs

Commands  == {"START_SCAN", "LOAD_INDEX", "APPLY_TEST_RESULT", "PAUSE", "RESUME", "CANCEL"}
Signals   == {"matchesArrived", "results", "finished", "cancelled", "failed", "loadResults",
              "loadFailed", "loadOver", "deleteThread", "applyOver"}
Events    == {"MATCHES_BATCH", "RESULTS_PAGE", "FINISHED", "FAILED", "TEST_DIFF"}

\* The threads of the worker: done once run() has returned.
WorkerPhases == {"none", "scanning", "reported", "over"}
LoadPhases   == {"none", "reading", "answered", "over"}

Command(type, job, test) == [type |-> type, job |-> job, test |-> test]
Signal(type, job)        == [type |-> type, job |-> job, test |-> FALSE]
Event(type, job)         == [type |-> type, job |-> job, matches |-> {}]
Batch(matches, job)      == [type |-> "MATCHES_BATCH", job |-> job, matches |-> matches]

NoWorker == [job |-> 0, phase |-> "none", test |-> FALSE, paused |-> FALSE,
             cancelled |-> FALSE, found |-> {}, pending |-> {}]

\* Mutant of NewWorker: the flags of the scan before it are kept.
NewWorkerKeepsFlags(job, test) ==
    [NoWorker EXCEPT !.job = job, !.phase = "scanning", !.test = test, !.paused = worker.paused]

NewWorker(job, test) == [NoWorker EXCEPT !.job = job, !.phase = "scanning", !.test = test]

FreshSession ==
    /\ pipe = <<>> /\ inbox = <<>> /\ out = <<>>
    /\ worker = NoWorker /\ scanActive = FALSE
    /\ loads = [j \in Jobs |-> "none"] /\ loadThread = 0
    /\ applyThread = "none" /\ testPending = FALSE

\* The process exits, and its state is gone; what it has written can be read.
Exit ==
    /\ process' = "dead"
    /\ pipe' = <<>> /\ inbox' = <<>>
    /\ worker' = NoWorker /\ scanActive' = FALSE
    /\ loads' = [j \in Jobs |-> "none"] /\ loadThread' = 0
    /\ applyThread' = "none" /\ testPending' = FALSE

-----------------------------------------------------------------------------
(* The threads of a scan, of a load and of an adoption.                      *)

Post(signals) == inbox' = inbox \o signals

\* The notice that matches wait, as run() posts it before it reports.
Stragglers == IF worker.pending = {} THEN <<>> ELSE <<Signal("matchesArrived", worker.job)>>

Step(phase) == worker' = [worker EXCEPT !.phase = phase]

\* onMatch: the notice is posted at most every 200 ms.
FindMatch ==
    /\ process = "up" /\ worker.phase = "scanning"
    /\ \E m \in Matches :
          /\ <<worker.job, m>> \notin worker.found
          /\ worker' = [worker EXCEPT !.found = @ \cup {<<worker.job, m>>},
                                      !.pending = @ \cup {<<worker.job, m>>}]
    /\ \E told \in BOOLEAN :
          Post(IF told THEN <<Signal("matchesArrived", worker.job)>> ELSE <<>>)
    /\ UNCHANGED <<process, pipe, out, loads, applyThread, session>>

\* A complete scan: results(), then finished().
WorkerReports ==
    /\ process = "up" /\ worker.phase = "scanning" /\ ~worker.cancelled
    /\ Step("reported")
    /\ Post(Stragglers \o <<Signal("results", worker.job)>>)
    /\ UNCHANGED <<process, pipe, out, loads, applyThread, session>>

WorkerFinishes ==
    /\ process = "up" /\ worker.phase = "reported"
    /\ Step("over")
    /\ Post(<<Signal("finished", worker.job)>>)
    /\ UNCHANGED <<process, pipe, out, loads, applyThread, session>>

\* A stopped one reports no results.
WorkerStops ==
    /\ process = "up" /\ worker.phase = "scanning" /\ worker.cancelled
    /\ Step("over")
    /\ Post(Stragglers \o <<Signal("cancelled", worker.job)>>)
    /\ UNCHANGED <<process, pipe, out, loads, applyThread, session>>

\* A failing save, a failure the engine reports, an exception: before or after
\* the notice about matches that wait.
WorkerFails ==
    /\ process = "up" /\ worker.phase \in {"scanning", "reported"}
    /\ Step("over")
    /\ \E first \in {<<>>, Stragglers} : Post(first \o <<Signal("failed", worker.job)>>)
    /\ UNCHANGED <<process, pipe, out, loads, applyThread, session>>

\* runLoadIndex and runReverifyIndex end in results() or in failed().
LoadAnswers(j) ==
    /\ process = "up" /\ loads[j] = "reading"
    /\ loads' = [loads EXCEPT ![j] = "answered"]
    /\ \E answer \in {"loadResults", "loadFailed"} : Post(<<Signal(answer, j)>>)
    /\ UNCHANGED <<process, pipe, out, worker, applyThread, session>>

\* QThread::finished of the load's thread.
LoadEnds(j) ==
    /\ process = "up" /\ loads[j] = "answered"
    /\ loads' = [loads EXCEPT ![j] = "over"]
    /\ Post(<<Signal("loadOver", j)>>)
    /\ UNCHANGED <<process, pipe, out, worker, applyThread, session>>

\* runApplyTestResult adopts the result or fails, and its thread ends.
ApplyEnds ==
    /\ process = "up" /\ applyThread = "adopting"
    /\ applyThread' = "over"
    /\ testPending' \in {testPending, FALSE}
    /\ Post(<<Signal("applyOver", 0)>>)
    /\ UNCHANGED <<process, pipe, out, worker, loads, scanActive, loadThread>>

ReadLine ==
    /\ process = "up" /\ pipe # <<>>
    /\ pipe' = Tail(pipe)
    /\ Post(<<Head(pipe)>>)
    /\ UNCHANGED <<process, out, threads, session>>

-----------------------------------------------------------------------------
(* The handlers.                                                             *)

\* The head of the queue is of this type, and is taken off.
Takes(type) ==
    /\ process = "up"
    /\ inbox # <<>> /\ Head(inbox).type = type
    /\ inbox' = Tail(inbox)
    /\ UNCHANGED <<process, pipe>>

\* What teardownWorker and stopLoad wait for.
LoadIsOver   == loadThread # 0 => loads[loadThread] = "over"
WorkerIsOver == worker.phase \in {"none", "over"}

\* Mutant of Drained: what is pending is not sent.
DrainedNone(events) == out' = out \o events

\* drainToGui(), then what the handler emits.
Drained(events) ==
    out' = out \o (IF worker.pending = {} THEN <<>>
                   ELSE <<Batch(worker.pending, worker.job)>>) \o events

Drain == worker' = [worker EXCEPT !.pending = {}]

\* startScan()
HandleStartScan ==
    /\ Takes("START_SCAN") /\ WorkerIsOver /\ LoadIsOver
    /\ worker' = NewWorker(Head(inbox).job, Head(inbox).test)
    /\ scanActive' = TRUE
    /\ loadThread' = 0
    /\ testPending' = FALSE
    /\ UNCHANGED <<out, loads, applyThread>>

\* loadIndex(), reverifyIndex()
HandleLoad ==
    /\ Takes("LOAD_INDEX") /\ LoadIsOver
    /\ loadThread' = Head(inbox).job
    /\ loads' = [loads EXCEPT ![Head(inbox).job] = "reading"]
    /\ UNCHANGED <<out, worker, scanActive, testPending, applyThread>>

\* Mutant of MayApply: a load does not matter.
MayApplyBesideLoad == testPending /\ ~scanActive /\ applyThread = "none"

\* The monitor is taken to be off.
MayApply == testPending /\ ~scanActive /\ loadThread = 0 /\ applyThread = "none"

\* applyTestResult()
HandleApply ==
    /\ Takes("APPLY_TEST_RESULT")
    /\ \/ ~MayApply /\ UNCHANGED <<out, threads, session>>
       \/ /\ MayApply /\ WorkerIsOver
          /\ worker' = NoWorker
          /\ applyThread' = "adopting"
          /\ UNCHANGED <<out, loads, session>>

\* pause(), resume() and cancel() set the flags of the worker there is.
Flag(paused, cancelled) ==
    worker' = [worker EXCEPT !.paused = paused, !.cancelled = cancelled]

HandlePause ==
    /\ Takes("PAUSE")
    /\ IF worker.job = 0
       THEN UNCHANGED <<out, worker>>
       ELSE /\ worker' = [worker EXCEPT !.paused = TRUE, !.pending = {}]
            /\ Drained(<<>>)
    /\ UNCHANGED <<loads, applyThread, session>>

HandleResume ==
    /\ Takes("RESUME")
    /\ IF worker.job = 0 THEN UNCHANGED worker ELSE Flag(FALSE, worker.cancelled)
    /\ UNCHANGED <<out, loads, applyThread, session>>

HandleCancel ==
    /\ Takes("CANCEL")
    /\ IF worker.job = 0 THEN UNCHANGED worker ELSE Flag(FALSE, TRUE)
    /\ UNCHANGED <<out, loads, applyThread, session>>

HandleMatches ==
    /\ Takes("matchesArrived")
    /\ Drain /\ Drained(<<>>)
    /\ UNCHANGED <<loads, applyThread, session>>

HandleResults ==
    /\ Takes("results")
    /\ Drain /\ Drained(<<Event("RESULTS_PAGE", Head(inbox).job)>>)
    /\ UNCHANGED <<loads, applyThread, session>>

\* onFinished(): a completed Test Mode scan is compared with the main index,
\* when both can be read, and is kept for adoption when they differ.
HandleFinished ==
    /\ Takes("finished")
    /\ scanActive' = FALSE
    /\ Drain
    /\ \E differs \in IF worker.test THEN BOOLEAN ELSE {FALSE} :
          /\ testPending' = (IF differs THEN TRUE ELSE testPending)
          /\ Drained(<<Event("FINISHED", Head(inbox).job)>>
                     \o IF differs THEN <<Event("TEST_DIFF", Head(inbox).job)>> ELSE <<>>)
    /\ UNCHANGED <<loads, applyThread, loadThread>>

HandleCancelled ==
    /\ Takes("cancelled")
    /\ scanActive' = FALSE
    /\ Drain /\ Drained(<<Event("FINISHED", Head(inbox).job)>>)
    /\ UNCHANGED <<loads, applyThread, loadThread, testPending>>

\* Mutant of HandleFailed: nothing is said.
HandleFailedQuietly ==
    /\ Takes("failed")
    /\ scanActive' = FALSE
    /\ Drain /\ Drained(<<>>)
    /\ UNCHANGED <<loads, applyThread, loadThread, testPending>>

HandleFailed ==
    /\ Takes("failed")
    /\ scanActive' = FALSE
    /\ Drain /\ Drained(<<Event("FAILED", Head(inbox).job)>>)
    /\ UNCHANGED <<loads, applyThread, loadThread, testPending>>

\* The answer of a load passes through.
HandleLoadAnswer ==
    /\ \/ /\ Takes("loadResults")
          /\ out' = Append(out, Event("RESULTS_PAGE", Head(inbox).job))
       \/ /\ Takes("loadFailed")
          /\ out' = Append(out, Event("FAILED", Head(inbox).job))
    /\ UNCHANGED <<threads, session>>

\* Mutant of Deletion: a null pointer is not looked for.
DeletionUnguarded(j) ==
    IF loadThread = j THEN <<>> ELSE <<Signal("deleteThread", loadThread)>>

\* The slot of QThread::finished deletes the thread loadThread_ points to, if
\* to any, which need not be the one that has finished.
Deletion(j) == IF loadThread \in {0, j} THEN <<>> ELSE <<Signal("deleteThread", loadThread)>>

HandleLoadOver ==
    /\ process = "up"
    /\ inbox # <<>> /\ Head(inbox).type = "loadOver"
    /\ inbox' = Tail(inbox) \o Deletion(Head(inbox).job)
    /\ loadThread' = 0
    /\ UNCHANGED <<process, pipe, out, threads, scanActive, testPending>>

\* Deleting a QThread that runs is fatal.
HandleDelete ==
    /\ process = "up"
    /\ inbox # <<>> /\ Head(inbox).type = "deleteThread"
    /\ \/ /\ loads[Head(inbox).job] = "over"
          /\ inbox' = Tail(inbox)
          /\ UNCHANGED <<process, pipe, threads, session>>
       \/ /\ loads[Head(inbox).job] # "over"
          /\ Exit
    /\ UNCHANGED out

HandleApplyOver ==
    /\ Takes("applyOver")
    /\ applyThread' = "none"
    /\ UNCHANGED <<out, worker, loads, session>>

Handle ==
    \/ HandleStartScan \/ HandleLoad \/ HandleApply
    \/ HandlePause \/ HandleResume \/ HandleCancel
    \/ HandleMatches \/ HandleResults \/ HandleFinished \/ HandleCancelled \/ HandleFailed
    \/ HandleLoadAnswer \/ HandleLoadOver \/ HandleDelete \/ HandleApplyOver

LoadRuns == \E j \in Jobs : LoadAnswers(j) \/ LoadEnds(j)

Work ==
    \/ FindMatch \/ WorkerReports \/ WorkerFinishes \/ WorkerStops \/ WorkerFails
    \/ LoadRuns \/ ApplyEnds \/ ReadLine \/ Handle

================================================================================
