------------------------------ MODULE ScanControl ------------------------------
(***************************************************************************)
(* A scan or a load seen from the window: MainWindow and BackendSupervisor   *)
(* in front of the backend process of BackendSession.                       *)
(*                                                                         *)
(* The window and the supervisor share a thread; they send commands down     *)
(* one pipe and take events from another, one at a time.  An event says      *)
(* what happened, not to which scan or load: the window has only its own     *)
(* flags to tell.  job is in the model to say which answer is whose.         *)
(*                                                                         *)
(* The life cycle of the process is BackendSupervisor's; here it exits,      *)
(* hangs until it is terminated, and comes back.                            *)
(***************************************************************************)
EXTENDS BackendSession

CONSTANTS MaxFlags,        \* bound on the pauses, resumes and stops that are on their way
          MaxLosses        \* bound on the losses of the backend

VARIABLES
    available,       \* backendAvailable_, and the supervisor's backendReady_
    scanOwed,        \* the supervisor's scanning_
    scanning,        \* the window's scanning_: the job, or 0
    loading,         \* loading_ or reverify_: the job, or 0
    paused,          \* scanPaused_
    cancelWait,      \* the popup that waits for a stopped scan
    scanCrashed,     \* scanCrashed_
    autoResumeTries, \* autoResumeTries_
    lastTest,        \* lastScanCfg_.testMode
    got,             \* the matches shown, those of the scan at hand
    testDiffBox,     \* the box that asks whether to adopt a result: open or not
    reloadDue,       \* a single-shot timer is to reload the index
    requests,        \* the last job asked for
    lossesLeft,      \* what remains of MaxLosses
    overlapped       \* history: a job was asked for beside a load or an adoption

link    == <<available, scanOwed>>
view    == <<scanning, loading, paused, cancelWait, got>>
resume  == <<scanCrashed, autoResumeTries, lastTest>>
dialogs == <<testDiffBox, reloadDue>>
count   == <<requests, lossesLeft, overlapped>>
vars    == <<backend, link, view, resume, dialogs, count>>

Init ==
    /\ process = "up" /\ FreshSession
    /\ available = TRUE /\ scanOwed = FALSE
    /\ scanning = 0 /\ loading = 0 /\ paused = FALSE /\ cancelWait = FALSE /\ got = {}
    /\ scanCrashed = FALSE /\ autoResumeTries = 0 /\ lastTest = FALSE
    /\ testDiffBox = FALSE /\ reloadDue = FALSE
    /\ requests = 0 /\ overlapped = FALSE /\ lossesLeft = MaxLosses

-----------------------------------------------------------------------------
(* Commands.                                                                 *)

\* What is written to a process that has exited is lost.
Send(command) == pipe' = IF process = "up" THEN Append(pipe, command) ELSE pipe

sent == <<process, inbox, out, threads, session>>

\* Bound: another job may be asked for.
Room == requests < MaxJobs

\* An adoption runs or has been asked for.
Adopting ==
    \/ applyThread = "adopting"
    \/ \E i \in DOMAIN pipe : pipe[i].type = "APPLY_TEST_RESULT"
    \/ \E i \in DOMAIN inbox : inbox[i].type = "APPLY_TEST_RESULT"

\* How many commands for the flags of the worker are on their way.
FlagsSent ==
    LET In(q) == {i \in DOMAIN q : q[i].type \in {"PAUSE", "RESUME", "CANCEL"}}
    IN  Cardinality(In(inbox)) + Cardinality(In(pipe))

\* beginScan(), down to BackendSupervisor::startScan().
Begin(test) ==
    /\ requests' = requests + 1
    /\ scanning' = requests + 1
    /\ scanOwed' = TRUE
    /\ got' = {} /\ paused' = FALSE /\ cancelWait' = FALSE
    /\ lastTest' = test
    /\ overlapped' = (overlapped \/ loading # 0 \/ Adopting)

MayBegin == scanning = 0 /\ available

\* startScan(): the button, a menu, or the end of a file operation.  Also when
\* beginScan() refuses, the crash is forgotten.
StartScan(test) ==
    /\ scanCrashed' = FALSE /\ autoResumeTries' = 0
    /\ \/ /\ MayBegin /\ Room
          /\ Begin(test)
          /\ Send(Command("START_SCAN", requests + 1, test))
       \/ /\ ~MayBegin
          /\ UNCHANGED <<pipe, scanOwed, scanning, paused, cancelWait, got, lastTest, requests,
                         overlapped>>
    /\ UNCHANGED <<sent, available, loading, dialogs, lossesLeft>>

\* loadIndex() and reverifyIndex(): the supervisor fails one at once that it
\* cannot send.
AskLoad ==
    /\ got' = {}
    /\ \/ /\ available /\ Room
          /\ requests' = requests + 1
          /\ loading' = requests + 1
          /\ overlapped' = (overlapped \/ loadThread # 0 \/ Adopting)
          /\ Send(Command("LOAD_INDEX", requests + 1, FALSE))
       \/ /\ ~available
          /\ UNCHANGED <<pipe, loading, requests, overlapped>>
    /\ UNCHANGED <<sent, link, scanning, paused, cancelWait, resume, lossesLeft>>

Idle == scanning = 0 /\ loading = 0

LoadIndex == Idle /\ AskLoad /\ UNCHANGED dialogs

\* The timer that scanFinished() or scanFailed() has set.
Reload ==
    /\ reloadDue /\ reloadDue' = FALSE
    /\ \/ Idle /\ AskLoad
       \/ ~Idle /\ UNCHANGED <<backend, link, view, resume, count>>
    /\ UNCHANGED testDiffBox

TogglePauseScan ==
    /\ scanning # 0 /\ FlagsSent < MaxFlags
    /\ paused' = ~paused
    /\ Send(Command(IF paused THEN "RESUME" ELSE "PAUSE", 0, FALSE))
    /\ UNCHANGED <<sent, link, scanning, loading, cancelWait, got, resume, dialogs, count>>

\* A second press is taken too; one command is enough here.
CancelScan ==
    /\ scanning # 0 /\ ~cancelWait
    /\ cancelWait' = TRUE
    /\ Send(Command("CANCEL", 0, FALSE))
    /\ UNCHANGED <<sent, link, scanning, loading, paused, got, resume, dialogs, count>>

\* The box is answered Yes or No.
AnswerTestDiff ==
    /\ testDiffBox /\ testDiffBox' = FALSE
    /\ \/ Send(Command("APPLY_TEST_RESULT", 0, FALSE))
       \/ UNCHANGED pipe
    /\ UNCHANGED <<sent, link, view, resume, reloadDue, count>>

-----------------------------------------------------------------------------
(* Events.                                                                   *)

\* setRunning(false)
NotRunning == scanning' = 0 /\ paused' = FALSE

\* scanFailed(): a failure while a load is out is taken to be the load's.
LoadFailed == loading' = 0 /\ UNCHANGED <<scanning, paused, scanCrashed, reloadDue>>

ScanFailed(crashed, reload) ==
    /\ loading = 0 /\ UNCHANGED loading
    /\ NotRunning
    /\ scanCrashed' = crashed
    /\ reloadDue' = reload

\* The end of the supervisor's interest in a scan.
Disowned == scanOwed' = FALSE

\* onMatchesBatch()
OnMatches(e) ==
    /\ e.type = "MATCHES_BATCH"
    /\ got' = got \cup e.matches
    /\ UNCHANGED <<link, scanning, loading, paused, cancelWait, resume, dialogs>>

\* onResults()
OnResults(e) ==
    /\ e.type = "RESULTS_PAGE"
    /\ \/ loading # 0 /\ loading' = 0 /\ UNCHANGED cancelWait
       \/ loading = 0 /\ cancelWait' = FALSE /\ UNCHANGED loading
    /\ UNCHANGED <<link, scanning, paused, got, resume, dialogs>>

\* scanFinished(): a changed index is to be loaded again.
OnFinished(e) ==
    /\ e.type = "FINISHED"
    /\ Disowned
    /\ NotRunning
    /\ cancelWait' = FALSE
    /\ \E changed \in BOOLEAN : reloadDue' = (reloadDue \/ changed)
    /\ UNCHANGED <<available, loading, got, resume, testDiffBox>>

OnFailed(e) ==
    /\ e.type = "FAILED"
    /\ Disowned
    /\ \/ loading # 0 /\ LoadFailed
       \/ \E changed \in BOOLEAN : ScanFailed(FALSE, reloadDue \/ changed)
    /\ UNCHANGED <<available, cancelWait, got, autoResumeTries, lastTest, testDiffBox>>

\* onTestModeDiff()
OnTestDiff(e) ==
    /\ e.type = "TEST_DIFF"
    /\ testDiffBox' = TRUE
    /\ UNCHANGED <<link, view, resume, reloadDue>>

Dispatch ==
    /\ process # "gone" /\ out # <<>>
    /\ out' = Tail(out)
    /\ LET e == Head(out)
       IN OnMatches(e) \/ OnResults(e) \/ OnFinished(e) \/ OnFailed(e) \/ OnTestDiff(e)
    /\ UNCHANGED <<process, pipe, inbox, threads, session, count>>

-----------------------------------------------------------------------------
(* The process is lost and comes back.                                       *)

\* A process that is being terminated may exit at any time, any other as often
\* as the bound says.
Die ==
    /\ process = "up" /\ Exit
    /\ \/ ~available /\ UNCHANGED lossesLeft
       \/ available /\ lossesLeft > 0 /\ lossesLeft' = lossesLeft - 1
    /\ UNCHANGED <<out, link, view, resume, dialogs, requests, overlapped>>

\* Mutant of ScanLost: the window is not told.
ScanLostQuietly ==
    Disowned /\ UNCHANGED <<loading, scanning, paused, scanCrashed, reloadDue>>

\* The supervisor fails the scan it knows of.
ScanLost ==
    /\ Disowned
    /\ \/ ~scanOwed /\ UNCHANGED <<loading, scanning, paused, scanCrashed, reloadDue>>
       \/ scanOwed /\ loading # 0 /\ LoadFailed
       \/ scanOwed /\ ScanFailed(TRUE, reloadDue)

kept == <<cancelWait, got, autoResumeTries, lastTest, testDiffBox, requests, overlapped>>

\* enterUnexpectedExit(), whether the backend is to be restarted or not.
\* What the process had written may be lost with it.
NoticeExit ==
    /\ process = "dead" /\ process' = "gone"
    /\ out' = <<>>
    /\ available' = FALSE
    /\ ScanLost
    /\ UNCHANGED <<pipe, inbox, threads, session, kept, lossesLeft>>

\* terminateAndRespawn(): it misses its health or its lines are garbled.  It
\* lives, and is heard, until it has exited.
WatchdogLoss ==
    /\ process = "up" /\ available /\ lossesLeft > 0
    /\ lossesLeft' = lossesLeft - 1
    /\ available' = FALSE
    /\ ScanLost
    /\ UNCHANGED <<backend, kept>>

\* A new backend is READY: onBackendConnection() resumes a scan that was lost, once.
Return ==
    /\ process = "gone" /\ process' = "up"
    /\ available' = TRUE
    /\ IF scanCrashed /\ autoResumeTries < 1
       THEN /\ autoResumeTries' = autoResumeTries + 1
            /\ scanCrashed' = FALSE
            /\ Room
            /\ Begin(lastTest)
            /\ pipe' = <<Command("START_SCAN", requests + 1, lastTest)>>
       ELSE UNCHANGED <<pipe, scanOwed, scanning, paused, cancelWait, got, resume, requests,
                        overlapped>>
    /\ UNCHANGED <<inbox, out, threads, session, loading, dialogs, lossesLeft>>

-----------------------------------------------------------------------------
gui == <<link, view, resume, dialogs, count>>

User ==
    \/ \E test \in BOOLEAN : StartScan(test)
    \/ LoadIndex \/ TogglePauseScan \/ CancelScan \/ AnswerTestDiff

Fate == Die \/ WatchdogLoss \/ Return

Next ==
    \/ User \/ Reload \/ Dispatch \/ NoticeExit \/ Fate
    \/ Work /\ UNCHANGED gui

\* Threads and event loops run; a paused worker need not go on, a scan that is
\* not stopped comes to its end.  What the user does, what fails and whether a
\* lost backend comes back is not promised.
Fairness ==
    /\ WF_vars(Dispatch) /\ WF_vars(NoticeExit)
    /\ WF_vars(ReadLine /\ UNCHANGED gui)
    /\ WF_vars(Handle /\ UNCHANGED gui)
    /\ WF_vars(LoadRuns /\ UNCHANGED gui)
    /\ WF_vars(ApplyEnds /\ UNCHANGED gui)
    /\ WF_vars(~worker.paused /\ WorkerReports /\ UNCHANGED gui)
    /\ WF_vars(WorkerFinishes /\ UNCHANGED gui)
    /\ WF_vars(WorkerStops /\ UNCHANGED gui)

Spec == Init /\ [][Next]_vars /\ Fairness

-----------------------------------------------------------------------------
(* Properties.                                                               *)

Ends  == {"FINISHED", "FAILED"}

\* Every variable has its type.
TypeOK ==
    /\ process \in {"up", "dead", "gone"}
    /\ \A i \in DOMAIN pipe : pipe[i].type \in Commands /\ pipe[i].job \in 0..MaxJobs
    /\ \A i \in DOMAIN inbox :
          \/ inbox[i].type \in Commands \cup {"applyOver"} /\ inbox[i].job \in 0..MaxJobs
          \/ inbox[i].type \in Signals /\ inbox[i].job \in Jobs
    /\ \A i \in DOMAIN out :
          /\ out[i].type \in Events /\ out[i].job \in Jobs
          /\ out[i].matches \subseteq Jobs \X Matches
    /\ worker \in [job : 0..MaxJobs, phase : WorkerPhases, test : BOOLEAN, paused : BOOLEAN,
                   cancelled : BOOLEAN, found : SUBSET (Jobs \X Matches),
                   pending : SUBSET (Jobs \X Matches)]
    /\ loads \in [Jobs -> LoadPhases] /\ loadThread \in 0..MaxJobs
    /\ applyThread \in {"none", "adopting", "over"}
    /\ scanActive \in BOOLEAN /\ testPending \in BOOLEAN /\ available \in BOOLEAN
    /\ scanOwed \in BOOLEAN /\ paused \in BOOLEAN /\ cancelWait \in BOOLEAN
    /\ scanCrashed \in BOOLEAN /\ lastTest \in BOOLEAN /\ testDiffBox \in BOOLEAN
    /\ reloadDue \in BOOLEAN /\ overlapped \in BOOLEAN
    /\ scanning \in 0..MaxJobs /\ loading \in 0..MaxJobs /\ requests \in 0..MaxJobs
    /\ autoResumeTries \in 0..1
    /\ got \subseteq Jobs \X Matches

Told(events) == UNION {events[i].matches : i \in DOMAIN events}

\* A match that a scan finds reaches the window: it waits in the worker, is on its way or is
\* shown, and the word that the scan has ended does not come before it.
NothingLost ==
    (scanning # 0 /\ worker.job = scanning) =>
       /\ process = "up" => worker.found \subseteq worker.pending \cup Told(out) \cup got
       /\ \A i \in DOMAIN out :
             (out[i].type \in Ends /\ out[i].job = scanning)
                => worker.found \subseteq Told(SubSeq(out, 1, i)) \cup got

\* Events carry no job: what the window takes for the end or the answer of the job it waits
\* for is that job's, unless the two kinds of jobs were made to overlap.
AnswersMatch ==
    (available /\ process # "gone" /\ ~overlapped) =>
       \A i \in DOMAIN out :
          /\ out[i].type = "FINISHED" => out[i].job = scanning
          /\ out[i].type \in {"RESULTS_PAGE", "FAILED"}
                => out[i].job = IF loading # 0 THEN loading ELSE scanning

\* The window runs a scan exactly if the supervisor owes it an end: so the loss of a backend
\* is always reported to it, and never when it has no scan.
ScanAgreed == ~overlapped => (scanOwed <=> scanning # 0)

\* Window, supervisor and backend agree on what is under way and whose end is owed.
Agreed == AnswersMatch /\ ScanAgreed

Reading == {j \in Jobs : loads[j] = "reading"}

\* A scan, a load (which drops missing files) and an adoption write the index one at a time.
OneWriter ==
    ~overlapped =>
       Cardinality(Reading) + (IF worker.phase = "scanning" THEN 1 ELSE 0)
                            + (IF applyThread = "adopting" THEN 1 ELSE 0) <= 1

\* The session knows of every scan that runs, whatever late signals of the scan before it
\* arrive: it refuses to adopt a result (or to forget paths) beside it.  A load's failure
\* that is taken for the scan's would let the next scan begin before those are handled.
ScanHoldsIndex ==
    (process = "up" /\ worker.phase = "scanning" /\ ~overlapped) => scanActive

\* The index belongs to one job at a time, and the session knows which.
IndexHeld == OneWriter /\ ScanHoldsIndex

\* What a flag of the worker is when the commands of a queue have been handled: the last of
\* those that touch it decides.
FlagAfter(q, on, off, flag) ==
    \/ \E i \in DOMAIN q :
          q[i].type \in on /\ \A k \in DOMAIN q : q[k].type \in on \cup off => k <= i
    \/ flag /\ \A k \in DOMAIN q : q[k].type \notin on \cup off

\* And when all commands on their way have been.
WillBe(on, off, flag) == FlagAfter(pipe, on, off, FlagAfter(inbox, on, off, flag))

WillPause == WillBe({"PAUSE"}, {"RESUME", "CANCEL", "START_SCAN"}, worker.paused)
WillStop  == WillBe({"CANCEL"}, {"START_SCAN"}, worker.cancelled)

\* The window's scan has its worker, or the command to start it is on its way.
StartIn(q) == \E i \in DOMAIN q : q[i].type = "START_SCAN" /\ q[i].job = scanning
HasScan    == worker.job = scanning \/ StartIn(inbox) \/ StartIn(pipe)

\* Until it is stopped, a scan is, or is about to be, paused exactly if the window says so.
PauseReaches ==
    (process = "up" /\ scanning # 0 /\ ~overlapped /\ HasScan /\ ~WillStop)
        => (paused <=> WillPause)

\* A scan that is not left paused ends for the window, also when its backend is lost.
ScanEnds == (<>[]~paused /\ []~overlapped) => (scanning # 0 ~> scanning = 0)

\* A scan that is stopped ends for the window, also a paused one.
StopWorks == []~overlapped => ((scanning # 0 /\ cancelWait) ~> scanning = 0)

\* No scan keeps the window waiting.
ScanReturns == ScanEnds /\ StopWorks

\* What the comment on loadIndex() and the acceptance runbook promise: a load ends for the
\* window (the notice is closed, the button is back), also when its backend is lost.
LoadAnswered ==
    ([]~overlapped /\ []<>available) => (loading # 0 ~> loading = 0)

================================================================================
