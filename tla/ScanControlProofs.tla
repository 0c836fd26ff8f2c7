--------------------------- MODULE ScanControlProofs ---------------------------
(***************************************************************************)
(* ScanControl for every number of jobs, matches and losses: the window and  *)
(* the supervisor agree on whether a scan runs, whatever the process does;   *)
(* every queue, thread and flag of the two keeps its type; what the window   *)
(* takes for the end of its job is that job's; scans, loads and adoptions    *)
(* write the index in turn; what a scan finds is shown before its end; and a *)
(* scan is paused exactly if the window says so.                             *)
(*                                                                           *)
(* Next has some forty disjuncts, of which each invariant sees a few: every   *)
(* step is first shown to have one of the shapes of Shape (a message is       *)
(* posted, read or taken, a line written or heard, a job asked for, all of    *)
(* it lost), and an invariant is then proved of the shapes.                   *)
(***************************************************************************)
EXTENDS ScanControl, SequenceTheorems, FiniteSetTheorems, TLAPS

Flagged == requests \in Nat /\ scanOwed \in BOOLEAN /\ overlapped \in BOOLEAN

\* The window waits for one job: for a scan or for a load.
OneJob == ~overlapped => scanning = 0 \/ loading = 0

\* A load in hand is what lets a failure be taken for another's: it is needed in
\* the induction, since OnFailed and ScanLost then leave the scan as it is.
IInv == Flagged /\ OneJob /\ ScanAgreed

\* A scan begins where none runs and beside no load, or the jobs overlap.
LEMMA BeginKeeps ==
    ASSUME IInv, NEW test, Begin(test), UNCHANGED loading
    PROVE  IInv'
<1>1. Flagged'
  BY DEF IInv, Flagged, Begin
<1>2. scanning' # 0
  BY DEF IInv, Flagged, Begin
<1>3. ~overlapped' => loading' = 0
  BY DEF Begin
<1>4. scanOwed'
  BY DEF Begin
<1> QED
  BY <1>1, <1>2, <1>3, <1>4 DEF IInv, OneJob, ScanAgreed

\* A load is asked for where neither a scan nor a load is out.
LEMMA AskLoadKeeps ==
    ASSUME IInv, Idle, AskLoad
    PROVE  IInv'
<1>1. Flagged'
  <2>1. CASE available
    BY <2>1 DEF IInv, Flagged, AskLoad, link
  <2>2. CASE ~available
    BY <2>2 DEF IInv, Flagged, AskLoad, link
  <2> QED BY <2>1, <2>2
<1>2. scanning' = 0 /\ scanOwed' = scanOwed
  BY DEF Idle, AskLoad, link
<1>3. overlapped => overlapped'
  BY DEF AskLoad
<1> QED
  BY <1>1, <1>2, <1>3 DEF IInv, OneJob, ScanAgreed, Idle

\* The loss of the backend reaches the window exactly if it runs a scan.
LEMMA LossKeeps ==
    ASSUME IInv, ScanLost, UNCHANGED <<requests, overlapped>>
    PROVE  IInv'
  BY DEF IInv, Flagged, OneJob, ScanAgreed, ScanLost, ScanFailed, LoadFailed, Disowned, NotRunning

\* An event is taken.
LEMMA DispatchKeeps ==
    ASSUME IInv, Dispatch
    PROVE  IInv'
<1> DEFINE e == Head(out)
<1>0. UNCHANGED <<requests, overlapped>>
  BY DEF Dispatch, count
<1>1. CASE OnMatches(e)
  BY <1>0, <1>1 DEF IInv, Flagged, OneJob, ScanAgreed, OnMatches, link
<1>2. CASE OnResults(e)
  BY <1>0, <1>2 DEF IInv, Flagged, OneJob, ScanAgreed, OnResults, link
<1>3. CASE OnFinished(e)
  BY <1>0, <1>3 DEF IInv, Flagged, OneJob, ScanAgreed, OnFinished, Disowned, NotRunning
<1>4. CASE OnFailed(e)
  BY <1>0, <1>4 DEF IInv, Flagged, OneJob, ScanAgreed, OnFailed, Disowned, LoadFailed, ScanFailed,
                    NotRunning
<1>5. CASE OnTestDiff(e)
  BY <1>0, <1>5 DEF IInv, Flagged, OneJob, ScanAgreed, OnTestDiff, link, view
<1> QED
  BY <1>1, <1>2, <1>3, <1>4, <1>5 DEF Dispatch

\* A step that leaves the window's jobs and the supervisor's flag alone.
LEMMA OthersKeep ==
    ASSUME IInv, UNCHANGED <<scanOwed, scanning, loading, requests, overlapped>>
    PROVE  IInv'
  BY DEF IInv, Flagged, OneJob, ScanAgreed

\* Every step preserves the invariant.
LEMMA StepKeeps ==
    ASSUME IInv, [Next]_vars
    PROVE  IInv'
<1>1. ASSUME NEW test \in BOOLEAN, StartScan(test)
      PROVE  IInv'
  <2>1. CASE Begin(test)
    BY <1>1, <2>1, BeginKeeps DEF StartScan
  <2>2. CASE ~Begin(test)
    BY <1>1, <2>2, OthersKeep DEF StartScan
  <2> QED BY <2>1, <2>2
<1>2. CASE LoadIndex
  BY <1>2, AskLoadKeeps DEF LoadIndex
<1>3. CASE TogglePauseScan
  BY <1>3, OthersKeep DEF TogglePauseScan, link, count
<1>4. CASE CancelScan
  BY <1>4, OthersKeep DEF CancelScan, link, count
<1>5. CASE AnswerTestDiff
  BY <1>5, OthersKeep DEF AnswerTestDiff, link, view, count
<1>6. CASE Reload
  <2>1. CASE Idle /\ AskLoad
    BY <2>1, AskLoadKeeps
  <2>2. CASE ~(Idle /\ AskLoad)
    BY <1>6, <2>2, OthersKeep DEF Reload, link, view, count
  <2> QED BY <2>1, <2>2
<1>7. CASE Dispatch
  BY <1>7, DispatchKeeps
<1>8. CASE NoticeExit
  BY <1>8, LossKeeps DEF NoticeExit, kept
<1>9. CASE Die
  BY <1>9, OthersKeep DEF Die, link, view
<1>10. CASE WatchdogLoss
  BY <1>10, LossKeeps DEF WatchdogLoss, kept
<1>11. CASE Return
  <2>1. CASE Begin(lastTest)
    BY <1>11, <2>1, BeginKeeps DEF Return
  <2>2. CASE ~Begin(lastTest)
    BY <1>11, <2>2, OthersKeep DEF Return
  <2> QED BY <2>1, <2>2
<1>12. CASE Work /\ UNCHANGED gui
  BY <1>12, OthersKeep DEF gui, link, view, count
<1>13. CASE UNCHANGED vars
  BY <1>13, OthersKeep DEF vars, link, view, count
<1> QED
  BY <1>1, <1>2, <1>3, <1>4, <1>5, <1>6, <1>7, <1>8, <1>9, <1>10, <1>11, <1>12, <1>13
     DEF Next, User, Fate

\* The invariant holds from the start.
LEMMA InvBegins ==
    ASSUME Init
    PROVE  IInv
<1>1. requests = 0 /\ scanning = 0 /\ scanOwed = FALSE /\ overlapped = FALSE
  BY DEF Init
<1> QED
  BY <1>1 DEF IInv, Flagged, OneJob, ScanAgreed

\* The invariant holds at every step.
THEOREM InvHolds == Spec => []IInv
<1> QED
  BY InvBegins, StepKeeps, PTL DEF Spec

\* The window runs a scan exactly if the supervisor owes it an end, so that no loss of a
\* backend leaves it waiting (BackendSupervisor::scanning_ and MainWindow::scanning_).
THEOREM ScanIsAgreed == Spec => []ScanAgreed
<1>1. IInv => ScanAgreed
  BY DEF IInv
<1> QED
  BY <1>1, InvHolds, PTL

-----------------------------------------------------------------------------
(* Types: what the queues hold, and which of it names a job.                  *)

\* All but the commands for the worker there is, and the end of an adoption, name a job.
NamesJob == (Signals \ {"applyOver"}) \cup {"START_SCAN", "LOAD_INDEX"}

Posted  == {m \in [type : Commands \cup Signals, job : 0..MaxJobs, test : BOOLEAN] :
               m.type \in NamesJob => m.job \in Jobs}
Lines   == {m \in Posted : m.type \in Commands}
Written == [type : Events, job : Jobs, matches : SUBSET (Jobs \X Matches)]
Workers == [job : 0..MaxJobs, phase : WorkerPhases, test : BOOLEAN, paused : BOOLEAN,
            cancelled : BOOLEAN, found : SUBSET (Jobs \X Matches),
            pending : SUBSET (Jobs \X Matches)]

\* A worker that has begun, or has found anything, has a job.
WorkerTypes ==
    /\ worker \in Workers
    /\ worker.phase # "none" \/ worker.pending # {} => worker.job \in Jobs

ProcessTypes ==
    /\ process \in {"up", "dead", "gone"}
    /\ pipe \in Seq(Lines) /\ inbox \in Seq(Posted) /\ out \in Seq(Written)
    /\ WorkerTypes
    /\ loads \in [Jobs -> LoadPhases] /\ loadThread \in 0..MaxJobs
    /\ applyThread \in {"none", "adopting", "over"}
    /\ scanActive \in BOOLEAN /\ testPending \in BOOLEAN

Flags ==
    /\ available \in BOOLEAN
    /\ scanOwed \in BOOLEAN /\ paused \in BOOLEAN /\ cancelWait \in BOOLEAN
    /\ scanCrashed \in BOOLEAN /\ lastTest \in BOOLEAN /\ testDiffBox \in BOOLEAN
    /\ reloadDue \in BOOLEAN /\ overlapped \in BOOLEAN

Numbers ==
    /\ scanning \in 0..MaxJobs /\ loading \in 0..MaxJobs /\ requests \in 0..MaxJobs
    /\ autoResumeTries \in 0..1
    /\ got \subseteq Jobs \X Matches

WindowTypes == Flags /\ Numbers

\* A signal or a command that is posted has one of the types.
LEMMA SignalIsPosted ==
    ASSUME NEW type \in Signals \ {"applyOver"}, NEW j \in Jobs
    PROVE  Signal(type, j) \in Posted
<1>1. j \in 0..MaxJobs
  BY SessionAssumption DEF Jobs
<1> QED
  BY <1>1 DEF Signal, Posted

\* The signal of an adoption's thread is one the reader's loop may hold.
LEMMA ApplyOverIsPosted == Signal("applyOver", 0) \in Posted
<1>1. 0 \in 0..MaxJobs
  BY SessionAssumption
<1>2. "applyOver" \in Signals /\ "applyOver" \notin NamesJob
  BY DEF Signals, NamesJob
<1> QED
  BY <1>1, <1>2 DEF Signal, Posted

\* Commands that start a job name the next one; the others are for the worker there is.
LEMMA CommandIsLine ==
    ASSUME NEW type \in Commands, NEW j \in 0..MaxJobs, NEW test \in BOOLEAN,
           type \in {"START_SCAN", "LOAD_INDEX"} => j \in Jobs
    PROVE  Command(type, j, test) \in Lines
<1>1. type \notin Signals
  BY DEF Commands, Signals
<1> QED
  BY <1>1 DEF Command, Lines, Posted, NamesJob

\* A line that names a job is written for a scan or a load that was asked for.
LEMMA EventIsWritten ==
    ASSUME NEW type \in Events, NEW j \in Jobs
    PROVE  Event(type, j) \in Written
  BY DEF Event, Written

\* What is read from the pipe, and what the head of the event queue is.
LEMMA HeadIsPosted ==
    ASSUME ProcessTypes, inbox # <<>>
    PROVE  /\ Head(inbox) \in Posted /\ Tail(inbox) \in Seq(Posted)
           /\ Head(inbox).type \in Commands \cup Signals
           /\ Head(inbox).job \in 0..MaxJobs /\ Head(inbox).test \in BOOLEAN
           /\ Head(inbox).type \in NamesJob => Head(inbox).job \in Jobs
<1>1. Head(inbox) \in Posted /\ Tail(inbox) \in Seq(Posted)
  BY HeadTailProperties DEF ProcessTypes
<1> QED
  BY <1>1 DEF Posted

\* Signals that are posted join the queue.
LEMMA PostKeeps ==
    ASSUME ProcessTypes, NEW signals \in Seq(Posted), Post(signals)
    PROVE  inbox' \in Seq(Posted)
  BY ConcatProperties DEF Post, ProcessTypes

\* A thread that posts one signal puts it behind those that wait.
LEMMA PostOneKeeps ==
    ASSUME ProcessTypes, NEW signal \in Posted, Post(<<signal>>)
    PROVE  inbox' \in Seq(Posted)
<1>1. <<signal>> \in Seq(Posted)
  OBVIOUS
<1> QED
  BY <1>1, PostKeeps

\* What a handler sends joins what was written, after the matches that waited.
LEMMA DrainedKeeps ==
    ASSUME ProcessTypes, NEW events \in Seq(Written), Drained(events)
    PROVE  out' \in Seq(Written)
<1>1. CASE worker.pending = {}
  <2>1. out' = out \o <<>> \o events
    BY <1>1 DEF Drained
  <2>2. <<>> \o events \in Seq(Written) /\ out \o <<>> \in Seq(Written)
    BY ConcatEmptySeq DEF ProcessTypes
  <2> QED
    BY <2>1, <2>2, ConcatProperties DEF ProcessTypes
<1>2. CASE worker.pending # {}
  <2>1. Batch(worker.pending, worker.job) \in Written
    BY <1>2 DEF ProcessTypes, WorkerTypes, Workers, Batch, Written, Events
  <2>2. <<Batch(worker.pending, worker.job)>> \in Seq(Written)
    BY <2>1
  <2>3. out' = out \o <<Batch(worker.pending, worker.job)>> \o events
    BY <1>2 DEF Drained
  <2> QED
    BY <2>2, <2>3, ConcatProperties DEF ProcessTypes
<1> QED
  BY <1>1, <1>2

\* A handler that writes nothing of its own hands over the matches that waited.
LEMMA DrainedAloneKeeps ==
    ASSUME ProcessTypes, Drained(<<>>)
    PROVE  out' \in Seq(Written)
<1>1. <<>> \in Seq(Written)
  OBVIOUS
<1> QED
  BY <1>1, DrainedKeeps

\* Nothing pends after a drain.
LEMMA DrainKeeps ==
    ASSUME ProcessTypes, Drain
    PROVE  WorkerTypes'
  BY DEF ProcessTypes, WorkerTypes, Workers, Drain

\* The notice of matches that wait is a signal of the worker's job.
LEMMA StragglersArePosted ==
    ASSUME ProcessTypes
    PROVE  Stragglers \in Seq(Posted)
<1>1. CASE worker.pending = {}
  BY <1>1 DEF Stragglers
<1>2. CASE worker.pending # {}
  <2>1. worker.job \in Jobs
    BY <1>2 DEF ProcessTypes, WorkerTypes
  <2>2. Signal("matchesArrived", worker.job) \in Posted
    BY <2>1, SignalIsPosted DEF Signals
  <2> QED
    BY <2>2, <1>2 DEF Stragglers
<1> QED
  BY <1>1, <1>2

\* The threads of the process report in the types of their signals.
LEMMA ThreadsKeepTypes ==
    ASSUME ProcessTypes,
           FindMatch \/ WorkerReports \/ WorkerFinishes \/ WorkerStops \/ WorkerFails
           \/ LoadRuns \/ ApplyEnds \/ ReadLine
    PROVE  ProcessTypes'
<1>1. Stragglers \in Seq(Posted)
  BY StragglersArePosted
<1>2. ASSUME worker.phase # "none", NEW type \in Signals \ {"applyOver"}
      PROVE  <<Signal(type, worker.job)>> \in Seq(Posted)
  <2>1. Signal(type, worker.job) \in Posted
    BY <1>2, SignalIsPosted DEF ProcessTypes, WorkerTypes
  <2> QED BY <2>1
<1>3. ASSUME NEW phase \in WorkerPhases, worker.phase # "none", Step(phase)
      PROVE  WorkerTypes'
  BY <1>3 DEF ProcessTypes, WorkerTypes, Workers, Step
<1>4. CASE FindMatch
  <2>1. PICK m \in Matches :
           worker' = [worker EXCEPT !.found = @ \cup {<<worker.job, m>>},
                                    !.pending = @ \cup {<<worker.job, m>>}]
    BY <1>4 DEF FindMatch
  <2>2. worker.phase # "none" /\ worker.job \in Jobs
    BY <1>4 DEF FindMatch, ProcessTypes, WorkerTypes
  <2>3. WorkerTypes'
    <3>1. <<worker.job, m>> \in Jobs \X Matches
      BY <2>2
    <3>2. /\ worker.found \cup {<<worker.job, m>>} \in SUBSET (Jobs \X Matches)
          /\ worker.pending \cup {<<worker.job, m>>} \in SUBSET (Jobs \X Matches)
      BY <3>1 DEF ProcessTypes, WorkerTypes, Workers
    <3>3. worker' \in Workers /\ worker'.job = worker.job
      BY <2>1, <3>2 DEF ProcessTypes, WorkerTypes, Workers
    <3> QED BY <2>2, <3>3 DEF WorkerTypes
  <2>4. PICK told \in BOOLEAN :
           Post(IF told THEN <<Signal("matchesArrived", worker.job)>> ELSE <<>>)
    BY <1>4 DEF FindMatch
  <2>5. (IF told THEN <<Signal("matchesArrived", worker.job)>> ELSE <<>>) \in Seq(Posted)
    BY <1>2, <2>2 DEF Signals
  <2>6. inbox' \in Seq(Posted)
    BY <2>4, <2>5, PostKeeps
  <2> QED BY <1>4, <2>3, <2>6 DEF FindMatch, ProcessTypes, session
<1>5. CASE WorkerReports
  <2>1. worker.phase # "none" /\ WorkerTypes'
    BY <1>5, <1>3 DEF WorkerReports, WorkerPhases
  <2>2. Stragglers \o <<Signal("results", worker.job)>> \in Seq(Posted)
    BY <1>1, <1>2, <2>1, ConcatProperties DEF Signals
  <2>3. inbox' \in Seq(Posted)
    BY <1>5, <2>2, PostKeeps DEF WorkerReports
  <2> QED BY <1>5, <2>1, <2>3 DEF WorkerReports, ProcessTypes, session
<1>6. CASE WorkerFinishes
  <2>1. worker.phase # "none" /\ WorkerTypes'
    BY <1>6, <1>3 DEF WorkerFinishes, WorkerPhases
  <2>2. <<Signal("finished", worker.job)>> \in Seq(Posted)
    BY <1>2, <2>1 DEF Signals
  <2>3. inbox' \in Seq(Posted)
    BY <1>6, <2>2, PostKeeps DEF WorkerFinishes
  <2> QED BY <1>6, <2>1, <2>3 DEF WorkerFinishes, ProcessTypes, session
<1>7. CASE WorkerStops
  <2>1. worker.phase # "none" /\ WorkerTypes'
    BY <1>7, <1>3 DEF WorkerStops, WorkerPhases
  <2>2. Stragglers \o <<Signal("cancelled", worker.job)>> \in Seq(Posted)
    BY <1>1, <1>2, <2>1, ConcatProperties DEF Signals
  <2>3. inbox' \in Seq(Posted)
    BY <1>7, <2>2, PostKeeps DEF WorkerStops
  <2> QED BY <1>7, <2>1, <2>3 DEF WorkerStops, ProcessTypes, session
<1>8. CASE WorkerFails
  <2>1. worker.phase # "none" /\ WorkerTypes'
    BY <1>8, <1>3 DEF WorkerFails, WorkerPhases
  <2>2. PICK first \in {<<>>, Stragglers} : Post(first \o <<Signal("failed", worker.job)>>)
    BY <1>8 DEF WorkerFails
  <2>3. first \in Seq(Posted)
    <3>1. <<>> \in Seq(Posted)
      OBVIOUS
    <3> QED BY <1>1, <2>2, <3>1
  <2>4. first \o <<Signal("failed", worker.job)>> \in Seq(Posted)
    BY <1>2, <2>1, <2>3, ConcatProperties DEF Signals
  <2>5. inbox' \in Seq(Posted)
    BY <2>2, <2>4, PostKeeps
  <2> QED BY <1>8, <2>1, <2>5 DEF WorkerFails, ProcessTypes, session
<1>9. ASSUME NEW j \in Jobs, LoadAnswers(j)
      PROVE  ProcessTypes'
  <2>1. PICK answer \in {"loadResults", "loadFailed"} : Post(<<Signal(answer, j)>>)
    BY <1>9 DEF LoadAnswers
  <2>2. Signal(answer, j) \in Posted
    BY SignalIsPosted DEF Signals
  <2>3. inbox' \in Seq(Posted)
    BY <2>1, <2>2, PostOneKeeps
  <2>4. loads' \in [Jobs -> LoadPhases]
    BY <1>9 DEF LoadAnswers, ProcessTypes, LoadPhases
  <2> QED BY <1>9, <2>3, <2>4 DEF LoadAnswers, ProcessTypes, WorkerTypes, session
<1>10. ASSUME NEW j \in Jobs, LoadEnds(j)
       PROVE  ProcessTypes'
  <2>1. Signal("loadOver", j) \in Posted
    BY SignalIsPosted DEF Signals
  <2>2. inbox' \in Seq(Posted)
    BY <1>10, <2>1, PostOneKeeps DEF LoadEnds
  <2>3. loads' \in [Jobs -> LoadPhases]
    BY <1>10 DEF LoadEnds, ProcessTypes, LoadPhases
  <2> QED BY <1>10, <2>2, <2>3 DEF LoadEnds, ProcessTypes, WorkerTypes, session
<1>11. CASE ApplyEnds
  <2>1. inbox' \in Seq(Posted)
    BY <1>11, ApplyOverIsPosted, PostOneKeeps DEF ApplyEnds
  <2> QED BY <1>11, <2>1 DEF ApplyEnds, ProcessTypes, WorkerTypes
<1>12. CASE ReadLine
  <2>1. Head(pipe) \in Lines /\ Tail(pipe) \in Seq(Lines)
    BY <1>12, HeadTailProperties DEF ReadLine, ProcessTypes
  <2>2. Head(pipe) \in Posted
    BY <2>1 DEF Lines
  <2>3. inbox' \in Seq(Posted)
    BY <1>12, <2>2, PostOneKeeps DEF ReadLine
  <2> QED BY <1>12, <2>1, <2>3 DEF ReadLine, ProcessTypes, WorkerTypes, threads, session
<1> QED
  BY <1>4, <1>5, <1>6, <1>7, <1>8, <1>9, <1>10, <1>11, <1>12 DEF LoadRuns

\* The process exits.
LEMMA ExitKeepsTypes ==
    ASSUME ProcessTypes, Exit, out' = out
    PROVE  ProcessTypes'
<1>1. NoWorker \in Workers /\ NoWorker.phase = "none" /\ NoWorker.pending = {}
  BY SessionAssumption DEF NoWorker, Workers, WorkerPhases
<1>2. WorkerTypes'
  BY <1>1 DEF Exit, WorkerTypes
<1>3. <<>> \in Seq(Lines) /\ <<>> \in Seq(Posted) /\ 0 \in 0..MaxJobs
  BY SessionAssumption
<1>4. [j \in Jobs |-> "none"] \in [Jobs -> LoadPhases]
  BY DEF LoadPhases
<1> QED
  BY <1>2, <1>3, <1>4 DEF Exit, ProcessTypes

\* The handlers keep the types.
LEMMA HandlersKeepTypes ==
    ASSUME ProcessTypes, Handle
    PROVE  ProcessTypes'
<1> DEFINE h == Head(inbox)
<1>1. inbox # <<>>
  BY DEF Handle, Takes, HandleStartScan, HandleLoad, HandleApply, HandlePause, HandleResume,
         HandleCancel, HandleMatches, HandleResults, HandleFinished, HandleCancelled,
         HandleFailed, HandleLoadAnswer, HandleLoadOver, HandleDelete, HandleApplyOver
<1>2. /\ h \in Posted /\ Tail(inbox) \in Seq(Posted) /\ h.job \in 0..MaxJobs
      /\ h.test \in BOOLEAN
      /\ h.type \in NamesJob => h.job \in Jobs
  BY <1>1, HeadIsPosted
<1>3. ASSUME NEW type, Takes(type)
      PROVE  h.type = type /\ inbox' \in Seq(Posted) /\ process' = process /\ pipe' = pipe
  BY <1>2, <1>3 DEF Takes
<1>4. WorkerTypes /\ worker \in Workers
  BY DEF ProcessTypes, WorkerTypes
<1>5. ASSUME NEW type \in Events, h.type \in NamesJob
      PROVE  <<Event(type, h.job)>> \in Seq(Written)
  <2>1. Event(type, h.job) \in Written
    BY <1>2, <1>5, EventIsWritten
  <2> QED BY <2>1
<1> HIDE DEF h
<1>6. CASE HandleStartScan
  <2>1. h.type = "START_SCAN" /\ inbox' \in Seq(Posted) /\ process' = process /\ pipe' = pipe
    BY <1>3, <1>6 DEF HandleStartScan
  <2>2. h.job \in Jobs
    BY <1>2, <2>1 DEF NamesJob
  <2>3. worker' = NewWorker(h.job, h.test)
    BY <1>6 DEF HandleStartScan, h
  <2>4. WorkerTypes'
    BY <1>2, <2>2, <2>3 DEF WorkerTypes, Workers, NewWorker, NoWorker, WorkerPhases
  <2>5. 0 \in 0..MaxJobs
    BY SessionAssumption
  <2> QED BY <1>6, <2>1, <2>4, <2>5 DEF HandleStartScan, ProcessTypes
<1>7. CASE HandleLoad
  <2>1. h.type = "LOAD_INDEX" /\ inbox' \in Seq(Posted) /\ process' = process /\ pipe' = pipe
    BY <1>3, <1>7 DEF HandleLoad
  <2>2. loadThread' = h.job /\ loads' = [loads EXCEPT ![h.job] = "reading"]
    BY <1>7 DEF HandleLoad, h
  <2>3. loads' \in [Jobs -> LoadPhases]
    BY <2>2 DEF ProcessTypes, LoadPhases
  <2> QED BY <1>2, <1>4, <1>7, <2>1, <2>2, <2>3 DEF HandleLoad, ProcessTypes, WorkerTypes
<1>8. CASE HandleApply
  <2>1. inbox' \in Seq(Posted) /\ process' = process /\ pipe' = pipe
    BY <1>3, <1>8 DEF HandleApply
  <2>2. CASE UNCHANGED <<out, threads, session>>
    BY <2>1, <2>2 DEF ProcessTypes, WorkerTypes, threads, session
  <2>3. CASE worker' = NoWorker /\ applyThread' = "adopting" /\ UNCHANGED <<out, loads, session>>
    <3>1. WorkerTypes'
      BY <2>3, SessionAssumption DEF WorkerTypes, Workers, NoWorker, WorkerPhases
    <3> QED BY <2>1, <2>3, <3>1 DEF ProcessTypes, session
  <2> QED BY <1>8, <2>2, <2>3 DEF HandleApply
<1>9. CASE HandlePause
  <2>1. inbox' \in Seq(Posted) /\ process' = process /\ pipe' = pipe
    BY <1>3, <1>9 DEF HandlePause
  <2>2. CASE UNCHANGED <<out, worker>>
    BY <1>9, <2>1, <2>2 DEF HandlePause, ProcessTypes, WorkerTypes, session
  <2>3. CASE worker' = [worker EXCEPT !.paused = TRUE, !.pending = {}] /\ Drained(<<>>)
    <3>1. WorkerTypes'
      BY <1>4, <2>3 DEF WorkerTypes, Workers
    <3>2. out' \in Seq(Written)
      BY <2>3, DrainedAloneKeeps
    <3> QED BY <1>9, <2>1, <3>1, <3>2 DEF HandlePause, ProcessTypes, session
  <2> QED BY <1>9, <2>2, <2>3 DEF HandlePause
<1>10. CASE HandleResume \/ HandleCancel
  <2>1. inbox' \in Seq(Posted) /\ process' = process /\ pipe' = pipe
    BY <1>3, <1>10 DEF HandleResume, HandleCancel
  <2>2. WorkerTypes'
    BY <1>4, <1>10 DEF WorkerTypes, Workers, HandleResume, HandleCancel, Flag
  <2> QED BY <1>10, <2>1, <2>2 DEF HandleResume, HandleCancel, ProcessTypes, session
<1>11. CASE HandleMatches
  <2>1. inbox' \in Seq(Posted) /\ process' = process /\ pipe' = pipe
    BY <1>3, <1>11 DEF HandleMatches
  <2>2. out' \in Seq(Written) /\ WorkerTypes'
    BY <1>11, DrainedAloneKeeps, DrainKeeps DEF HandleMatches
  <2> QED BY <1>11, <2>1, <2>2 DEF HandleMatches, ProcessTypes, session
<1>12. CASE HandleResults
  <2>1. /\ h.type = "results" /\ inbox' \in Seq(Posted) /\ process' = process /\ pipe' = pipe
        /\ Drained(<<Event("RESULTS_PAGE", h.job)>>)
    BY <1>3, <1>12 DEF HandleResults, h
  <2>2. out' \in Seq(Written) /\ WorkerTypes'
    BY <1>5, <1>12, <2>1, DrainedKeeps, DrainKeeps DEF HandleResults, Events, NamesJob, Signals
  <2> QED BY <1>12, <2>1, <2>2 DEF HandleResults, ProcessTypes, session
<1>13. CASE HandleFinished
  <2>1. h.type = "finished" /\ inbox' \in Seq(Posted) /\ process' = process /\ pipe' = pipe
    BY <1>3, <1>13 DEF HandleFinished
  <2>2. PICK differs \in BOOLEAN :
           /\ testPending' = (IF differs THEN TRUE ELSE testPending)
           /\ Drained(<<Event("FINISHED", h.job)>>
                      \o IF differs THEN <<Event("TEST_DIFF", h.job)>> ELSE <<>>)
    BY <1>13 DEF HandleFinished, h
  <2>3. /\ <<Event("FINISHED", h.job)>> \in Seq(Written)
        /\ (IF differs THEN <<Event("TEST_DIFF", h.job)>> ELSE <<>>) \in Seq(Written)
    BY <1>5, <2>1 DEF Events, NamesJob, Signals
  <2>4. <<Event("FINISHED", h.job)>>
        \o (IF differs THEN <<Event("TEST_DIFF", h.job)>> ELSE <<>>) \in Seq(Written)
    BY <2>3, ConcatProperties
  <2>5. out' \in Seq(Written) /\ WorkerTypes'
    BY <1>13, <2>2, <2>4, DrainedKeeps, DrainKeeps DEF HandleFinished
  <2>6. testPending' \in BOOLEAN
    BY <2>2 DEF ProcessTypes
  <2> QED BY <1>13, <2>1, <2>5, <2>6 DEF HandleFinished, ProcessTypes
<1>14. CASE HandleCancelled
  <2>1. /\ h.type = "cancelled" /\ inbox' \in Seq(Posted) /\ process' = process /\ pipe' = pipe
        /\ Drained(<<Event("FINISHED", h.job)>>)
    BY <1>3, <1>14 DEF HandleCancelled, h
  <2>2. out' \in Seq(Written) /\ WorkerTypes'
    BY <1>5, <1>14, <2>1, DrainedKeeps, DrainKeeps DEF HandleCancelled, Events, NamesJob, Signals
  <2> QED BY <1>14, <2>1, <2>2 DEF HandleCancelled, ProcessTypes
<1>15. CASE HandleFailed
  <2>1. /\ h.type = "failed" /\ inbox' \in Seq(Posted) /\ process' = process /\ pipe' = pipe
        /\ Drained(<<Event("FAILED", h.job)>>)
    BY <1>3, <1>15 DEF HandleFailed, h
  <2>2. out' \in Seq(Written) /\ WorkerTypes'
    BY <1>5, <1>15, <2>1, DrainedKeeps, DrainKeeps DEF HandleFailed, Events, NamesJob, Signals
  <2> QED BY <1>15, <2>1, <2>2 DEF HandleFailed, ProcessTypes
<1>16. CASE HandleLoadAnswer
  <2>1. PICK type \in {"RESULTS_PAGE", "FAILED"} : out' = Append(out, Event(type, h.job))
    BY <1>16 DEF HandleLoadAnswer, h
  <2>2. /\ h.type \in {"loadResults", "loadFailed"} /\ inbox' \in Seq(Posted)
        /\ process' = process /\ pipe' = pipe
    BY <1>3, <1>16 DEF HandleLoadAnswer
  <2>3. Event(type, h.job) \in Written
    BY <1>2, <2>2, EventIsWritten DEF Events, NamesJob, Signals
  <2>4. out' \in Seq(Written)
    BY <2>1, <2>3, AppendProperties DEF ProcessTypes
  <2> QED BY <1>16, <2>2, <2>4 DEF HandleLoadAnswer, ProcessTypes, WorkerTypes, threads, session
<1>17. CASE HandleLoadOver
  <2>1. Deletion(h.job) \in Seq(Posted)
    <3>1. CASE loadThread \in {0, h.job}
      BY <3>1 DEF Deletion
    <3>2. CASE loadThread \notin {0, h.job}
      <4>1. loadThread \in Jobs
        BY <3>2 DEF ProcessTypes, Jobs
      <4>2. Signal("deleteThread", loadThread) \in Posted
        BY <4>1, SignalIsPosted DEF Signals
      <4> QED BY <3>2, <4>2 DEF Deletion
    <3> QED BY <3>1, <3>2
  <2>2. inbox' = Tail(inbox) \o Deletion(h.job)
    BY <1>17 DEF HandleLoadOver, h
  <2>3. inbox' \in Seq(Posted)
    BY <1>2, <2>1, <2>2, ConcatProperties
  <2> QED BY <1>17, <2>3, SessionAssumption DEF HandleLoadOver, ProcessTypes, WorkerTypes, threads
<1>18. CASE HandleDelete
  <2>1. CASE Exit
    BY <1>18, <2>1, ExitKeepsTypes DEF HandleDelete
  <2>2. CASE ~Exit
    <3>1. inbox' = Tail(inbox) /\ UNCHANGED <<process, pipe, out, threads, session>>
      BY <1>18, <2>2 DEF HandleDelete
    <3> QED BY <1>2, <3>1 DEF ProcessTypes, WorkerTypes, threads, session
  <2> QED BY <2>1, <2>2
<1>19. CASE HandleApplyOver
  <2>1. inbox' \in Seq(Posted) /\ process' = process /\ pipe' = pipe
    BY <1>3, <1>19 DEF HandleApplyOver
  <2> QED BY <1>19, <2>1 DEF HandleApplyOver, ProcessTypes, WorkerTypes, session
<1> QED
  BY <1>6, <1>7, <1>8, <1>9, <1>10, <1>11, <1>12, <1>13, <1>14, <1>15, <1>16, <1>17, <1>18, <1>19
     DEF Handle

-----------------------------------------------------------------------------

\* A command that is sent joins the pipe of a living process.
LEMMA SendKeeps ==
    ASSUME ProcessTypes, NEW c \in Lines, Send(c)
    PROVE  pipe' \in Seq(Lines)
<1>1. Append(pipe, c) \in Seq(Lines)
  BY AppendProperties DEF ProcessTypes
<1> QED
  BY <1>1 DEF Send, ProcessTypes

Types == ProcessTypes /\ WindowTypes

\* The next job has a number within the bound.
LEMMA NextJob ==
    ASSUME WindowTypes, Room
    PROVE  requests + 1 \in Jobs /\ requests + 1 \in 0..MaxJobs
  BY SessionAssumption DEF WindowTypes, Flags, Numbers, Room, Jobs

\* A scan begins.
LEMMA BeginTypes ==
    ASSUME WindowTypes, Room, NEW test \in BOOLEAN, Begin(test)
    PROVE  /\ requests' \in 0..MaxJobs /\ scanning' \in 0..MaxJobs /\ scanOwed' \in BOOLEAN
           /\ got' \subseteq Jobs \X Matches /\ paused' \in BOOLEAN /\ cancelWait' \in BOOLEAN
           /\ lastTest' \in BOOLEAN /\ overlapped' \in BOOLEAN
<1>1. requests + 1 \in 0..MaxJobs
  BY NextJob
<1> QED
  BY <1>1 DEF WindowTypes, Flags, Numbers, Begin

\* What is left of a process that the window's step only sends to.
LEMMA SentTypes ==
    ASSUME ProcessTypes, pipe' \in Seq(Lines), UNCHANGED sent
    PROVE  ProcessTypes'
  BY DEF ProcessTypes, WorkerTypes, sent, threads, session

\* The process is left alone.
LEMMA BackendTypes ==
    ASSUME ProcessTypes, UNCHANGED backend
    PROVE  ProcessTypes'
  BY DEF ProcessTypes, WorkerTypes, backend, queues, threads, session

\* A load is asked for.
LEMMA AskLoadTypes ==
    ASSUME Types, AskLoad, UNCHANGED testDiffBox, reloadDue' \in BOOLEAN
    PROVE  Types'
<1>1. CASE available /\ Room /\ Send(Command("LOAD_INDEX", requests + 1, FALSE))
  <2>1. requests + 1 \in Jobs /\ requests + 1 \in 0..MaxJobs
    BY <1>1, NextJob DEF Types
  <2>2. Command("LOAD_INDEX", requests + 1, FALSE) \in Lines
    BY <2>1, CommandIsLine DEF Commands
  <2>3. pipe' \in Seq(Lines)
    BY <1>1, <2>2, SendKeeps DEF Types
  <2>4. ProcessTypes'
    BY <2>3, SentTypes DEF Types, AskLoad
  <2>5. /\ requests' = requests + 1 /\ loading' = requests + 1
        /\ overlapped' = (overlapped \/ loadThread # 0 \/ Adopting) /\ got' = {}
        /\ UNCHANGED <<link, scanning, paused, cancelWait, resume>>
    BY <1>1 DEF AskLoad
  <2>6. WindowTypes'
    BY <2>1, <2>5 DEF Types, WindowTypes, Flags, Numbers, link, resume
  <2> QED BY <2>4, <2>6 DEF Types
<1>2. CASE ~available /\ UNCHANGED <<pipe, loading, requests, overlapped>>
  <2>1. ProcessTypes'
    BY <1>2, SentTypes DEF Types, AskLoad, ProcessTypes
  <2>2. got' = {} /\ UNCHANGED <<link, scanning, paused, cancelWait, resume>>
    BY DEF AskLoad
  <2>3. WindowTypes'
    BY <1>2, <2>2 DEF Types, WindowTypes, Flags, Numbers, link, resume
  <2> QED BY <2>1, <2>3 DEF Types
<1> QED
  BY <1>1, <1>2 DEF AskLoad

\* The supervisor fails a scan, or has none to fail.
LEMMA LostTypes ==
    ASSUME WindowTypes, ScanLost, available' \in BOOLEAN, UNCHANGED kept
    PROVE  WindowTypes'
<1>1. /\ scanOwed' = FALSE /\ available' \in BOOLEAN
      /\ UNCHANGED <<cancelWait, got, autoResumeTries, lastTest, testDiffBox, requests, overlapped>>
  BY DEF ScanLost, Disowned, kept
<1>2. CASE ~scanOwed /\ UNCHANGED <<loading, scanning, paused, scanCrashed, reloadDue>>
  BY <1>1, <1>2 DEF WindowTypes, Flags, Numbers
<1>3. CASE LoadFailed
  <2>1. 0 \in 0..MaxJobs
    BY SessionAssumption
  <2>2. Flags'
    BY <1>1, <1>3 DEF WindowTypes, Flags, LoadFailed
  <2>3. Numbers'
    BY <1>1, <1>3, <2>1 DEF WindowTypes, Numbers, LoadFailed
  <2> QED BY <2>2, <2>3 DEF WindowTypes
<1>4. CASE ScanFailed(TRUE, reloadDue)
  BY <1>1, <1>4, SessionAssumption DEF WindowTypes, Flags, Numbers, ScanFailed, NotRunning
<1> QED
  BY <1>2, <1>3, <1>4 DEF ScanLost

\* An event is taken.
LEMMA DispatchTypes ==
    ASSUME Types, Dispatch
    PROVE  Types'
<1> DEFINE e == Head(out)
<1>1. e \in Written /\ Tail(out) \in Seq(Written)
  BY HeadTailProperties DEF Types, ProcessTypes, Dispatch
<1>2. e.matches \subseteq Jobs \X Matches
  BY <1>1 DEF Written
<1>3. ProcessTypes'
  BY <1>1 DEF Types, ProcessTypes, WorkerTypes, Dispatch, threads, session
<1>4. requests' = requests /\ overlapped' = overlapped
  BY DEF Dispatch, count
<1>5. WindowTypes /\ 0 \in 0..MaxJobs
  BY SessionAssumption DEF Types
<1> SUFFICES WindowTypes'
  BY <1>3 DEF Types
<1> HIDE DEF e
<1>6. CASE OnMatches(e)
  BY <1>2, <1>4, <1>5, <1>6 DEF WindowTypes, Flags, Numbers, OnMatches, link, resume, dialogs
<1>7. CASE OnResults(e)
  BY <1>4, <1>5, <1>7 DEF WindowTypes, Flags, Numbers, OnResults, link, resume, dialogs
<1>8. CASE OnFinished(e)
  BY <1>4, <1>5, <1>8 DEF WindowTypes, Flags, Numbers, OnFinished, Disowned, NotRunning, resume
<1>9. CASE OnFailed(e)
  BY <1>4, <1>5, <1>9 DEF WindowTypes, Flags, Numbers, OnFailed, Disowned, LoadFailed, ScanFailed, NotRunning
<1>10. CASE OnTestDiff(e)
  BY <1>4, <1>5, <1>10 DEF WindowTypes, Flags, Numbers, OnTestDiff, link, view, resume
<1> QED
  BY <1>6, <1>7, <1>8, <1>9, <1>10 DEF Dispatch, e

\* What the user does.
LEMMA UserTypes ==
    ASSUME Types, User
    PROVE  Types'
<1>0. 0 \in 0..MaxJobs
  BY SessionAssumption
<1>1. ASSUME NEW test \in BOOLEAN, StartScan(test)
      PROVE  Types'
  <2>1. /\ scanCrashed' = FALSE /\ autoResumeTries' = 0
        /\ UNCHANGED <<sent, available, loading, dialogs>>
    BY <1>1 DEF StartScan
  <2>2. CASE Room /\ Begin(test) /\ Send(Command("START_SCAN", requests + 1, test))
    <3>1. requests + 1 \in Jobs /\ requests + 1 \in 0..MaxJobs
      BY <2>2, NextJob DEF Types
    <3>2. Command("START_SCAN", requests + 1, test) \in Lines
      BY <3>1, CommandIsLine DEF Commands
    <3>3. ProcessTypes'
      BY <2>1, <2>2, <3>2, SendKeeps, SentTypes DEF Types
    <3>4. WindowTypes'
      <4>1. Flags'
        BY <2>1, <2>2, BeginTypes DEF Types, WindowTypes, Flags, dialogs
      <4>2. Numbers'
        BY <2>1, <2>2, BeginTypes DEF Types, WindowTypes, Numbers
      <4> QED BY <4>1, <4>2 DEF WindowTypes
    <3> QED BY <3>3, <3>4 DEF Types
  <2>3. CASE UNCHANGED <<pipe, scanOwed, scanning, paused, cancelWait, got, lastTest, requests,
                         overlapped>>
    <3>1. ProcessTypes'
      BY <2>1, <2>3, SentTypes DEF Types, ProcessTypes
    <3>2. WindowTypes'
      <4>1. Flags'
        BY <2>1, <2>3 DEF Types, WindowTypes, Flags, dialogs
      <4>2. Numbers'
        BY <2>1, <2>3 DEF Types, WindowTypes, Numbers
      <4> QED BY <4>1, <4>2 DEF WindowTypes
    <3> QED BY <3>1, <3>2 DEF Types
  <2> QED BY <1>1, <2>2, <2>3 DEF StartScan
<1>2. CASE LoadIndex
  BY <1>2, AskLoadTypes DEF LoadIndex, dialogs, Types, WindowTypes, Flags
<1>3. CASE TogglePauseScan \/ CancelScan
  <2>1. PICK type \in {"PAUSE", "RESUME", "CANCEL"} : Send(Command(type, 0, FALSE))
    BY <1>3 DEF TogglePauseScan, CancelScan
  <2>2. Command(type, 0, FALSE) \in Lines
    BY <1>0, CommandIsLine DEF Commands
  <2>3. ProcessTypes'
    BY <1>3, <2>1, <2>2, SendKeeps, SentTypes DEF Types, TogglePauseScan, CancelScan
  <2>4. WindowTypes'
    BY <1>3 DEF Types, WindowTypes, Flags, Numbers, TogglePauseScan, CancelScan, link, resume, dialogs, count
  <2> QED BY <2>3, <2>4 DEF Types
<1>4. CASE AnswerTestDiff
  <2>1. Command("APPLY_TEST_RESULT", 0, FALSE) \in Lines
    BY <1>0, CommandIsLine DEF Commands
  <2>2. pipe' \in Seq(Lines)
    BY <1>4, <2>1, SendKeeps DEF Types, AnswerTestDiff, ProcessTypes
  <2>3. ProcessTypes'
    BY <1>4, <2>2, SentTypes DEF Types, AnswerTestDiff
  <2>4. WindowTypes'
    BY <1>4 DEF Types, WindowTypes, Flags, Numbers, AnswerTestDiff, link, view, resume, count
  <2> QED BY <2>3, <2>4 DEF Types
<1> QED
  BY <1>1, <1>2, <1>3, <1>4 DEF User

\* The loss of the process and its return.
LEMMA FateTypes ==
    ASSUME Types, NoticeExit \/ Fate
    PROVE  Types'
<1>1. CASE NoticeExit
  <2>1. ProcessTypes'
    BY <1>1 DEF Types, ProcessTypes, WorkerTypes, NoticeExit, threads, session
  <2>2. WindowTypes'
    BY <1>1, LostTypes DEF Types, NoticeExit
  <2> QED BY <2>1, <2>2 DEF Types
<1>2. CASE Die
  <2>1. ProcessTypes'
    BY <1>2, ExitKeepsTypes DEF Types, Die
  <2>2. WindowTypes'
    BY <1>2 DEF Types, WindowTypes, Flags, Numbers, Die, link, view, resume, dialogs
  <2> QED BY <2>1, <2>2 DEF Types
<1>3. CASE WatchdogLoss
  <2>1. ProcessTypes'
    BY <1>3, BackendTypes DEF Types, WatchdogLoss
  <2>2. WindowTypes'
    BY <1>3, LostTypes DEF Types, WatchdogLoss
  <2> QED BY <2>1, <2>2 DEF Types
<1>4. CASE Return
  <2>1. /\ process' = "up" /\ available' = TRUE
        /\ UNCHANGED <<inbox, out, threads, session, loading, dialogs>>
    BY <1>4 DEF Return
  <2>2. CASE scanCrashed /\ autoResumeTries < 1
    <3>1. /\ autoResumeTries' = autoResumeTries + 1 /\ scanCrashed' = FALSE
          /\ Room /\ Begin(lastTest)
          /\ pipe' = <<Command("START_SCAN", requests + 1, lastTest)>>
      BY <1>4, <2>2 DEF Return
    <3>2. requests + 1 \in Jobs /\ requests + 1 \in 0..MaxJobs /\ lastTest \in BOOLEAN
      BY <3>1, NextJob DEF Types, WindowTypes, Flags, Numbers
    <3>3. Command("START_SCAN", requests + 1, lastTest) \in Lines
      BY <3>2, CommandIsLine DEF Commands
    <3>4. pipe' \in Seq(Lines)
      BY <3>1, <3>3
    <3>5. ProcessTypes'
      BY <2>1, <3>4 DEF Types, ProcessTypes, WorkerTypes, threads, session
    <3>6. autoResumeTries' \in 0..1
      BY <2>2, <3>1 DEF Types, WindowTypes, Flags, Numbers
    <3>7. WindowTypes'
      BY <2>1, <3>1, <3>2, <3>6, BeginTypes DEF Types, WindowTypes, Flags, Numbers, dialogs
    <3> QED BY <3>5, <3>7 DEF Types
  <2>3. CASE ~(scanCrashed /\ autoResumeTries < 1)
    <3>1. UNCHANGED <<pipe, scanOwed, scanning, paused, cancelWait, got, resume, requests,
                      overlapped>>
      BY <1>4, <2>3 DEF Return
    <3>2. ProcessTypes'
      BY <2>1, <3>1 DEF Types, ProcessTypes, WorkerTypes, threads, session
    <3>3. WindowTypes'
      BY <2>1, <3>1 DEF Types, WindowTypes, Flags, Numbers, dialogs, resume
    <3> QED BY <3>2, <3>3 DEF Types
  <2> QED BY <2>2, <2>3
<1> QED
  BY <1>1, <1>2, <1>3, <1>4 DEF Fate

\* The types hold at the start.
LEMMA TypesBegin ==
    ASSUME Init
    PROVE  Types
<1>1. /\ <<>> \in Seq(Lines) /\ <<>> \in Seq(Posted) /\ <<>> \in Seq(Written)
      /\ 0 \in 0..MaxJobs
  BY SessionAssumption
<1>2. /\ process = "up" /\ pipe = <<>> /\ inbox = <<>> /\ out = <<>> /\ worker = NoWorker
      /\ scanActive = FALSE /\ loads = [j \in Jobs |-> "none"] /\ loadThread = 0
      /\ applyThread = "none" /\ testPending = FALSE
  BY DEF Init, FreshSession
<1>3. WorkerTypes
  BY <1>1, <1>2 DEF WorkerTypes, Workers, NoWorker, WorkerPhases
<1>4. ProcessTypes
  BY <1>1, <1>2, <1>3 DEF ProcessTypes, LoadPhases
<1>5. WindowTypes
  <2>1. Flags
    BY DEF Init, Flags
  <2>2. Numbers
    BY <1>1 DEF Init, Numbers
  <2> QED BY <2>1, <2>2 DEF WindowTypes
<1> QED BY <1>4, <1>5 DEF Types

\* Every step keeps the types.
LEMMA TypesKept ==
    ASSUME Types, [Next]_vars
    PROVE  Types'
<1>1. CASE User
  BY <1>1, UserTypes
<1>2. CASE Reload
  <2>1. reloadDue' \in BOOLEAN /\ UNCHANGED testDiffBox
    BY <1>2 DEF Reload
  <2>2. CASE AskLoad
    BY <2>1, <2>2, AskLoadTypes
  <2>3. CASE UNCHANGED <<backend, link, view, resume, count>>
    <3>1. ProcessTypes'
      BY <2>3, BackendTypes DEF Types
    <3>2. WindowTypes'
      BY <2>1, <2>3 DEF Types, WindowTypes, Flags, Numbers, link, view, resume, count
    <3> QED BY <3>1, <3>2 DEF Types
  <2> QED BY <1>2, <2>2, <2>3 DEF Reload
<1>3. CASE Dispatch
  BY <1>3, DispatchTypes
<1>4. CASE NoticeExit \/ Fate
  BY <1>4, FateTypes
<1>5. CASE Work /\ UNCHANGED gui
  <2>1. ProcessTypes'
    BY <1>5, ThreadsKeepTypes, HandlersKeepTypes DEF Types, Work
  <2>2. WindowTypes'
    BY <1>5 DEF Types, WindowTypes, Flags, Numbers, gui, link, view, resume, dialogs, count
  <2> QED BY <2>1, <2>2 DEF Types
<1>6. CASE UNCHANGED vars
  <2>1. ProcessTypes'
    BY <1>6, BackendTypes DEF Types, vars
  <2>2. WindowTypes'
    BY <1>6 DEF Types, WindowTypes, Flags, Numbers, vars, link, view, resume, dialogs, count
  <2> QED BY <2>1, <2>2 DEF Types
<1> QED BY <1>1, <1>2, <1>3, <1>4, <1>5, <1>6 DEF Next

\* Every queue, thread and flag of the two processes keeps its type, for every number of
\* jobs, matches and losses: among others a signal that names a job always names one that was
\* asked for, also after a process has died or a worker was replaced.
THEOREM ControlTypes == Spec => []TypeOK
<1>1. Types => TypeOK
  <2> SUFFICES ASSUME Types PROVE TypeOK
    OBVIOUS
  <2>1. \A i \in DOMAIN pipe : pipe[i].type \in Commands /\ pipe[i].job \in 0..MaxJobs
    <3> SUFFICES ASSUME NEW i \in DOMAIN pipe
                 PROVE  pipe[i].type \in Commands /\ pipe[i].job \in 0..MaxJobs
      OBVIOUS
    <3>1. pipe[i] \in Lines
      BY LenProperties, ElementOfSeq DEF Types, ProcessTypes
    <3> QED BY <3>1 DEF Lines, Posted
  <2>2. \A i \in DOMAIN inbox :
           \/ inbox[i].type \in Commands \cup {"applyOver"} /\ inbox[i].job \in 0..MaxJobs
           \/ inbox[i].type \in Signals /\ inbox[i].job \in Jobs
    <3> SUFFICES ASSUME NEW i \in DOMAIN inbox
                 PROVE  \/ inbox[i].type \in Commands \cup {"applyOver"} /\ inbox[i].job \in 0..MaxJobs
                        \/ inbox[i].type \in Signals /\ inbox[i].job \in Jobs
      OBVIOUS
    <3>1. inbox[i] \in Posted
      BY LenProperties, ElementOfSeq DEF Types, ProcessTypes
    <3> QED BY <3>1 DEF Posted, NamesJob
  <2>3. \A i \in DOMAIN out : /\ out[i].type \in Events /\ out[i].job \in Jobs
                              /\ out[i].matches \subseteq Jobs \X Matches
    <3> SUFFICES ASSUME NEW i \in DOMAIN out
                 PROVE  /\ out[i].type \in Events /\ out[i].job \in Jobs
                        /\ out[i].matches \subseteq Jobs \X Matches
      OBVIOUS
    <3>1. out[i] \in Written
      BY LenProperties, ElementOfSeq DEF Types, ProcessTypes
    <3> QED BY <3>1 DEF Written
  <2> QED BY <2>1, <2>2, <2>3 DEF Types, ProcessTypes, WindowTypes, Flags, Numbers, WorkerTypes, Workers, TypeOK
<1> QED
  BY <1>1, TypesBegin, TypesKept, PTL DEF Spec

-----------------------------------------------------------------------------
(* Queues: whether q holds a message of S, at most one, and none of T behind  *)
(* one of S.                                                                  *)

Has(q, S)      == \E i \in DOMAIN q : q[i] \in S
One(q, S)      == \A i, k \in DOMAIN q : q[i] \in S /\ q[k] \in S => i = k
Final(q, S, T) == \A i, k \in DOMAIN q : q[i] \in S /\ q[k] \in T => k <= i

\* Of the messages in L, r holds no others than q, those of q and m, or those of q
\* without m, which was its head.
Thins(L, q, r) ==
    \A S \in SUBSET L : /\ Has(r, S) => Has(q, S)
                        /\ One(q, S) => One(r, S)
                        /\ \A T \in SUBSET L : Final(q, S, T) => Final(r, S, T)
Gains(L, q, r, m) ==
    \A S \in SUBSET L : /\ Has(r, S) <=> Has(q, S) \/ m \in S
                        /\ One(q, S) /\ ~(Has(q, S) /\ m \in S) => One(r, S)
                        /\ \A T \in SUBSET L : Final(q, S, T) /\ ~(Has(q, S) /\ m \in T) => Final(r, S, T)
Loses(L, q, r, m) ==
    \A S \in SUBSET L : /\ Has(q, S) <=> Has(r, S) \/ m \in S
                        /\ One(q, S) => One(r, S) /\ ~(Has(r, S) /\ m \in S)
                        /\ \A T \in SUBSET L : Final(q, S, T) => Final(r, S, T) /\ ~(Has(r, T) /\ m \in S)

\* What joining two queues does to the three.
LEMMA Joined ==
    ASSUME NEW M, NEW s \in Seq(M), NEW t \in Seq(M), NEW S, NEW T
    PROVE  /\ Has(s \o t, S) <=> Has(s, S) \/ Has(t, S)
           /\ One(s, S) /\ One(t, S) /\ ~(Has(s, S) /\ Has(t, S)) => One(s \o t, S)
           /\ Final(s, S, T) /\ Final(t, S, T) /\ ~(Has(s, S) /\ Has(t, T)) => Final(s \o t, S, T)
<1> DEFINE u == s \o t
<1>1. /\ Len(s) \in Nat /\ Len(t) \in Nat /\ DOMAIN s = 1..Len(s) /\ DOMAIN t = 1..Len(t)
      /\ DOMAIN u = 1..(Len(s) + Len(t))
      /\ \A i \in 1..(Len(s) + Len(t)) : u[i] = IF i <= Len(s) THEN s[i] ELSE t[i - Len(s)]
  BY ConcatProperties, LenProperties
<1> HIDE DEF u
<1>2. ASSUME NEW i \in DOMAIN u
      PROVE  \/ i \in DOMAIN s /\ u[i] = s[i] /\ i <= Len(s)
             \/ i - Len(s) \in DOMAIN t /\ u[i] = t[i - Len(s)] /\ i > Len(s)
  BY <1>1
<1>3. ASSUME NEW i \in DOMAIN s
      PROVE  i \in DOMAIN u /\ u[i] = s[i]
  BY <1>1
<1>4. ASSUME NEW i \in DOMAIN t
      PROVE  i + Len(s) \in DOMAIN u /\ u[i + Len(s)] = t[i]
  BY <1>1
<1>5. Has(u, S) <=> Has(s, S) \/ Has(t, S)
  BY <1>2, <1>3, <1>4 DEF Has
<1>6. ASSUME One(s, S), One(t, S), ~(Has(s, S) /\ Has(t, S))
      PROVE  One(u, S)
  <2> SUFFICES ASSUME NEW i \in DOMAIN u, NEW k \in DOMAIN u, u[i] \in S, u[k] \in S
               PROVE  i = k
    BY DEF One
  <2>1. i \in Nat /\ k \in Nat
    BY <1>1
  <2> QED
    BY <1>1, <1>2, <1>6, <2>1 DEF One, Has
<1>7. ASSUME Final(s, S, T), Final(t, S, T), ~(Has(s, S) /\ Has(t, T))
      PROVE  Final(u, S, T)
  <2> SUFFICES ASSUME NEW i \in DOMAIN u, NEW k \in DOMAIN u, u[i] \in S, u[k] \in T
               PROVE  k <= i
    BY DEF Final
  <2>1. i \in Nat /\ k \in Nat
    BY <1>1
  <2> QED
    BY <1>1, <1>2, <1>7, <2>1 DEF Final, Has
<1> QED
  BY <1>5, <1>6, <1>7 DEF u

\* What taking the head does to them.
LEMMA Taken ==
    ASSUME NEW M, NEW s \in Seq(M), s # <<>>, NEW S, NEW T
    PROVE  /\ Has(s, S) <=> Has(Tail(s), S) \/ Head(s) \in S
           /\ One(s, S) => One(Tail(s), S) /\ ~(Has(Tail(s), S) /\ Head(s) \in S)
           /\ Final(s, S, T) => Final(Tail(s), S, T) /\ ~(Has(Tail(s), T) /\ Head(s) \in S)
<1> DEFINE u == Tail(s)
<1>1. /\ Len(s) \in Nat /\ Len(s) # 0 /\ DOMAIN s = 1..Len(s) /\ DOMAIN u = 1..(Len(s) - 1)
      /\ Head(s) = s[1] /\ \A i \in 1..(Len(s) - 1) : u[i] = s[i + 1]
  BY HeadTailProperties, LenProperties, EmptySeq
<1> HIDE DEF u
<1>2. ASSUME NEW i \in DOMAIN u
      PROVE  i \in Nat /\ i > 0 /\ i + 1 \in DOMAIN s /\ u[i] = s[i + 1]
  BY <1>1
<1>3. ASSUME NEW i \in DOMAIN s
      PROVE  i \in Nat /\ (i = 1 \/ (i - 1 \in DOMAIN u /\ u[i - 1] = s[i]))
  BY <1>1
<1>4. 1 \in DOMAIN s
  BY <1>1
<1>5. Has(s, S) <=> Has(u, S) \/ Head(s) \in S
  BY <1>1, <1>2, <1>3, <1>4 DEF Has
<1>6. One(s, S) => One(u, S)
  BY <1>2 DEF One
<1>7. One(s, S) => ~(Has(u, S) /\ Head(s) \in S)
  BY <1>1, <1>2, <1>4 DEF One, Has
<1>8. Final(s, S, T) => Final(u, S, T)
  BY <1>2 DEF Final
<1>9. Final(s, S, T) => ~(Has(u, T) /\ Head(s) \in S)
  BY <1>1, <1>2, <1>4 DEF Final, Has
<1> QED
  BY <1>5, <1>6, <1>7, <1>8, <1>9 DEF u

\* What a queue of one message, and an empty one, holds.
LEMMA Alone ==
    ASSUME NEW m, NEW S, NEW T
    PROVE  /\ Has(<<m>>, S) <=> m \in S
           /\ One(<<m>>, S) /\ Final(<<m>>, S, T)
           /\ ~Has(<<>>, S) /\ One(<<>>, S) /\ Final(<<>>, S, T)
  BY DEF Has, One, Final

\* A queue of one message holds what that message is.
LEMMA HasOne == ASSUME NEW m, NEW S PROVE Has(<<m>>, S) <=> m \in S
  BY DEF Has

\* An empty queue holds nothing.
LEMMA HasNone == ASSUME NEW S PROVE ~Has(<<>>, S)
  BY DEF Has

\* A message that joins a queue, perhaps among others that are not of L.
LEMMA GainsOne ==
    ASSUME NEW M, NEW L, NEW q \in Seq(M), NEW pre \in Seq(M), NEW m \in M, NEW post \in Seq(M),
           ~Has(pre, L), ~Has(post, L)
    PROVE  Gains(L, q, q \o pre \o <<m>> \o post, m)
<1> SUFFICES ASSUME NEW S \in SUBSET L, NEW T \in SUBSET L
             PROVE  LET r == q \o pre \o <<m>> \o post IN
                    /\ Has(r, S) <=> Has(q, S) \/ m \in S
                    /\ One(q, S) /\ ~(Has(q, S) /\ m \in S) => One(r, S)
                    /\ Final(q, S, T) /\ ~(Has(q, S) /\ m \in T) => Final(r, S, T)
  BY DEF Gains
<1>1. ~Has(pre, S) /\ ~Has(post, S) /\ ~Has(pre, T) /\ ~Has(post, T)
  BY DEF Has
<1>2. One(pre, S) /\ One(post, S) /\ Final(pre, S, T) /\ Final(post, S, T)
  BY <1>1 DEF Has, One, Final
<1>3. <<m>> \in Seq(M) /\ q \o pre \in Seq(M)
  BY ConcatProperties
<1>4. q \o pre \o <<m>> \in Seq(M)
  BY <1>3, ConcatProperties
<1>5. /\ Has(q \o pre, S) <=> Has(q, S)
      /\ One(q, S) => One(q \o pre, S)
      /\ Final(q, S, T) => Final(q \o pre, S, T)
  BY <1>1, <1>2, Joined
<1>6. /\ Has(<<m>>, S) <=> m \in S
      /\ Has(<<m>>, T) <=> m \in T
      /\ One(<<m>>, S) /\ Final(<<m>>, S, T)
  BY Alone
<1> DEFINE p == q \o pre
<1>7. p \in Seq(M) /\ p \o <<m>> \in Seq(M)
  BY <1>3, <1>4
<1>8. /\ Has(p, S) <=> Has(q, S)
      /\ One(q, S) => One(p, S)
      /\ Final(q, S, T) => Final(p, S, T)
  BY <1>5
<1> HIDE DEF p
<1>9. /\ Has(p \o <<m>>, S) <=> Has(p, S) \/ Has(<<m>>, S)
      /\ One(p, S) /\ One(<<m>>, S) /\ ~(Has(p, S) /\ Has(<<m>>, S)) => One(p \o <<m>>, S)
      /\ Final(p, S, T) /\ Final(<<m>>, S, T) /\ ~(Has(p, S) /\ Has(<<m>>, T))
           => Final(p \o <<m>>, S, T)
  BY <1>3, <1>7, Joined
<1> DEFINE r == p \o <<m>>
<1>10. /\ Has(r \o post, S) <=> Has(r, S) \/ Has(post, S)
       /\ One(r, S) /\ One(post, S) /\ ~(Has(r, S) /\ Has(post, S)) => One(r \o post, S)
       /\ Final(r, S, T) /\ Final(post, S, T) /\ ~(Has(r, S) /\ Has(post, T))
            => Final(r \o post, S, T)
  BY <1>7, Joined
<1> QED
  BY <1>1, <1>2, <1>6, <1>8, <1>9, <1>10 DEF p, r

\* Nothing of L joins the queue.
LEMMA GainsNone ==
    ASSUME NEW M, NEW L, NEW q \in Seq(M), NEW pre \in Seq(M), ~Has(pre, L)
    PROVE  Thins(L, q, q \o pre)
<1> SUFFICES ASSUME NEW S \in SUBSET L, NEW T \in SUBSET L
             PROVE  /\ Has(q \o pre, S) => Has(q, S)
                    /\ One(q, S) => One(q \o pre, S)
                    /\ Final(q, S, T) => Final(q \o pre, S, T)
  BY DEF Thins
<1>1. ~Has(pre, S) /\ ~Has(pre, T)
  BY DEF Has
<1>2. One(pre, S) /\ Final(pre, S, T)
  BY <1>1 DEF Has, One, Final
<1> QED
  BY <1>1, <1>2, Joined

\* The head leaves, and nothing of L joins.
LEMMA LosesHead ==
    ASSUME NEW M, NEW L, NEW q \in Seq(M), q # <<>>, NEW post \in Seq(M), ~Has(post, L)
    PROVE  Loses(L, q, Tail(q) \o post, Head(q)) /\ Loses(L, q, Tail(q), Head(q))
<1> SUFFICES ASSUME NEW S \in SUBSET L, NEW T \in SUBSET L, NEW r \in {Tail(q) \o post, Tail(q)}
             PROVE  /\ Has(q, S) <=> Has(r, S) \/ Head(q) \in S
                    /\ One(q, S) => One(r, S) /\ ~(Has(r, S) /\ Head(q) \in S)
                    /\ Final(q, S, T) => Final(r, S, T) /\ ~(Has(r, T) /\ Head(q) \in S)
  BY DEF Loses
<1>1. ~Has(post, S) /\ ~Has(post, T)
  BY DEF Has
<1>2. One(post, S) /\ Final(post, S, T)
  BY <1>1 DEF Has, One, Final
<1>3. Tail(q) \in Seq(M)
  BY HeadTailProperties
<1> DEFINE t == Tail(q)
<1>4. /\ Has(t \o post, S) <=> Has(t, S) \/ Has(post, S)
      /\ One(t, S) /\ One(post, S) /\ ~(Has(t, S) /\ Has(post, S)) => One(t \o post, S)
      /\ Final(t, S, T) /\ Final(post, S, T) /\ ~(Has(t, S) /\ Has(post, T))
           => Final(t \o post, S, T)
      /\ Has(t \o post, T) <=> Has(t, T) \/ Has(post, T)
  BY <1>3, Joined
<1>5. /\ Has(q, S) <=> Has(t, S) \/ Head(q) \in S
      /\ One(q, S) => One(t, S) /\ ~(Has(t, S) /\ Head(q) \in S)
      /\ Final(q, S, T) => Final(t, S, T) /\ ~(Has(t, T) /\ Head(q) \in S)
  BY Taken
<1> HIDE DEF t
<1>6. r = t \o post \/ r = t
  BY DEF t
<1>7. CASE r = t
  BY <1>5, <1>7
<1>8. CASE r = t \o post
  BY <1>1, <1>2, <1>4, <1>5, <1>8
<1> QED
  BY <1>6, <1>7, <1>8

\* A queue that is left alone, emptied, or that loses its head is thinned.
LEMMA Thinning ==
    ASSUME NEW L, NEW q, NEW r, NEW m
    PROVE  /\ Thins(L, q, q)
           /\ r = <<>> => Thins(L, q, r)
           /\ Loses(L, q, r, m) => Thins(L, q, r)
  BY Alone DEF Thins, Loses

-----------------------------------------------------------------------------
(* What carries the end of a job through the two processes.                   *)

\* The messages that ask for a job; those that end a scan; those that answer a load; and all that
\* bear on whose turn it is.  Of the lines that are written, the ends and the answers do.
Starting == {"START_SCAN", "LOAD_INDEX"}
ScanOver == {"finished", "cancelled", "failed"}
Answers  == {"loadResults", "loadFailed"}
Carrying == Starting \cup ScanOver \cup Answers
Loud     == Carrying \cup {"results", "APPLY_TEST_RESULT", "loadOver"}
Speaking == Ends \cup {"RESULTS_PAGE"}

Of(types, J) == {m \in Posted : m.type \in types /\ m.job \in J}
By(types, J) == {e \in Written : e.type \in types /\ e.job \in J}

Msgs      == {m \in Posted : m.type \in Loud}
Says      == {e \in Written : e.type \in Speaking}
Adoptions == {m \in Posted : m.type = "APPLY_TEST_RESULT"}

Busy(j)    == loads[j] \in {"reading", "answered"}
Runs       == worker.phase \in {"scanning", "reported"}

-----------------------------------------------------------------------------
(* What a step does to it.                                                    *)

WorkerStays  == worker'.phase = worker.phase /\ worker'.job = worker.job
SessionStays == UNCHANGED <<loads, loadThread, applyThread, scanActive>>
WindowStays  == UNCHANGED <<scanning, loading, requests, overlapped, available>>

\* Nothing is said, though something may be lost with the process.
FadeStep ==
    /\ Thins(Msgs, pipe, pipe') /\ Thins(Msgs, inbox, inbox') /\ Thins(Says, out, out')
    /\ \/ WorkerStays /\ UNCHANGED <<loads, loadThread, scanActive>>
       \/ worker' = NoWorker /\ loads' = [j \in Jobs |-> "none"]
    /\ applyThread' = "adopting" => applyThread = "adopting"
    /\ WindowStays

\* A thread posts m.
PostStep(m) ==
    /\ m \in Posted /\ m.job \in Jobs /\ Gains(Msgs, inbox, inbox', m)
    /\ UNCHANGED <<pipe, out, loadThread, applyThread, scanActive>> /\ WindowStays
    /\ \/ /\ m.type = "results" /\ m.job = worker.job /\ worker'.job = worker.job
          /\ worker.phase = "scanning" /\ worker'.phase = "reported" /\ UNCHANGED loads
       \/ /\ m.type \in ScanOver /\ m.job = worker.job /\ worker'.job = worker.job
          /\ Runs /\ worker'.phase = "over" /\ UNCHANGED loads
       \/ /\ m.type \in Answers /\ loads[m.job] = "reading" /\ WorkerStays
          /\ loads' = [loads EXCEPT ![m.job] = "answered"]
       \/ /\ m.type = "loadOver" /\ loads[m.job] = "answered" /\ WorkerStays
          /\ loads' = [loads EXCEPT ![m.job] = "over"]

\* The reader passes m on.
ReadStep(m) ==
    /\ m \in Lines /\ Loses(Msgs, pipe, pipe', m) /\ Gains(Msgs, inbox, inbox', m)
    /\ UNCHANGED out /\ WorkerStays /\ SessionStays /\ WindowStays

\* A scan, a load or an adoption begins to run; a load's end is seen.
HandleStep(m) ==
    /\ m \in Posted /\ Loses(Msgs, inbox, inbox', m)
    /\ UNCHANGED <<pipe, out>> /\ WindowStays
    /\ \/ /\ m.type = "START_SCAN" /\ m.job \in Jobs /\ ~Runs /\ LoadIsOver
          /\ worker'.phase = "scanning" /\ worker'.job = m.job
          /\ scanActive' = TRUE /\ loadThread' = 0 /\ UNCHANGED <<loads, applyThread>>
       \/ /\ m.type = "LOAD_INDEX" /\ m.job \in Jobs
          /\ loads' = [loads EXCEPT ![m.job] = "reading"] /\ loadThread' = m.job
          /\ WorkerStays /\ UNCHANGED <<applyThread, scanActive>>
       \/ /\ m.type = "APPLY_TEST_RESULT" /\ ~Runs /\ loadThread = 0
          /\ worker'.phase = "none" /\ worker'.job = 0
          /\ applyThread' = "adopting" /\ UNCHANGED <<loads, loadThread, scanActive>>
       \/ /\ m.type = "loadOver" /\ m.job \in Jobs /\ loadThread' = 0
          /\ WorkerStays /\ UNCHANGED <<loads, applyThread, scanActive>>

\* A signal m is passed on to the window as e.
TellStep(m, e) ==
    /\ m \in Posted /\ e \in Written /\ e.job = m.job
    /\ Loses(Msgs, inbox, inbox', m) /\ Gains(Says, out, out', e)
    /\ \/ m.type = "results" /\ e.type = "RESULTS_PAGE" /\ UNCHANGED scanActive
       \/ m.type \in ScanOver /\ e.type \in Ends /\ (e.type = "FAILED") = (m.type = "failed")
       \/ m.type = "loadResults" /\ e.type = "RESULTS_PAGE" /\ UNCHANGED scanActive
       \/ m.type = "loadFailed" /\ e.type = "FAILED" /\ UNCHANGED scanActive
    /\ UNCHANGED <<pipe, loads, loadThread, applyThread>> /\ WorkerStays /\ WindowStays

\* The window sends a command that asks for no job.
SendStep(m) ==
    /\ m \in Lines /\ m.type \notin Starting /\ Gains(Msgs, pipe, pipe', m)
    /\ UNCHANGED <<inbox, out>> /\ WorkerStays /\ SessionStays /\ WindowStays

\* No adoption runs or is on its way.
NoAdoption == /\ applyThread # "adopting"
              /\ ~Has(pipe, Adoptions) /\ ~Has(inbox, Adoptions)

\* The window asks for a scan or a load, which is sent unless the process has exited.
AskStep(m) ==
    /\ m \in Lines /\ m.job = requests + 1 /\ requests + 1 \in Jobs
    /\ Gains(Msgs, pipe, pipe', m) \/ UNCHANGED pipe
    /\ requests' = requests + 1
    /\ overlapped => overlapped'
    /\ ~overlapped' => NoAdoption
    /\ \/ /\ m.type = "START_SCAN" /\ (scanning = 0 \/ process = "gone")
          /\ scanning' = requests + 1 /\ UNCHANGED loading /\ (~overlapped' => loading = 0)
       \/ /\ m.type = "LOAD_INDEX" /\ scanning = 0 /\ loading = 0
          /\ loading' = requests + 1 /\ UNCHANGED scanning /\ (~overlapped' => loadThread = 0)
    /\ UNCHANGED <<inbox, out>> /\ WorkerStays /\ SessionStays
    /\ available' = TRUE /\ (available \/ process = "gone")

\* The window takes e.
TakeStep(e) ==
    /\ e \in Written /\ Loses(Says, out, out', e)
    /\ \/ e.type = "FINISHED" /\ scanning' = 0 /\ UNCHANGED loading
       \/ e.type \in {"RESULTS_PAGE", "FAILED"} /\ loading # 0 /\ loading' = 0 /\ UNCHANGED scanning
       \/ e.type = "RESULTS_PAGE" /\ loading = 0 /\ UNCHANGED <<loading, scanning>>
       \/ e.type = "FAILED" /\ loading = 0 /\ scanning' = 0 /\ UNCHANGED loading
    /\ UNCHANGED <<pipe, inbox, requests, overlapped, available>> /\ WorkerStays /\ SessionStays

\* The backend is lost for the window, or a new one is there.
LossStep ==
    /\ ~available'
    /\ Thins(Says, out, out') /\ UNCHANGED <<pipe, inbox>> /\ WorkerStays /\ SessionStays
    /\ UNCHANGED <<requests, overlapped>>
    /\ scanning' \in {0, scanning} /\ loading' \in {0, loading}
BackStep ==
    /\ process = "gone"
    /\ UNCHANGED <<pipe, inbox, out, scanning, loading, requests, overlapped>>
    /\ WorkerStays /\ SessionStays

Shape ==
    \/ FadeStep
    \/ \E m \in Posted : PostStep(m) \/ ReadStep(m) \/ HandleStep(m) \/ SendStep(m) \/ AskStep(m)
    \/ \E m \in Posted, e \in Written : TellStep(m, e)
    \/ \E e \in Written : TakeStep(e)
    \/ LossStep \/ BackStep

\* A job's number is not that of no job.
LEMMA JobsAreNumbers == Jobs \subseteq Nat /\ 0 \notin Jobs
  BY SessionAssumption DEF Jobs

\* The sets of messages that matter are sets of loud ones.
LEMMA LoudSets ==
    ASSUME NEW J
    PROVE  /\ Of(Starting, J) \in SUBSET Msgs /\ Of(Carrying, J) \in SUBSET Msgs
           /\ Of({"results"}, J) \in SUBSET Msgs /\ Of({"LOAD_INDEX"}, J) \in SUBSET Msgs
           /\ Of({"loadOver"}, J) \in SUBSET Msgs /\ Adoptions \in SUBSET Msgs
           /\ Of({"START_SCAN"}, J) \in SUBSET Msgs
           /\ Of({"LOAD_INDEX"} \cup Answers, J) \in SUBSET Msgs
           /\ By(Ends, J) \in SUBSET Says /\ By(Speaking, J) \in SUBSET Says
  BY DEF Of, By, Msgs, Says, Loud, Speaking, Starting, Carrying, Answers, Adoptions

\* A message that is not loud is no news.
LEMMA QuietOne ==
    ASSUME NEW m, m.type \notin Loud
    PROVE  ~Has(<<m>>, Msgs)
  BY HasOne DEF Msgs

\* The messages a stop posts late name no job.
LEMMA QuietStragglers ==
    ASSUME Types
    PROVE  Stragglers \in Seq(Posted) /\ ~Has(Stragglers, Msgs)
<1>1. Stragglers \in Seq(Posted)
  BY StragglersArePosted DEF Types
<1>2. Signal("matchesArrived", worker.job).type \notin Loud
  BY DEF Signal, Loud, Carrying, Starting, ScanOver, Answers
<1>3. ~Has(<<Signal("matchesArrived", worker.job)>>, Msgs)
  BY <1>2, QuietOne
<1> QED
  BY <1>1, <1>3, HasNone DEF Stragglers

\* A thread that posts m, perhaps after the notice of matches.
LEMMA PostGains ==
    ASSUME Types, NEW pre \in {<<>>, Stragglers}, NEW m \in Posted, Post(pre \o <<m>>)
    PROVE  Gains(Msgs, inbox, inbox', m)
<1>0. <<>> \in Seq(Posted) /\ ~Has(<<>>, Msgs)
  BY HasNone
<1>1. pre \in Seq(Posted) /\ ~Has(pre, Msgs) /\ <<>> \in Seq(Posted) /\ ~Has(<<>>, Msgs)
  <2>1. CASE pre = <<>>
    BY <1>0, <2>1
  <2>2. CASE pre = Stragglers
    BY <1>0, <2>2, QuietStragglers
  <2> QED BY <2>1, <2>2
<1>2. inbox \in Seq(Posted) /\ <<m>> \in Seq(Posted)
  BY DEF Types, ProcessTypes
<1>3. Gains(Msgs, inbox, inbox \o pre \o <<m>> \o <<>>, m)
  BY <1>1, <1>2, GainsOne
<1>4. pre \o <<m>> \in Seq(Posted) /\ inbox \o (pre \o <<m>>) = (inbox \o pre) \o <<m>>
  BY <1>1, <1>2, ConcatProperties, ConcatAssociative
<1>5. inbox \o (pre \o <<m>>) \in Seq(Posted)
  BY <1>2, <1>4, ConcatProperties
<1>6. inbox \o pre \o <<m>> \o <<>> = inbox \o (pre \o <<m>>)
  BY <1>4, <1>5, ConcatEmptySeq
<1> QED
  BY <1>3, <1>6 DEF Post

\* A thread posts one message behind the others.
LEMMA PostOne ==
    ASSUME Types, NEW m \in Posted, Post(<<m>>)
    PROVE  Gains(Msgs, inbox, inbox', m)
<1>1. <<m>> \in Seq(Posted)
  OBVIOUS
<1>2. <<>> \o <<m>> = <<m>>
  BY <1>1, ConcatEmptySeq
<1>3. Post(<<>> \o <<m>>)
  BY <1>2
<1> QED
  BY <1>3, PostGains

\* The matches that waited are no news.
Waited == IF worker.pending = {} THEN <<>> ELSE <<Batch(worker.pending, worker.job)>>

\* The batch that waits ends no job.
LEMMA QuietWaited ==
    ASSUME Types
    PROVE  Waited \in Seq(Written) /\ ~Has(Waited, Says)
<1>1. CASE worker.pending = {}
  <2>1. Waited = <<>>
    BY <1>1 DEF Waited
  <2> QED BY <2>1, HasNone
<1>2. CASE worker.pending # {}
  <2>1. Batch(worker.pending, worker.job) \in Written
    BY <1>2 DEF Types, ProcessTypes, WorkerTypes, Workers, Batch, Written, Events
  <2>2. Batch(worker.pending, worker.job) \notin Says
    BY DEF Says, Batch, Speaking, Ends
  <2>3. Waited = <<Batch(worker.pending, worker.job)>>
    BY <1>2 DEF Waited
  <2> QED
    BY <2>1, <2>2, <2>3, HasOne
<1> QED
  BY <1>1, <1>2

\* A handler writes e, after the matches that waited, and before what the window does not count.
LEMMA DrainGains ==
    ASSUME Types, NEW e \in Written, NEW post \in Seq(Written), ~Has(post, Says),
           Drained(<<e>> \o post)
    PROVE  Gains(Says, out, out', e)
<1>1. Waited \in Seq(Written) /\ ~Has(Waited, Says)
  BY QuietWaited
<1>2. out' = out \o Waited \o (<<e>> \o post)
  BY DEF Drained, Waited
<1>3. out \in Seq(Written) /\ <<e>> \in Seq(Written)
  BY DEF Types, ProcessTypes
<1>4. out \o Waited \in Seq(Written)
  BY <1>1, <1>3, ConcatProperties
<1>5. out' = (out \o Waited \o <<e>>) \o post
  BY <1>2, <1>3, <1>4, ConcatAssociative
<1>6. Gains(Says, out, out \o Waited \o <<e>> \o post, e)
  BY <1>1, <1>3, GainsOne
<1> QED
  BY <1>5, <1>6

\* A handler writes the batch that waits and then one line.
LEMMA DrainOne ==
    ASSUME Types, NEW e \in Written, Drained(<<e>>)
    PROVE  Gains(Says, out, out', e)
<1>1. <<e>> \in Seq(Written) /\ <<>> \in Seq(Written) /\ ~Has(<<>>, Says)
  BY HasNone
<1>2. <<e>> \o <<>> = <<e>>
  BY <1>1, ConcatEmptySeq
<1>3. Drained(<<e>> \o <<>>)
  BY <1>2
<1> QED
  BY <1>1, <1>3, DrainGains

\* A handler writes the batch that waits and no more.
LEMMA DrainNone ==
    ASSUME Types, Drained(<<>>)
    PROVE  Thins(Says, out, out')
<1>1. Waited \in Seq(Written) /\ ~Has(Waited, Says)
  BY QuietWaited
<1>2. out' = out \o Waited \o <<>>
  BY DEF Drained, Waited
<1>3. out \in Seq(Written) /\ out \o Waited \in Seq(Written)
  BY <1>1, ConcatProperties DEF Types, ProcessTypes
<1>4. out' = out \o Waited
  BY <1>2, <1>3, ConcatEmptySeq
<1>5. Thins(Says, out, out \o Waited)
  BY <1>1, <1>3, GainsNone
<1> QED
  BY <1>4, <1>5

\* One line is appended.
LEMMA AppendGains ==
    ASSUME NEW M, NEW L, NEW q \in Seq(M), NEW m \in M
    PROVE  Gains(L, q, Append(q, m), m)
<1>1. <<>> \in Seq(M) /\ ~Has(<<>>, L) /\ <<m>> \in Seq(M)
  BY HasNone
<1>2. q \o <<>> = q /\ Append(q, m) = q \o <<m>> /\ Append(q, m) \in Seq(M)
  BY <1>1, ConcatEmptySeq, AppendIsConcat, AppendProperties
<1>3. Append(q, m) \o <<>> = Append(q, m)
  BY <1>2, ConcatEmptySeq
<1>4. q \o <<>> \o <<m>> \o <<>> = Append(q, m)
  BY <1>2, <1>3
<1>5. Gains(L, q, q \o <<>> \o <<m>> \o <<>>, m)
  BY <1>1, GainsOne
<1> QED
  BY <1>4, <1>5

-----------------------------------------------------------------------------
(* Every step has one of these shapes.                                        *)

\* A process that has exited holds nothing, and one that is gone says nothing.
NotUp ==
    /\ process # "up" =>
          /\ pipe = <<>> /\ inbox = <<>> /\ worker = NoWorker
          /\ loads = [j \in Jobs |-> "none"] /\ applyThread = "none"
    /\ process = "gone" => out = <<>> /\ ~available

Sound == Types /\ NotUp

\* A thread or a handler that has nothing loud to say.
LEMMA Fades ==
    ASSUME Thins(Msgs, pipe, pipe'), Thins(Msgs, inbox, inbox'), Thins(Says, out, out'),
           WorkerStays, UNCHANGED <<loads, loadThread, scanActive>>,
           applyThread' = "adopting" => applyThread = "adopting",
           WindowStays
    PROVE  Shape
  BY DEF Shape, FadeStep

\* A process that exits takes its queues and its threads with it.
LEMMA ExitFades ==
    ASSUME Exit, Thins(Says, out, out'), WindowStays
    PROVE  Shape
<1>1. Thins(Msgs, pipe, pipe') /\ Thins(Msgs, inbox, inbox')
  BY Thinning DEF Exit
<1>2. worker' = NoWorker /\ loads' = [j \in Jobs |-> "none"] /\ applyThread' = "none"
  BY DEF Exit
<1> QED
  BY <1>1, <1>2 DEF Shape, FadeStep

\* A step of the process leaves the window as it was.
LEMMA GuiStays ==
    ASSUME UNCHANGED gui
    PROVE  WindowStays
  BY DEF WindowStays, gui, link, view, count

\* A step of a thread has one of the shapes.
LEMMA ThreadShapes ==
    ASSUME Types, UNCHANGED gui,
           FindMatch \/ WorkerReports \/ WorkerFinishes \/ WorkerStops \/ WorkerFails
           \/ LoadRuns \/ ApplyEnds \/ ReadLine
    PROVE  Shape
<1>1. WindowStays
  BY GuiStays
<1>2. /\ inbox \in Seq(Posted) /\ pipe \in Seq(Lines) /\ out \in Seq(Written)
      /\ worker \in Workers /\ loads \in [Jobs -> LoadPhases]
      /\ worker.phase # "none" => worker.job \in Jobs
  BY DEF Types, ProcessTypes, WorkerTypes
<1>3. Stragglers \in Seq(Posted) /\ ~Has(Stragglers, Msgs)
  BY QuietStragglers
<1>4. Thins(Msgs, pipe, pipe) /\ Thins(Msgs, inbox, inbox) /\ Thins(Says, out, out)
  BY Thinning
<1>5. <<>> \in Seq(Posted) /\ ~Has(<<>>, Msgs)
  BY HasNone
<1>6. CASE FindMatch
  <2>1. PICK told \in BOOLEAN :
           Post(IF told THEN <<Signal("matchesArrived", worker.job)>> ELSE <<>>)
    BY <1>6 DEF FindMatch
  <2>2. Signal("matchesArrived", worker.job) \in Posted
    BY <1>2, <1>6, SignalIsPosted DEF FindMatch, Signals
  <2>3. ~Has(<<Signal("matchesArrived", worker.job)>>, Msgs)
    BY QuietOne DEF Signal, Loud, Carrying, Starting, ScanOver, Answers
  <2>4. PICK pre \in Seq(Posted) : ~Has(pre, Msgs) /\ inbox' = inbox \o pre
    <3>1. CASE told
      <4>1. <<Signal("matchesArrived", worker.job)>> \in Seq(Posted)
        BY <2>2
      <4>2. inbox' = inbox \o <<Signal("matchesArrived", worker.job)>>
        BY <2>1, <3>1 DEF Post
      <4> QED BY <2>3, <4>1, <4>2
    <3>2. CASE ~told
      <4>1. inbox' = inbox \o <<>>
        BY <2>1, <3>2 DEF Post
      <4> QED BY <1>5, <4>1
    <3> QED BY <3>1, <3>2
  <2>5. Thins(Msgs, inbox, inbox')
    BY <1>2, <2>4, GainsNone
  <2>6. PICK m \in Matches : worker' = [worker EXCEPT !.found = @ \cup {<<worker.job, m>>},
                                                      !.pending = @ \cup {<<worker.job, m>>}]
    BY <1>6 DEF FindMatch
  <2>7. WorkerStays
    BY <1>2, <2>6 DEF WorkerStays, Workers
  <2> QED
    BY <1>1, <1>4, <1>6, <2>5, <2>7, Fades DEF FindMatch, session
<1>7. ASSUME NEW type \in ScanOver \cup {"results"}, NEW pre \in {<<>>, Stragglers},
             Post(pre \o <<Signal(type, worker.job)>>), worker.phase # "none",
             type \in ScanOver => Runs /\ Step("over"),
             type = "results" => worker.phase = "scanning" /\ Step("reported"),
             UNCHANGED <<pipe, out, loads, applyThread, session>>
      PROVE  Shape
  <2> DEFINE m == Signal(type, worker.job)
  <2>1. m \in Posted /\ m.job = worker.job /\ m.type = type /\ m.job \in Jobs
    BY <1>2, <1>7, SignalIsPosted DEF Signals, Signal, ScanOver
  <2>2. Gains(Msgs, inbox, inbox', m)
    BY <1>7, <2>1, PostGains
  <2>3. worker'.job = worker.job
        /\ (type \in ScanOver => worker'.phase = "over")
        /\ (type = "results" => worker'.phase = "reported")
    BY <1>2, <1>7 DEF Step, Workers
  <2> HIDE DEF m
  <2>4. PostStep(m)
    BY <1>1, <1>7, <2>1, <2>2, <2>3 DEF PostStep, session
  <2> QED BY <2>1, <2>4 DEF Shape
<1>8. CASE WorkerReports
  BY <1>7, <1>8 DEF WorkerReports, ScanOver
<1>9. ASSUME NEW type \in ScanOver, worker.phase # "none", Runs, Step("over"),
             Post(<<Signal(type, worker.job)>>), UNCHANGED <<pipe, out, loads, applyThread, session>>
      PROVE  Shape
  <2>1. Signal(type, worker.job) \in Posted
    BY <1>2, <1>9, SignalIsPosted DEF Signals, ScanOver
  <2>2. <<Signal(type, worker.job)>> \in Seq(Posted)
    BY <2>1
  <2>3. <<>> \o <<Signal(type, worker.job)>> = <<Signal(type, worker.job)>>
    BY <2>2, ConcatEmptySeq
  <2>4. Post(<<>> \o <<Signal(type, worker.job)>>)
    BY <1>9, <2>3
  <2>5. type # "results" /\ type \in ScanOver \cup {"results"}
    BY DEF ScanOver
  <2> QED
    BY <1>7, <1>9, <2>4, <2>5
<1>10. CASE WorkerFinishes
  BY <1>9, <1>10 DEF WorkerFinishes, ScanOver, Runs
<1>11. CASE WorkerStops
  BY <1>7, <1>11 DEF WorkerStops, ScanOver, Runs
<1>12. CASE WorkerFails
  BY <1>7, <1>12 DEF WorkerFails, ScanOver, Runs
<1>13. ASSUME NEW j \in Jobs, LoadAnswers(j)
       PROVE  Shape
  <2>1. PICK answer \in Answers : Post(<<Signal(answer, j)>>)
    BY <1>13 DEF LoadAnswers, Answers
  <2> DEFINE m == Signal(answer, j)
  <2>2. m \in Posted /\ m.job = j /\ m.type = answer
    BY SignalIsPosted DEF Signals, Signal, Answers
  <2>3. Gains(Msgs, inbox, inbox', m)
    BY <2>1, <2>2, PostOne
  <2> HIDE DEF m
  <2>4. PostStep(m)
    BY <1>1, <1>13, <2>2, <2>3 DEF PostStep, LoadAnswers, session, WorkerStays
  <2> QED BY <2>2, <2>4 DEF Shape
<1>14. ASSUME NEW j \in Jobs, LoadEnds(j)
       PROVE  Shape
  <2> DEFINE m == Signal("loadOver", j)
  <2>2. m \in Posted /\ m.job = j /\ m.type = "loadOver"
    BY SignalIsPosted DEF Signals, Signal
  <2>3. Gains(Msgs, inbox, inbox', m)
    BY <1>14, <2>2, PostOne DEF LoadEnds
  <2> HIDE DEF m
  <2>4. PostStep(m)
    BY <1>1, <1>14, <2>2, <2>3 DEF PostStep, LoadEnds, session, WorkerStays
  <2> QED BY <2>2, <2>4 DEF Shape
<1>15. CASE ApplyEnds
  <2>1. <<Signal("applyOver", 0)>> \in Seq(Posted)
    BY ApplyOverIsPosted
  <2>2. ~Has(<<Signal("applyOver", 0)>>, Msgs)
    BY QuietOne DEF Signal, Loud, Carrying, Starting, ScanOver, Answers
  <2>3. Thins(Msgs, inbox, inbox')
    BY <1>2, <1>15, <2>1, <2>2, GainsNone DEF ApplyEnds, Post
  <2> QED
    BY <1>1, <1>4, <1>15, <2>3, Fades DEF ApplyEnds, WorkerStays
<1>16. CASE ReadLine
  <2> DEFINE m == Head(pipe)
  <2>1. m \in Lines /\ Tail(pipe) \in Seq(Lines)
    BY <1>2, <1>16, HeadTailProperties DEF ReadLine
  <2>2. m \in Posted
    BY <2>1 DEF Lines
  <2>3. Gains(Msgs, inbox, inbox', m)
    BY <1>16, <2>2, PostOne DEF ReadLine
  <2>4. <<>> \in Seq(Lines)
    OBVIOUS
  <2>5. Loses(Msgs, pipe, pipe', m)
    BY <1>2, <1>5, <1>16, <2>4, LosesHead DEF ReadLine
  <2> HIDE DEF m
  <2>6. ReadStep(m)
    BY <1>1, <1>16, <2>1, <2>3, <2>5 DEF ReadStep, ReadLine, threads, session, WorkerStays, SessionStays
  <2> QED BY <2>2, <2>6 DEF Shape
<1> QED
  BY <1>6, <1>8, <1>10, <1>11, <1>12, <1>13, <1>14, <1>15, <1>16 DEF LoadRuns

\* A handler takes the head of the queue.
LEMMA TakesLoses ==
    ASSUME Types, NEW type, Takes(type)
    PROVE  /\ Head(inbox) \in Posted /\ Head(inbox).type = type
           /\ type \in NamesJob => Head(inbox).job \in Jobs
           /\ Loses(Msgs, inbox, inbox', Head(inbox)) /\ Thins(Msgs, inbox, inbox')
           /\ Thins(Msgs, pipe, pipe') /\ UNCHANGED pipe /\ Thins(Says, out, out)
<1>1. inbox \in Seq(Posted) /\ inbox # <<>> /\ Head(inbox).type = type /\ inbox' = Tail(inbox)
  BY DEF Types, ProcessTypes, Takes
<1>2. Head(inbox) \in Posted /\ (type \in NamesJob => Head(inbox).job \in Jobs)
  BY <1>1, HeadIsPosted DEF Types
<1>3. <<>> \in Seq(Posted) /\ ~Has(<<>>, Msgs)
  BY HasNone
<1>4. Loses(Msgs, inbox, inbox', Head(inbox))
  BY <1>1, <1>3, LosesHead
<1> QED
  BY <1>1, <1>2, <1>4, Thinning DEF Takes

\* A handler of the session has one of the shapes.
LEMMA HandlerShapes ==
    ASSUME Types, UNCHANGED gui, Handle
    PROVE  Shape
<1>1. WindowStays
  BY GuiStays
<1>2. /\ inbox \in Seq(Posted) /\ pipe \in Seq(Lines) /\ out \in Seq(Written)
      /\ worker \in Workers /\ loads \in [Jobs -> LoadPhases] /\ loadThread \in 0..MaxJobs
  BY DEF Types, ProcessTypes, WorkerTypes
<1> DEFINE m == Head(inbox)
<1>3. CASE HandleStartScan
  <2>1. /\ m \in Posted /\ m.type = "START_SCAN" /\ m.job \in Jobs
        /\ Loses(Msgs, inbox, inbox', m) /\ UNCHANGED pipe
    BY <1>3, TakesLoses DEF HandleStartScan, NamesJob
  <2>2. worker'.phase = "scanning" /\ worker'.job = m.job
    BY <1>3 DEF HandleStartScan, NewWorker, NoWorker
  <2>3. ~Runs
    BY <1>3 DEF HandleStartScan, WorkerIsOver, Runs
  <2> HIDE DEF m
  <2>4. HandleStep(m)
    BY <1>1, <1>3, <2>1, <2>2, <2>3 DEF HandleStep, HandleStartScan
  <2> QED BY <2>1, <2>4 DEF Shape
<1>4. CASE HandleLoad
  <2>1. /\ m \in Posted /\ m.type = "LOAD_INDEX" /\ m.job \in Jobs
        /\ Loses(Msgs, inbox, inbox', m) /\ UNCHANGED pipe
    BY <1>4, TakesLoses DEF HandleLoad, NamesJob
  <2>2. /\ loadThread' = m.job /\ loads' = [loads EXCEPT ![m.job] = "reading"]
        /\ UNCHANGED <<out, worker, scanActive, applyThread>>
    BY <1>4 DEF HandleLoad
  <2> HIDE DEF m
  <2>3. HandleStep(m)
    BY <1>1, <2>1, <2>2 DEF HandleStep, WorkerStays
  <2> QED BY <2>1, <2>3 DEF Shape
<1>5. CASE HandleApply
  <2>1. /\ m \in Posted /\ m.type = "APPLY_TEST_RESULT"
        /\ Loses(Msgs, inbox, inbox', m) /\ Thins(Msgs, inbox, inbox') /\ UNCHANGED pipe
        /\ Thins(Msgs, pipe, pipe') /\ Thins(Says, out, out)
    BY <1>5, TakesLoses DEF HandleApply
  <2>2. CASE UNCHANGED <<out, threads, session>>
    BY <1>1, <2>1, <2>2, Fades DEF threads, session, WorkerStays
  <2>3. CASE /\ MayApply /\ WorkerIsOver /\ worker' = NoWorker /\ applyThread' = "adopting"
             /\ UNCHANGED <<out, loads, session>>
    <3>1. ~Runs /\ loadThread = 0 /\ worker'.phase = "none" /\ worker'.job = 0
      BY <2>3 DEF WorkerIsOver, Runs, MayApply, NoWorker
    <3> HIDE DEF m
    <3>2. HandleStep(m)
      BY <1>1, <2>1, <2>3, <3>1 DEF HandleStep, session
    <3> QED BY <2>1, <3>2 DEF Shape
  <2> QED BY <1>5, <2>2, <2>3 DEF HandleApply
<1>6. CASE HandlePause
  <2>1. /\ Thins(Msgs, inbox, inbox') /\ Thins(Msgs, pipe, pipe') /\ Thins(Says, out, out)
    BY <1>6, TakesLoses DEF HandlePause
  <2>2. CASE UNCHANGED <<out, worker>>
    BY <1>1, <1>6, <2>1, <2>2, Fades DEF HandlePause, session, WorkerStays
  <2>3. CASE worker' = [worker EXCEPT !.paused = TRUE, !.pending = {}] /\ Drained(<<>>)
    <3>1. WorkerStays
      BY <1>2, <2>3 DEF Workers, WorkerStays
    <3>2. Thins(Says, out, out')
      BY <2>3, DrainNone
    <3> QED BY <1>1, <1>6, <2>1, <3>1, <3>2, Fades DEF HandlePause, session
  <2> QED BY <1>6, <2>2, <2>3 DEF HandlePause
<1>7. CASE HandleResume \/ HandleCancel
  <2>1. /\ Thins(Msgs, inbox, inbox') /\ Thins(Msgs, pipe, pipe') /\ Thins(Says, out, out)
    BY <1>7, TakesLoses DEF HandleResume, HandleCancel
  <2>2. WorkerStays
    BY <1>2, <1>7 DEF HandleResume, HandleCancel, Flag, Workers, WorkerStays
  <2> QED BY <1>1, <1>7, <2>1, <2>2, Fades DEF HandleResume, HandleCancel, session
<1>8. CASE HandleMatches
  <2>1. /\ Thins(Msgs, inbox, inbox') /\ Thins(Msgs, pipe, pipe')
    BY <1>8, TakesLoses DEF HandleMatches
  <2>2. WorkerStays
    BY <1>2, <1>8 DEF HandleMatches, Drain, Workers, WorkerStays
  <2>3. Thins(Says, out, out')
    BY <1>8, DrainNone DEF HandleMatches
  <2> QED BY <1>1, <1>8, <2>1, <2>2, <2>3, Fades DEF HandleMatches, session
<1>9. ASSUME NEW type \in ScanOver \cup {"results"}, Takes(type)
      PROVE  /\ m \in Posted /\ m.type = type /\ m.job \in Jobs
             /\ Loses(Msgs, inbox, inbox', m) /\ UNCHANGED pipe
  BY <1>9, TakesLoses DEF NamesJob, Signals, ScanOver
<1>10. CASE HandleResults
  <2> DEFINE e == Event("RESULTS_PAGE", m.job)
  <2>1. /\ m \in Posted /\ m.type = "results" /\ m.job \in Jobs
        /\ Loses(Msgs, inbox, inbox', m) /\ UNCHANGED pipe
    BY <1>9, <1>10 DEF HandleResults
  <2>2. e \in Written /\ e.type = "RESULTS_PAGE" /\ e.job = m.job
    BY <2>1, EventIsWritten DEF Event, Events
  <2>3. Gains(Says, out, out', e)
    BY <1>10, <2>2, DrainOne DEF HandleResults
  <2>4. WorkerStays
    BY <1>2, <1>10 DEF HandleResults, Drain, Workers, WorkerStays
  <2> HIDE DEF m, e
  <2>5. TellStep(m, e)
    BY <1>1, <1>10, <2>1, <2>2, <2>3, <2>4 DEF TellStep, HandleResults, session
  <2> QED BY <2>1, <2>2, <2>5 DEF Shape
<1>11. CASE HandleFinished
  <2> DEFINE e == Event("FINISHED", m.job)
             d == Event("TEST_DIFF", m.job)
  <2>1. /\ m \in Posted /\ m.type = "finished" /\ m.job \in Jobs
        /\ Loses(Msgs, inbox, inbox', m) /\ UNCHANGED pipe
    BY <1>9, <1>11 DEF HandleFinished, ScanOver
  <2>2. e \in Written /\ e.type = "FINISHED" /\ e.job = m.job
    BY <2>1, EventIsWritten DEF Event, Events
  <2>3. d \in Written /\ d.type = "TEST_DIFF"
    BY <2>1, EventIsWritten DEF Event, Events
  <2>4. PICK differs \in BOOLEAN : Drained(<<e>> \o IF differs THEN <<d>> ELSE <<>>)
    BY <1>11 DEF HandleFinished
  <2>5. WorkerStays
    BY <1>2, <1>11 DEF HandleFinished, Drain, Workers, WorkerStays
  <2> HIDE DEF e, d
  <2>6. <<d>> \in Seq(Written) /\ ~Has(<<d>>, Says) /\ <<>> \in Seq(Written) /\ ~Has(<<>>, Says)
    BY <2>3, HasOne, HasNone DEF Says, Speaking, Ends
  <2>7. Gains(Says, out, out', e)
    <3>1. CASE differs
      BY <2>2, <2>4, <2>6, <3>1, DrainGains
    <3>2. CASE ~differs
      BY <2>2, <2>4, <2>6, <3>2, DrainGains
    <3> QED BY <3>1, <3>2
  <2> HIDE DEF m
  <2>8. TellStep(m, e)
    BY <1>1, <1>11, <2>1, <2>2, <2>5, <2>7 DEF TellStep, HandleFinished, ScanOver, Ends
  <2> QED BY <2>1, <2>2, <2>8 DEF Shape
<1>12. CASE HandleCancelled
  <2> DEFINE e == Event("FINISHED", m.job)
  <2>1. /\ m \in Posted /\ m.type = "cancelled" /\ m.job \in Jobs
        /\ Loses(Msgs, inbox, inbox', m) /\ UNCHANGED pipe
    BY <1>9, <1>12 DEF HandleCancelled, ScanOver
  <2>2. e \in Written /\ e.type = "FINISHED" /\ e.job = m.job
    BY <2>1, EventIsWritten DEF Event, Events
  <2>3. Gains(Says, out, out', e)
    BY <1>12, <2>2, DrainOne DEF HandleCancelled
  <2>4. WorkerStays
    BY <1>2, <1>12 DEF HandleCancelled, Drain, Workers, WorkerStays
  <2> HIDE DEF m, e
  <2>5. TellStep(m, e)
    BY <1>1, <1>12, <2>1, <2>2, <2>3, <2>4 DEF TellStep, HandleCancelled, ScanOver, Ends
  <2> QED BY <2>1, <2>2, <2>5 DEF Shape
<1>13. CASE HandleFailed
  <2> DEFINE e == Event("FAILED", m.job)
  <2>1. /\ m \in Posted /\ m.type = "failed" /\ m.job \in Jobs
        /\ Loses(Msgs, inbox, inbox', m) /\ UNCHANGED pipe
    BY <1>9, <1>13 DEF HandleFailed, ScanOver
  <2>2. e \in Written /\ e.type = "FAILED" /\ e.job = m.job
    BY <2>1, EventIsWritten DEF Event, Events
  <2>3. Gains(Says, out, out', e)
    BY <1>13, <2>2, DrainOne DEF HandleFailed
  <2>4. WorkerStays
    BY <1>2, <1>13 DEF HandleFailed, Drain, Workers, WorkerStays
  <2> HIDE DEF m, e
  <2>5. TellStep(m, e)
    BY <1>1, <1>13, <2>1, <2>2, <2>3, <2>4 DEF TellStep, HandleFailed, ScanOver, Ends
  <2> QED BY <2>1, <2>2, <2>5 DEF Shape
<1>14. ASSUME NEW type \in Answers, NEW said \in {"RESULTS_PAGE", "FAILED"},
              type = "loadResults" <=> said = "RESULTS_PAGE",
              Takes(type), out' = Append(out, Event(said, m.job)), UNCHANGED <<threads, session>>
       PROVE  Shape
  <2> DEFINE e == Event(said, m.job)
  <2>1. /\ m \in Posted /\ m.type = type /\ m.job \in Jobs
        /\ Loses(Msgs, inbox, inbox', m) /\ UNCHANGED pipe
    BY <1>14, TakesLoses DEF NamesJob, Signals, Answers
  <2>2. e \in Written /\ e.type = said /\ e.job = m.job
    BY <2>1, EventIsWritten DEF Event, Events
  <2>3. Gains(Says, out, out', e)
    BY <1>14, <2>2, AppendGains DEF Types, ProcessTypes
  <2> HIDE DEF m, e
  <2>4. TellStep(m, e)
    BY <1>1, <1>14, <2>1, <2>2, <2>3 DEF TellStep, threads, session, Answers, WorkerStays
  <2> QED BY <2>1, <2>2, <2>4 DEF Shape
<1>15. CASE HandleLoadAnswer
  <2>1. "loadResults" \in Answers /\ "loadFailed" \in Answers
    BY DEF Answers
  <2> QED BY <1>14, <1>15, <2>1 DEF HandleLoadAnswer
<1>16. CASE HandleLoadOver
  <2>1. /\ inbox # <<>> /\ m.type = "loadOver" /\ inbox' = Tail(inbox) \o Deletion(m.job)
        /\ loadThread' = 0 /\ UNCHANGED <<pipe, out, threads, scanActive>>
    BY <1>16 DEF HandleLoadOver
  <2>2. m \in Posted /\ m.job \in Jobs
    BY <2>1, HeadIsPosted DEF Types, NamesJob, Signals
  <2>3. Deletion(m.job) \in Seq(Posted) /\ ~Has(Deletion(m.job), Msgs)
    <3>1. CASE loadThread \in {0, m.job}
      <4>1. Deletion(m.job) = <<>>
        BY <3>1 DEF Deletion
      <4>2. <<>> \in Seq(Posted) /\ ~Has(<<>>, Msgs)
        BY HasNone
      <4> QED BY <4>1, <4>2
    <3>2. CASE loadThread \notin {0, m.job}
      <4>0. loadThread \in Jobs
        BY <1>2, <3>2, SessionAssumption DEF Jobs
      <4>1. Signal("deleteThread", loadThread) \in Posted
        BY <4>0, SignalIsPosted DEF Signals
      <4>2. ~Has(<<Signal("deleteThread", loadThread)>>, Msgs)
        BY QuietOne DEF Signal, Loud, Carrying, Starting, ScanOver, Answers
      <4>3. <<Signal("deleteThread", loadThread)>> \in Seq(Posted)
        BY <4>1
      <4> QED BY <3>2, <4>2, <4>3 DEF Deletion
    <3> QED BY <3>1, <3>2
  <2>4. Loses(Msgs, inbox, inbox', m)
    BY <1>2, <2>1, <2>3, LosesHead
  <2> HIDE DEF m
  <2>5. HandleStep(m)
    BY <1>1, <2>1, <2>2, <2>4 DEF HandleStep, threads, WorkerStays
  <2> QED BY <2>2, <2>5 DEF Shape
<1>17. CASE HandleDelete
  <2>1. inbox # <<>> /\ UNCHANGED out
    BY <1>17 DEF HandleDelete
  <2>2. Thins(Says, out, out')
    BY <2>1, Thinning
  <2>3. CASE Exit
    BY <1>1, <2>2, <2>3, ExitFades
  <2>4. CASE inbox' = Tail(inbox) /\ UNCHANGED <<process, pipe, threads, session>>
    <3>1. <<>> \in Seq(Posted) /\ ~Has(<<>>, Msgs)
      BY HasNone
    <3>2. Loses(Msgs, inbox, inbox', Head(inbox))
      BY <1>2, <2>1, <2>4, <3>1, LosesHead
    <3>3. Thins(Msgs, inbox, inbox') /\ Thins(Msgs, pipe, pipe')
      BY <2>4, <3>2, Thinning
    <3> QED BY <1>1, <2>2, <2>4, <3>3, Fades DEF threads, session, WorkerStays
  <2> QED BY <1>17, <2>3, <2>4 DEF HandleDelete
<1>18. CASE HandleApplyOver
  <2>1. /\ Thins(Msgs, inbox, inbox') /\ Thins(Msgs, pipe, pipe') /\ Thins(Says, out, out)
    BY <1>18, TakesLoses DEF HandleApplyOver
  <2> QED BY <1>1, <1>18, <2>1, Fades DEF HandleApplyOver, session, WorkerStays
<1> QED
  BY <1>3, <1>4, <1>5, <1>6, <1>7, <1>8, <1>10, <1>11, <1>12, <1>13, <1>15, <1>16, <1>17, <1>18
     DEF Handle

\* A process that is left alone.
LEMMA Untouched ==
    ASSUME UNCHANGED backend
    PROVE  /\ Thins(Msgs, pipe, pipe') /\ Thins(Msgs, inbox, inbox') /\ Thins(Says, out, out')
           /\ WorkerStays /\ SessionStays
  BY Thinning DEF backend, queues, threads, session, WorkerStays, SessionStays

\* The window sends a command for the worker there is, or for an adoption.
LEMMA SendShapes ==
    ASSUME Types, NEW type \in Commands \ Starting, NEW test \in BOOLEAN,
           Send(Command(type, 0, test)), UNCHANGED sent, WindowStays
    PROVE  Shape
<1> DEFINE m == Command(type, 0, test)
<1>1. m \in Lines /\ m.type = type
  <2>1. 0 \in 0..MaxJobs
    BY SessionAssumption
  <2> QED BY <2>1, CommandIsLine DEF Command, Starting
<1>2. m \in Posted
  BY <1>1 DEF Lines
<1>3. CASE process = "up"
  <2>1. Gains(Msgs, pipe, pipe', m)
    BY <1>1, <1>3, AppendGains DEF Send, Types, ProcessTypes
  <2> HIDE DEF m
  <2>2. SendStep(m)
    BY <1>1, <2>1 DEF SendStep, sent, threads, session, WorkerStays, SessionStays
  <2> QED BY <1>2, <2>2 DEF Shape
<1>4. CASE process # "up"
  <2>1. UNCHANGED backend
    BY <1>4 DEF Send, backend, sent, queues
  <2> QED BY <2>1, Untouched, Fades DEF SessionStays
<1> QED
  BY <1>3, <1>4

\* No adoption is under way where none is counted.
LEMMA NotAdopting ==
    ASSUME ~Adopting
    PROVE  NoAdoption
  BY DEF Adopting, NoAdoption, Has, Adoptions

\* The window asks for a scan or a load, and sends for it.
LEMMA AskShapes ==
    ASSUME Types, NEW type \in Starting, NEW test \in BOOLEAN, Room,
           LET m == Command(type, requests + 1, test)
           IN Send(m) \/ (pipe = <<>> /\ pipe' = <<m>>),
           UNCHANGED <<inbox, out>>, WorkerStays, SessionStays,
           requests' = requests + 1, available' = TRUE, available \/ process = "gone",
           overlapped => overlapped', ~overlapped' => ~Adopting,
           \/ /\ type = "START_SCAN" /\ (scanning = 0 \/ process = "gone")
              /\ scanning' = requests + 1 /\ UNCHANGED loading /\ (~overlapped' => loading = 0)
           \/ /\ type = "LOAD_INDEX" /\ scanning = 0 /\ loading = 0
              /\ loading' = requests + 1 /\ UNCHANGED scanning /\ (~overlapped' => loadThread = 0)
    PROVE  Shape
<1> DEFINE m == Command(type, requests + 1, test)
<1>1. requests + 1 \in Jobs /\ requests + 1 \in 0..MaxJobs
  BY NextJob DEF Types
<1>2. m \in Lines /\ m.type = type /\ m.job = requests + 1
  BY <1>1, CommandIsLine DEF Command, Starting, Commands
<1>3. m \in Posted
  BY <1>2 DEF Lines
<1>4. Gains(Msgs, pipe, pipe', m) \/ UNCHANGED pipe
  <2>1. CASE Send(m)
    BY <1>2, <2>1, AppendGains DEF Send, Types, ProcessTypes
  <2>2. CASE pipe = <<>> /\ pipe' = <<m>>
    <3>1. <<>> \in Seq(Lines) /\ <<m>> = Append(<<>>, m)
      BY <1>2
    <3> QED BY <1>2, <2>2, <3>1, AppendGains
  <2> QED BY <2>1, <2>2
<1>5. ~overlapped' => NoAdoption
  BY NotAdopting
<1> HIDE DEF m
<1>6. AskStep(m)
  BY <1>1, <1>2, <1>4, <1>5 DEF AskStep
<1> QED
  BY <1>3, <1>6 DEF Shape

\* A step of the window that sends nothing has one of the shapes.
LEMMA UntouchedFades ==
    ASSUME UNCHANGED backend, WindowStays
    PROVE  Shape
  BY Untouched, Fades DEF SessionStays

\* A load is asked for of a process that runs, or it is not asked for.
LEMMA AskLoadShapes ==
    ASSUME Types, Idle, AskLoad
    PROVE  Shape
<1>1. CASE available
  <2>1. /\ Room /\ requests' = requests + 1 /\ loading' = requests + 1
        /\ overlapped' = (overlapped \/ loadThread # 0 \/ Adopting)
        /\ Send(Command("LOAD_INDEX", requests + 1, FALSE))
        /\ UNCHANGED <<sent, link, scanning>>
    BY <1>1 DEF AskLoad
  <2>2. UNCHANGED <<inbox, out>> /\ WorkerStays /\ SessionStays /\ available' = TRUE
    BY <1>1, <2>1 DEF sent, threads, session, link, WorkerStays, SessionStays
  <2>3. overlapped \in BOOLEAN /\ scanning = 0 /\ loading = 0
    BY DEF Types, WindowTypes, Flags, Idle
  <2>4. /\ overlapped => overlapped'
        /\ ~overlapped' => ~Adopting /\ loadThread = 0
    BY <2>1
  <2>5. "LOAD_INDEX" \in Starting
    BY DEF Starting
  <2> QED BY <1>1, <2>1, <2>2, <2>3, <2>4, <2>5, AskShapes
<1>2. CASE ~available
  <2>1. UNCHANGED backend /\ WindowStays
    BY <1>2 DEF AskLoad, backend, sent, queues, WindowStays, link
  <2> QED BY <2>1, UntouchedFades
<1> QED
  BY <1>1, <1>2 DEF Types, WindowTypes, Flags

\* What the user does has one of the shapes.
LEMMA UserShapes ==
    ASSUME Types, User \/ Reload
    PROVE  Shape
<1>1. ASSUME NEW test \in BOOLEAN, StartScan(test)
      PROVE  Shape
  <2>1. CASE /\ MayBegin /\ Room /\ Begin(test)
             /\ Send(Command("START_SCAN", requests + 1, test))
    <3>1. UNCHANGED <<inbox, out>> /\ WorkerStays /\ SessionStays /\ available' = TRUE /\ UNCHANGED loading
      BY <1>1, <2>1 DEF StartScan, sent, threads, session, WorkerStays, SessionStays, MayBegin
    <3>2. /\ requests' = requests + 1 /\ scanning' = requests + 1 /\ scanning = 0 /\ available
          /\ overlapped' = (overlapped \/ loading # 0 \/ Adopting)
      BY <2>1 DEF Begin, MayBegin
    <3>3. /\ overlapped => overlapped'
          /\ ~overlapped' => ~Adopting /\ loading = 0
      BY <3>2
    <3>4. "START_SCAN" \in Starting
      BY DEF Starting
    <3> QED BY <2>1, <3>1, <3>2, <3>3, <3>4, AskShapes
  <2>2. CASE UNCHANGED <<pipe, scanOwed, scanning, paused, cancelWait, got, lastTest, requests,
                         overlapped>>
    <3>1. UNCHANGED backend /\ WindowStays
      BY <1>1, <2>2 DEF StartScan, backend, sent, queues, WindowStays
    <3> QED BY <3>1, UntouchedFades
  <2> QED BY <1>1, <2>1, <2>2 DEF StartScan
<1>2. CASE LoadIndex
  BY <1>2, AskLoadShapes DEF LoadIndex
<1>3. CASE TogglePauseScan
  <2>1. WindowStays /\ UNCHANGED sent
    BY <1>3 DEF TogglePauseScan, WindowStays, link, count
  <2>2. PICK type \in {"PAUSE", "RESUME"} : Send(Command(type, 0, FALSE))
    BY <1>3 DEF TogglePauseScan
  <2>3. type \in Commands \ Starting
    BY DEF Commands, Starting
  <2> QED BY <2>1, <2>2, <2>3, SendShapes
<1>4. CASE CancelScan
  <2>1. WindowStays /\ UNCHANGED sent /\ Send(Command("CANCEL", 0, FALSE))
    BY <1>4 DEF CancelScan, WindowStays, link, count
  <2>2. "CANCEL" \in Commands \ Starting
    BY DEF Commands, Starting
  <2> QED BY <2>1, <2>2, SendShapes
<1>5. CASE AnswerTestDiff
  <2>1. WindowStays /\ UNCHANGED sent
    BY <1>5 DEF AnswerTestDiff, WindowStays, link, view, count
  <2>2. "APPLY_TEST_RESULT" \in Commands \ Starting
    BY DEF Commands, Starting
  <2>3. CASE Send(Command("APPLY_TEST_RESULT", 0, FALSE))
    BY <2>1, <2>2, <2>3, SendShapes
  <2>4. CASE UNCHANGED pipe
    <3>1. UNCHANGED backend
      BY <2>1, <2>4 DEF backend, sent, queues
    <3> QED BY <2>1, <3>1, UntouchedFades
  <2> QED BY <1>5, <2>3, <2>4 DEF AnswerTestDiff
<1>6. CASE Reload
  <2>1. CASE Idle /\ AskLoad
    BY <2>1, AskLoadShapes
  <2>2. CASE UNCHANGED <<backend, link, view, resume, count>>
    <3>1. UNCHANGED backend /\ WindowStays
      BY <2>2 DEF WindowStays, link, view, count
    <3> QED BY <3>1, UntouchedFades
  <2> QED BY <1>6, <2>1, <2>2 DEF Reload
<1> QED
  BY <1>1, <1>2, <1>3, <1>4, <1>5, <1>6 DEF User

\* A line the supervisor reads has one of the shapes.
LEMMA DispatchShapes ==
    ASSUME Types, Dispatch
    PROVE  Shape
<1> DEFINE e == Head(out)
<1>1. /\ out # <<>> /\ out' = Tail(out)
      /\ OnMatches(e) \/ OnResults(e) \/ OnFinished(e) \/ OnFailed(e) \/ OnTestDiff(e)
      /\ UNCHANGED <<pipe, inbox, requests, overlapped>> /\ WorkerStays /\ SessionStays
  BY DEF Dispatch, threads, session, count, WorkerStays, SessionStays
<1>2. e \in Written
  BY <1>1, HeadTailProperties DEF Types, ProcessTypes
<1>3. <<>> \in Seq(Written) /\ ~Has(<<>>, Says)
  BY HasNone
<1>4. Loses(Says, out, out', e)
  BY <1>1, <1>3, LosesHead DEF Types, ProcessTypes
<1>5. Thins(Says, out, out') /\ Thins(Msgs, pipe, pipe') /\ Thins(Msgs, inbox, inbox')
  BY <1>1, <1>4, Thinning
<1>6. CASE OnMatches(e) \/ OnTestDiff(e)
  <2>1. WindowStays
    BY <1>1, <1>6 DEF OnMatches, OnTestDiff, WindowStays, link, view
  <2> QED BY <1>1, <1>5, <2>1, Fades DEF SessionStays
<1>7. CASE OnResults(e) \/ OnFinished(e) \/ OnFailed(e)
  <2>1. UNCHANGED available
    BY <1>7 DEF OnResults, OnFinished, OnFailed, link
  <2>2. \/ e.type = "FINISHED" /\ scanning' = 0 /\ UNCHANGED loading
        \/ e.type \in {"RESULTS_PAGE", "FAILED"} /\ loading # 0 /\ loading' = 0 /\ UNCHANGED scanning
        \/ e.type = "RESULTS_PAGE" /\ loading = 0 /\ UNCHANGED <<loading, scanning>>
        \/ e.type = "FAILED" /\ loading = 0 /\ scanning' = 0 /\ UNCHANGED loading
    BY <1>7 DEF OnResults, OnFinished, OnFailed, LoadFailed, ScanFailed, NotRunning
  <2> HIDE DEF e
  <2>3. TakeStep(e)
    BY <1>1, <1>2, <1>4, <2>1, <2>2 DEF TakeStep
  <2> QED BY <1>2, <2>3 DEF Shape
<1> QED
  BY <1>1, <1>6, <1>7

\* The loss of a scan begins none.
LEMMA LostStays ==
    ASSUME ScanLost
    PROVE  scanning' \in {0, scanning} /\ loading' \in {0, loading}
  BY DEF ScanLost, LoadFailed, ScanFailed, NotRunning

\* The loss of the process has one of the shapes.
LEMMA FateShapes ==
    ASSUME Sound, NoticeExit \/ Fate
    PROVE  Shape
<1>0. Types
  BY DEF Sound
<1>1. CASE NoticeExit
  <2>1. /\ Thins(Says, out, out') /\ UNCHANGED <<pipe, inbox, requests, overlapped>>
        /\ WorkerStays /\ SessionStays /\ ~available' /\ ScanLost
    BY <1>1, Thinning DEF NoticeExit, threads, session, kept, WorkerStays, SessionStays
  <2> QED BY <2>1, LostStays DEF Shape, LossStep
<1>2. CASE WatchdogLoss
  <2>1. UNCHANGED backend /\ UNCHANGED <<requests, overlapped>> /\ ~available' /\ ScanLost
    BY <1>2 DEF WatchdogLoss, kept
  <2>2. UNCHANGED <<pipe, inbox, out>>
    BY <2>1 DEF backend, queues
  <2> QED BY <2>1, <2>2, LostStays, Untouched DEF Shape, LossStep
<1>3. CASE Die
  <2>1. Exit /\ UNCHANGED out /\ WindowStays
    BY <1>3 DEF Die, link, view, WindowStays
  <2> QED BY <2>1, ExitFades, Thinning
<1>4. CASE Return
  <2>1. /\ process = "gone" /\ available' = TRUE /\ UNCHANGED <<inbox, out, loading>>
        /\ WorkerStays /\ SessionStays
    BY <1>4 DEF Return, threads, session, WorkerStays, SessionStays
  <2>2. CASE scanCrashed /\ autoResumeTries < 1
    <3>1. /\ Room /\ Begin(lastTest) /\ pipe' = <<Command("START_SCAN", requests + 1, lastTest)>>
      BY <1>4, <2>2 DEF Return
    <3>2. pipe = <<>> /\ lastTest \in BOOLEAN
      BY <1>0, <2>1 DEF Sound, NotUp, Types, WindowTypes, Flags
    <3>3. /\ requests' = requests + 1 /\ scanning' = requests + 1
          /\ overlapped' = (overlapped \/ loading # 0 \/ Adopting)
      BY <3>1 DEF Begin
    <3>4. /\ overlapped => overlapped'
          /\ ~overlapped' => ~Adopting /\ loading = 0
      BY <3>3
    <3>5. "START_SCAN" \in Starting
      BY DEF Starting
    <3> QED BY <1>0, <2>1, <3>1, <3>2, <3>3, <3>4, <3>5, AskShapes
  <2>3. CASE ~(scanCrashed /\ autoResumeTries < 1)
    <3>1. UNCHANGED <<pipe, scanning, requests, overlapped>>
      BY <1>4, <2>3 DEF Return
    <3> QED BY <2>1, <3>1 DEF Shape, BackStep
  <2> QED BY <2>2, <2>3
<1> QED
  BY <1>1, <1>2, <1>3, <1>4 DEF Fate

\* Every step has one of the shapes.
LEMMA Shapes ==
    ASSUME Sound, [Next]_vars
    PROVE  Shape
<1>0. Types
  BY DEF Sound
<1>1. CASE User \/ Reload
  BY <1>0, <1>1, UserShapes
<1>2. CASE Dispatch
  BY <1>0, <1>2, DispatchShapes
<1>3. CASE NoticeExit \/ Fate
  BY <1>3, FateShapes
<1>4. CASE Work /\ UNCHANGED gui
  BY <1>0, <1>4, ThreadShapes, HandlerShapes DEF Work
<1>5. CASE UNCHANGED vars
  <2>1. UNCHANGED backend /\ WindowStays
    BY <1>5 DEF vars, WindowStays, link, view, count
  <2> QED BY <2>1, UntouchedFades
<1> QED
  BY <1>1, <1>2, <1>3, <1>4, <1>5 DEF Next

\* A process that has exited stays empty until a new one takes its place.
LEMMA NotUpKept ==
    ASSUME NotUp, [Next]_vars
    PROVE  NotUp'
<1>1. CASE User \/ Reload \/ UNCHANGED vars
  <2>1. /\ UNCHANGED <<process, inbox, out, available>> /\ UNCHANGED threads
        /\ process # "up" => UNCHANGED pipe
    BY <1>1 DEF User, Reload, StartScan, LoadIndex, TogglePauseScan, CancelScan, AnswerTestDiff,
                AskLoad, Send, sent, backend, queues, vars, link, Begin
  <2> QED BY <2>1 DEF NotUp, threads
<1>2. CASE Dispatch
  BY <1>2 DEF Dispatch, NotUp, threads
<1>3. ASSUME Exit
      PROVE  NotUp'
  BY <1>3 DEF Exit, NotUp
<1>4. CASE Work
  <2>1. process = "up" /\ (UNCHANGED process \/ Exit)
    BY <1>4 DEF Work, FindMatch, WorkerReports, WorkerFinishes, WorkerStops, WorkerFails, LoadRuns,
                LoadAnswers, LoadEnds, ApplyEnds, ReadLine, Handle, HandleStartScan, HandleLoad,
                HandleApply, HandlePause, HandleResume, HandleCancel, HandleMatches,
                HandleResults, HandleFinished, HandleCancelled, HandleFailed, HandleLoadAnswer,
                HandleLoadOver, HandleDelete, HandleApplyOver, Takes
  <2> QED BY <1>3, <2>1 DEF NotUp
<1>5. CASE NoticeExit
  BY <1>5 DEF NoticeExit, NotUp, threads
<1>6. CASE Fate
  <2>1. CASE Die
    BY <1>3, <2>1 DEF Die
  <2>2. CASE WatchdogLoss
    BY <2>2 DEF WatchdogLoss, backend, NotUp
  <2>3. CASE Return
    BY <2>3 DEF Return, NotUp
  <2> QED BY <1>6, <2>1, <2>2, <2>3 DEF Fate
<1> QED
  BY <1>1, <1>2, <1>4, <1>5, <1>6 DEF Next

-----------------------------------------------------------------------------
(* One token for each job: it is asked for, waits, runs, or its end is out.   *)

Sent(J)    == Has(pipe, Of(Starting, J))
Held(J)    == Has(inbox, Of(Carrying, J))
Running(J) == Runs /\ worker.job \in J
Reads(J)   == \E j \in J : loads[j] = "reading"
Ended(J)   == Has(out, By(Ends, J))

OneReader(J) == \A j, k \in J : loads[j] = "reading" /\ loads[k] = "reading" => j = k

\* No job of J is anywhere.
Untraced(J) == ~Sent(J) /\ ~Held(J) /\ ~Running(J) /\ ~Reads(J) /\ ~Ended(J)

\* Of the jobs in J at most one is somewhere, and in one place only.
Exclusive(J) ==
    /\ One(pipe, Of(Starting, J)) /\ One(inbox, Of(Carrying, J)) /\ One(out, By(Ends, J))
    /\ OneReader(J)
    /\ Sent(J) => ~Held(J) /\ ~Running(J) /\ ~Reads(J) /\ ~Ended(J)
    /\ Held(J) => ~Running(J) /\ ~Reads(J) /\ ~Ended(J)
    /\ Running(J) => ~Reads(J) /\ ~Ended(J)
    /\ Reads(J) => ~Ended(J)

\* What a step does to the messages of J.
LEMMA ThinsOf ==
    ASSUME NEW J, Thins(Msgs, pipe, pipe'), Thins(Msgs, inbox, inbox')
    PROVE  /\ Sent(J)' => Sent(J)
           /\ One(pipe, Of(Starting, J)) => One(pipe, Of(Starting, J))'
           /\ Held(J)' => Held(J)
           /\ One(inbox, Of(Carrying, J)) => One(inbox, Of(Carrying, J))'
  BY LoudSets DEF Thins, Sent, Held

\* Lines that are dropped end no job.
LEMMA SaysOf ==
    ASSUME NEW J, Thins(Says, out, out')
    PROVE  /\ Ended(J)' => Ended(J)
           /\ One(out, By(Ends, J)) => One(out, By(Ends, J))'
  BY LoudSets DEF Thins, Ended

\* A command that is sent asks for its job once.
LEMMA PipeGains ==
    ASSUME NEW J, NEW m \in Posted, Gains(Msgs, pipe, pipe', m)
    PROVE  /\ Sent(J)' <=> Sent(J) \/ (m.type \in Starting /\ m.job \in J)
           /\ One(pipe, Of(Starting, J)) /\ ~(Sent(J) /\ m.type \in Starting /\ m.job \in J)
                 => One(pipe, Of(Starting, J))'
<1>1. m \in Of(Starting, J) <=> m.type \in Starting /\ m.job \in J
  BY DEF Of
<1> QED BY <1>1, LoudSets DEF Gains, Sent

\* A command that is read asks for its job no more.
LEMMA PipeLoses ==
    ASSUME NEW J, NEW m \in Posted, Loses(Msgs, pipe, pipe', m)
    PROVE  /\ Sent(J) <=> Sent(J)' \/ (m.type \in Starting /\ m.job \in J)
           /\ One(pipe, Of(Starting, J))
                 => One(pipe, Of(Starting, J))' /\ ~(Sent(J)' /\ m.type \in Starting /\ m.job \in J)
<1>1. m \in Of(Starting, J) <=> m.type \in Starting /\ m.job \in J
  BY DEF Of
<1> QED BY <1>1, LoudSets DEF Loses, Sent

\* A message that is posted holds its job once.
LEMMA InboxGains ==
    ASSUME NEW J, NEW m \in Posted, Gains(Msgs, inbox, inbox', m)
    PROVE  /\ Held(J)' <=> Held(J) \/ (m.type \in Carrying /\ m.job \in J)
           /\ One(inbox, Of(Carrying, J)) /\ ~(Held(J) /\ m.type \in Carrying /\ m.job \in J)
                 => One(inbox, Of(Carrying, J))'
<1>1. m \in Of(Carrying, J) <=> m.type \in Carrying /\ m.job \in J
  BY DEF Of
<1> QED BY <1>1, LoudSets DEF Gains, Held

\* A message that is taken holds its job no more.
LEMMA InboxLoses ==
    ASSUME NEW J, NEW m \in Posted, Loses(Msgs, inbox, inbox', m)
    PROVE  /\ Held(J) <=> Held(J)' \/ (m.type \in Carrying /\ m.job \in J)
           /\ One(inbox, Of(Carrying, J))
                 => One(inbox, Of(Carrying, J))' /\ ~(Held(J)' /\ m.type \in Carrying /\ m.job \in J)
<1>1. m \in Of(Carrying, J) <=> m.type \in Carrying /\ m.job \in J
  BY DEF Of
<1> QED BY <1>1, LoudSets DEF Loses, Held

\* A line that is written ends its job once.
LEMMA OutGains ==
    ASSUME NEW J, NEW e \in Written, Gains(Says, out, out', e)
    PROVE  /\ Ended(J)' <=> Ended(J) \/ (e.type \in Ends /\ e.job \in J)
           /\ One(out, By(Ends, J)) /\ ~(Ended(J) /\ e.type \in Ends /\ e.job \in J)
                 => One(out, By(Ends, J))'
<1>1. e \in By(Ends, J) <=> e.type \in Ends /\ e.job \in J
  BY DEF By
<1> QED BY <1>1, LoudSets DEF Gains, Ended

\* A line that is read ends its job no more.
LEMMA OutLoses ==
    ASSUME NEW J, NEW e, Loses(Says, out, out', e)
    PROVE  /\ Ended(J)' => Ended(J)
           /\ One(out, By(Ends, J)) => One(out, By(Ends, J))'
  BY SaysOf, Thinning

\* What a step that leaves them alone keeps.
LEMMA Same ==
    ASSUME NEW J
    PROVE  /\ UNCHANGED pipe => (Sent(J)' <=> Sent(J))
                                /\ (One(pipe, Of(Starting, J))' <=> One(pipe, Of(Starting, J)))
           /\ UNCHANGED inbox => (Held(J)' <=> Held(J))
                                /\ (One(inbox, Of(Carrying, J))' <=> One(inbox, Of(Carrying, J)))
           /\ UNCHANGED out => (Ended(J)' <=> Ended(J))
                                /\ (One(out, By(Ends, J))' <=> One(out, By(Ends, J)))
           /\ WorkerStays => (Running(J)' <=> Running(J))
           /\ UNCHANGED loads => (Reads(J)' <=> Reads(J)) /\ (OneReader(J)' <=> OneReader(J))
  BY DEF Sent, Held, Ended, WorkerStays, Running, Runs, Reads, OneReader

\* At most one job of J is somewhere, after a step as before it, provided that a job that
\* is asked for comes when none of J is anywhere.
LEMMA ExclusiveKept ==
    ASSUME Types, NEW J \in SUBSET Jobs, Exclusive(J), Shape,
           requests' # requests /\ requests + 1 \in J => Untraced(J)
    PROVE  Exclusive(J)'
<1>1. loads \in [Jobs -> LoadPhases]
  BY DEF Types, ProcessTypes
<1>2. CASE FadeStep
  <2>1. /\ Sent(J)' => Sent(J)
        /\ One(pipe, Of(Starting, J)) => One(pipe, Of(Starting, J))'
        /\ Held(J)' => Held(J)
        /\ One(inbox, Of(Carrying, J)) => One(inbox, Of(Carrying, J))'
        /\ Ended(J)' => Ended(J)
        /\ One(out, By(Ends, J)) => One(out, By(Ends, J))'
    BY <1>2, ThinsOf, SaysOf DEF FadeStep
  <2>2. \/ /\ Running(J)' <=> Running(J)
           /\ Reads(J)' <=> Reads(J)
           /\ OneReader(J)' <=> OneReader(J)
        \/ ~Running(J)' /\ ~Reads(J)' /\ OneReader(J)'
    <3>1. CASE WorkerStays /\ UNCHANGED loads
      BY <3>1, Same
    <3>2. CASE worker' = NoWorker /\ loads' = [j \in Jobs |-> "none"]
      BY <3>2 DEF Running, Runs, Reads, OneReader, NoWorker
    <3> QED BY <1>2, <3>1, <3>2 DEF FadeStep
  <2> QED BY <2>1, <2>2 DEF Exclusive
<1>3. ASSUME NEW m \in Posted, PostStep(m)
      PROVE  Exclusive(J)'
  <2>1. /\ Sent(J)' <=> Sent(J)
        /\ One(pipe, Of(Starting, J))' <=> One(pipe, Of(Starting, J))
        /\ Ended(J)' <=> Ended(J)
        /\ One(out, By(Ends, J))' <=> One(out, By(Ends, J))
    BY <1>3, Same DEF PostStep
  <2>2. /\ Held(J)' <=> Held(J) \/ (m.type \in Carrying /\ m.job \in J)
        /\ One(inbox, Of(Carrying, J)) /\ ~(Held(J) /\ m.type \in Carrying /\ m.job \in J)
              => One(inbox, Of(Carrying, J))'
    BY <1>3, InboxGains DEF PostStep
  <2>3. CASE m.type = "results"
    <3>1. /\ m.type \notin Carrying
          /\ Running(J)' <=> Running(J)
          /\ Reads(J)' <=> Reads(J)
          /\ OneReader(J)' <=> OneReader(J)
      BY <1>3, <2>3, Same DEF PostStep, Carrying, Starting, ScanOver, Answers, Running, Runs
    <3> QED BY <2>1, <2>2, <3>1 DEF Exclusive
  <2>4. CASE m.type \in ScanOver
    <3>1. /\ m.type \in Carrying
          /\ ~Running(J)' /\ (Running(J) <=> m.job \in J)
          /\ Reads(J)' <=> Reads(J)
          /\ OneReader(J)' <=> OneReader(J)
      BY <1>3, <2>4, Same DEF PostStep, Carrying, Answers, ScanOver, Running, Runs
    <3> QED BY <2>1, <2>2, <3>1 DEF Exclusive
  <2>5. CASE m.type \in Answers
    <3>1. /\ m.type \in Carrying /\ m.job \in Jobs
          /\ loads[m.job] = "reading" /\ loads' = [loads EXCEPT ![m.job] = "answered"]
          /\ WorkerStays
      BY <1>3, <2>5 DEF PostStep, Carrying, Answers, ScanOver
    <3>2. Running(J)' <=> Running(J)
      BY <3>1, Same
    <3>3. /\ Reads(J)' => Reads(J)
          /\ OneReader(J) => OneReader(J)'
          /\ OneReader(J) /\ m.job \in J => Reads(J) /\ ~Reads(J)'
      BY <1>1, <3>1 DEF Reads, OneReader
    <3> QED BY <2>1, <2>2, <3>1, <3>2, <3>3 DEF Exclusive
  <2>6. CASE m.type = "loadOver"
    <3>1. /\ m.type \notin Carrying /\ m.job \in Jobs
          /\ loads[m.job] = "answered" /\ loads' = [loads EXCEPT ![m.job] = "over"]
          /\ WorkerStays
      BY <1>3, <2>6 DEF PostStep, Carrying, Answers, ScanOver, Starting
    <3>2. Running(J)' <=> Running(J)
      BY <3>1, Same
    <3>3. /\ Reads(J)' <=> Reads(J)
          /\ OneReader(J) => OneReader(J)'
      BY <1>1, <3>1 DEF Reads, OneReader
    <3> QED BY <2>1, <2>2, <3>1, <3>2, <3>3 DEF Exclusive
  <2> QED BY <1>3, <2>3, <2>4, <2>5, <2>6 DEF PostStep
<1>4. ASSUME NEW m \in Posted, ReadStep(m)
      PROVE  Exclusive(J)'
  <2>1. m.type \in Carrying <=> m.type \in Starting
    BY <1>4 DEF ReadStep, Lines, Commands, Carrying, Starting, ScanOver, Answers
  <2>2. /\ Sent(J) <=> Sent(J)' \/ (m.type \in Starting /\ m.job \in J)
        /\ One(pipe, Of(Starting, J))
              => One(pipe, Of(Starting, J))' /\ ~(Sent(J)' /\ m.type \in Starting /\ m.job \in J)
        /\ Held(J)' <=> Held(J) \/ (m.type \in Carrying /\ m.job \in J)
        /\ One(inbox, Of(Carrying, J)) /\ ~(Held(J) /\ m.type \in Carrying /\ m.job \in J)
              => One(inbox, Of(Carrying, J))'
    BY <1>4, PipeLoses, InboxGains DEF ReadStep
  <2>3. /\ Ended(J)' <=> Ended(J)
        /\ One(out, By(Ends, J))' <=> One(out, By(Ends, J))
        /\ Running(J)' <=> Running(J)
        /\ Reads(J)' <=> Reads(J)
        /\ OneReader(J)' <=> OneReader(J)
    BY <1>4, Same DEF ReadStep, SessionStays
  <2> QED BY <2>1, <2>2, <2>3 DEF Exclusive
<1>5. ASSUME NEW m \in Posted, HandleStep(m)
      PROVE  Exclusive(J)'
  <2>1. /\ Sent(J)' <=> Sent(J)
        /\ One(pipe, Of(Starting, J))' <=> One(pipe, Of(Starting, J))
        /\ Ended(J)' <=> Ended(J)
        /\ One(out, By(Ends, J))' <=> One(out, By(Ends, J))
    BY <1>5, Same DEF HandleStep
  <2>2. /\ Held(J) <=> Held(J)' \/ (m.type \in Carrying /\ m.job \in J)
        /\ One(inbox, Of(Carrying, J))
              => One(inbox, Of(Carrying, J))' /\ ~(Held(J)' /\ m.type \in Carrying /\ m.job \in J)
    BY <1>5, InboxLoses DEF HandleStep
  <2>3. CASE m.type = "START_SCAN"
    <3>1. /\ m.type \in Carrying
          /\ ~Running(J) /\ (Running(J)' <=> m.job \in J)
          /\ Reads(J)' <=> Reads(J)
          /\ OneReader(J)' <=> OneReader(J)
      BY <1>5, <2>3, Same DEF HandleStep, Carrying, Starting, Running, Runs
    <3> QED BY <2>1, <2>2, <3>1 DEF Exclusive
  <2>4. CASE m.type = "LOAD_INDEX"
    <3>1. /\ m.type \in Carrying /\ m.job \in Jobs /\ WorkerStays
          /\ loads' = [loads EXCEPT ![m.job] = "reading"]
      BY <1>5, <2>4 DEF HandleStep, Carrying, Starting
    <3>2. Running(J)' <=> Running(J)
      BY <3>1, Same
    <3>3. /\ Reads(J)' => Reads(J) \/ m.job \in J
          /\ OneReader(J) /\ ~(Reads(J) /\ m.job \in J) => OneReader(J)'
      BY <1>1, <3>1 DEF Reads, OneReader
    <3> QED BY <2>1, <2>2, <3>1, <3>2, <3>3 DEF Exclusive
  <2>5. CASE m.type = "APPLY_TEST_RESULT"
    <3>1. /\ m.type \notin Carrying
          /\ ~Running(J)'
          /\ Reads(J)' <=> Reads(J)
          /\ OneReader(J)' <=> OneReader(J)
      BY <1>5, <2>5, Same DEF HandleStep, Carrying, Starting, ScanOver, Answers, Running, Runs
    <3> QED BY <2>1, <2>2, <3>1 DEF Exclusive
  <2>6. CASE m.type = "loadOver"
    <3>1. /\ m.type \notin Carrying
          /\ Running(J)' <=> Running(J)
          /\ Reads(J)' <=> Reads(J)
          /\ OneReader(J)' <=> OneReader(J)
      BY <1>5, <2>6, Same DEF HandleStep, Carrying, Starting, ScanOver, Answers
    <3> QED BY <2>1, <2>2, <3>1 DEF Exclusive
  <2> QED BY <1>5, <2>3, <2>4, <2>5, <2>6 DEF HandleStep
<1>6. ASSUME NEW m \in Posted, NEW e \in Written, TellStep(m, e)
      PROVE  Exclusive(J)'
  <2>1. /\ Sent(J)' <=> Sent(J)
        /\ One(pipe, Of(Starting, J))' <=> One(pipe, Of(Starting, J))
        /\ Running(J)' <=> Running(J)
        /\ Reads(J)' <=> Reads(J)
        /\ OneReader(J)' <=> OneReader(J)
    BY <1>6, Same DEF TellStep
  <2>2. /\ Held(J) <=> Held(J)' \/ (m.type \in Carrying /\ m.job \in J)
        /\ One(inbox, Of(Carrying, J))
              => One(inbox, Of(Carrying, J))' /\ ~(Held(J)' /\ m.type \in Carrying /\ m.job \in J)
        /\ Ended(J)' <=> Ended(J) \/ (e.type \in Ends /\ e.job \in J)
        /\ One(out, By(Ends, J)) /\ ~(Ended(J) /\ e.type \in Ends /\ e.job \in J)
              => One(out, By(Ends, J))'
    BY <1>6, InboxLoses, OutGains DEF TellStep
  <2>3. e.type \in Ends => m.type \in Carrying /\ m.job = e.job
    BY <1>6 DEF TellStep, Ends, Carrying, ScanOver, Answers
  <2> QED BY <2>1, <2>2, <2>3 DEF Exclusive
<1>7. ASSUME NEW m \in Posted, SendStep(m)
      PROVE  Exclusive(J)'
  <2>1. /\ Sent(J)' <=> Sent(J) \/ (m.type \in Starting /\ m.job \in J)
        /\ One(pipe, Of(Starting, J)) /\ ~(Sent(J) /\ m.type \in Starting /\ m.job \in J)
              => One(pipe, Of(Starting, J))'
    BY <1>7, PipeGains DEF SendStep
  <2>2. m.type \notin Starting
    BY <1>7 DEF SendStep
  <2>3. /\ Held(J)' <=> Held(J)
        /\ One(inbox, Of(Carrying, J))' <=> One(inbox, Of(Carrying, J))
        /\ Ended(J)' <=> Ended(J)
        /\ One(out, By(Ends, J))' <=> One(out, By(Ends, J))
        /\ Running(J)' <=> Running(J)
        /\ Reads(J)' <=> Reads(J)
        /\ OneReader(J)' <=> OneReader(J)
    BY <1>7, Same DEF SendStep, SessionStays
  <2> QED BY <2>1, <2>2, <2>3 DEF Exclusive
<1>8. ASSUME NEW m \in Posted, AskStep(m)
      PROVE  Exclusive(J)'
  <2>1. /\ Held(J)' <=> Held(J)
        /\ One(inbox, Of(Carrying, J))' <=> One(inbox, Of(Carrying, J))
        /\ Ended(J)' <=> Ended(J)
        /\ One(out, By(Ends, J))' <=> One(out, By(Ends, J))
        /\ Running(J)' <=> Running(J)
        /\ Reads(J)' <=> Reads(J)
        /\ OneReader(J)' <=> OneReader(J)
    BY <1>8, Same DEF AskStep, SessionStays
  <2>2. m.job = requests + 1 /\ requests' = requests + 1 /\ requests \in Nat
    BY <1>8 DEF AskStep, Types, WindowTypes, Numbers
  <2>3. m.job \in J => Untraced(J)
    BY <2>2
  <2>4. \/ /\ Sent(J)' <=> Sent(J)
           /\ One(pipe, Of(Starting, J))' <=> One(pipe, Of(Starting, J))
        \/ /\ Sent(J)' => Sent(J) \/ m.job \in J
           /\ One(pipe, Of(Starting, J)) /\ ~(Sent(J) /\ m.job \in J)
                 => One(pipe, Of(Starting, J))'
    <3>1. CASE UNCHANGED pipe
      BY <3>1, Same
    <3>2. CASE Gains(Msgs, pipe, pipe', m)
      BY <3>2, PipeGains
    <3> QED BY <1>8, <3>1, <3>2 DEF AskStep
  <2> QED BY <2>1, <2>3, <2>4 DEF Exclusive, Untraced
<1>9. ASSUME NEW e \in Written, TakeStep(e)
      PROVE  Exclusive(J)'
  <2>1. /\ Ended(J)' => Ended(J)
        /\ One(out, By(Ends, J)) => One(out, By(Ends, J))'
    BY <1>9, OutLoses DEF TakeStep
  <2>2. /\ Sent(J)' <=> Sent(J)
        /\ One(pipe, Of(Starting, J))' <=> One(pipe, Of(Starting, J))
        /\ Held(J)' <=> Held(J)
        /\ One(inbox, Of(Carrying, J))' <=> One(inbox, Of(Carrying, J))
        /\ Running(J)' <=> Running(J)
        /\ Reads(J)' <=> Reads(J)
        /\ OneReader(J)' <=> OneReader(J)
    BY <1>9, Same DEF TakeStep, SessionStays
  <2> QED BY <2>1, <2>2 DEF Exclusive
<1>10. CASE LossStep \/ BackStep
  <2>1. /\ Ended(J)' => Ended(J)
        /\ One(out, By(Ends, J)) => One(out, By(Ends, J))'
    BY <1>10, SaysOf, Thinning DEF LossStep, BackStep
  <2>2. /\ Sent(J)' <=> Sent(J)
        /\ One(pipe, Of(Starting, J))' <=> One(pipe, Of(Starting, J))
        /\ Held(J)' <=> Held(J)
        /\ One(inbox, Of(Carrying, J))' <=> One(inbox, Of(Carrying, J))
        /\ Running(J)' <=> Running(J)
        /\ Reads(J)' <=> Reads(J)
        /\ OneReader(J)' <=> OneReader(J)
    BY <1>10, Same DEF LossStep, BackStep, SessionStays
  <2> QED BY <2>1, <2>2 DEF Exclusive
<1> QED
  BY <1>2, <1>3, <1>4, <1>5, <1>6, <1>7, <1>8, <1>9, <1>10 DEF Shape

-----------------------------------------------------------------------------
(* Whose messages are on their way, and in which order the window hears them. *)

ScanSays == {"START_SCAN", "results"} \cup ScanOver
LoadSays == {"LOAD_INDEX"} \cup Answers

\* What does not belong to the scan s or to the load l, and the lines the window would take
\* for another job's.
Foreign(s, l) == {m \in Posted : \/ m.type \in ScanSays /\ m.job # s
                                 \/ m.type \in LoadSays /\ m.job # l}
Alien(s, l)   == {e \in Written : /\ e.type \in Speaking
                                  /\ e.job # IF l # 0 /\ e.type # "FINISHED" THEN l ELSE s}

\* All that is under way is the window's job's.
Named ==
    /\ ~Has(pipe, Foreign(scanning, loading)) /\ ~Has(inbox, Foreign(scanning, loading))
    /\ ~Has(out, Alien(scanning, loading))
    /\ Runs => worker.job = scanning
    /\ \A j \in Jobs : loads[j] = "reading" => loading = j

\* The lines after which the window waits no more.
Closing(l) == IF l # 0 THEN Speaking ELSE Ends

Reported == Has(inbox, Of({"results"}, Jobs))
Settled  == ~Sent(Jobs) /\ ~Held(Jobs) /\ ~Running(Jobs) /\ ~Reads(Jobs) /\ ~Reported
Closed   == Has(out, By(Closing(loading), Jobs))

\* The line that ends the window's job is the last to speak of it.
InOrder ==
    /\ Final(out, By(Closing(loading), Jobs), By(Speaking, Jobs))
    /\ Closed => Settled
    /\ Final(inbox, Of(Carrying, Jobs), Of({"results"}, Jobs))

Calm    == available /\ ~overlapped
CalmInv == Calm => Named /\ InOrder

\* The sets that the names and the order speak of are of messages and of lines that carry a job.
LEMMA SpeakingSets ==
    ASSUME NEW s, NEW l
    PROVE  /\ Foreign(s, l) \in SUBSET Msgs /\ Alien(s, l) \in SUBSET Says
           /\ By(Closing(l), Jobs) \in SUBSET Says /\ By(Speaking, Jobs) \in SUBSET Says
           /\ Of({"results"}, Jobs) \in SUBSET Msgs /\ Of(Carrying, Jobs) \in SUBSET Msgs
           /\ Says \subseteq By(Speaking, Jobs)
  BY DEF Foreign, Alien, Msgs, Says, Loud, ScanSays, LoadSays, Carrying, Starting, By, Of, Closing,
         Speaking, Written

\* What joins or leaves the queues is judged by the same names.
LEMMA NamesOf ==
    ASSUME NEW m \in Posted
    PROVE  /\ m \in Foreign(scanning, loading) <=>
                 \/ m.type \in ScanSays /\ m.job # scanning
                 \/ m.type \in LoadSays /\ m.job # loading
           /\ m \in Of(Carrying, Jobs) <=> m.type \in Carrying /\ m.job \in Jobs
           /\ m \in Of({"results"}, Jobs) <=> m.type = "results" /\ m.job \in Jobs
  BY DEF Foreign, Of

\* Where nothing is lost to the window's job.
LEMMA CalmStays ==
    ASSUME CalmInv, UNCHANGED <<scanning, loading, overlapped, available>>,
           Thins(Msgs, pipe, pipe'), Thins(Msgs, inbox, inbox'), Thins(Says, out, out'),
           Runs' => Runs /\ worker'.job = worker.job,
           \A j \in Jobs : loads'[j] = "reading" => loads[j] = "reading"
    PROVE  CalmInv'
<1> SUFFICES ASSUME Named, InOrder PROVE Named' /\ InOrder'
  BY DEF CalmInv, Calm
<1>1. /\ ~Has(pipe', Foreign(scanning, loading)) /\ ~Has(inbox', Foreign(scanning, loading))
      /\ ~Has(out', Alien(scanning, loading))
  BY SpeakingSets DEF Named, Thins
<1>2. Named'
  BY <1>1 DEF Named
<1>3. /\ Final(out', By(Closing(loading), Jobs), By(Speaking, Jobs))
      /\ Final(inbox', Of(Carrying, Jobs), Of({"results"}, Jobs))
      /\ Has(out', By(Closing(loading), Jobs)) => Closed
      /\ Reported' => Reported
  BY SpeakingSets DEF InOrder, Thins, Closed, Reported
<1>4. Sent(Jobs)' => Sent(Jobs)
  BY ThinsOf
<1>5. Held(Jobs)' => Held(Jobs)
  BY ThinsOf
<1>6. (Running(Jobs)' => Running(Jobs)) /\ (Reads(Jobs)' => Reads(Jobs))
  BY DEF Running, Reads
<1>7. Closed' => Settled'
  BY <1>3, <1>4, <1>5, <1>6 DEF InOrder, Settled, Closed
<1> QED
  BY <1>2, <1>3, <1>7 DEF InOrder

\* A running worker has a job.
LEMMA WorkerRuns ==
    ASSUME Types
    PROVE  Runs => worker.job \in Jobs
  BY DEF Types, ProcessTypes, WorkerTypes, Runs

\* A message that names a job is there for one.
LEMMA JobsNamed ==
    ASSUME NEW m \in Posted
    PROVE  m.type \in ScanSays \cup LoadSays => m.job \in Jobs
  BY DEF Posted, NamesJob, Signals, ScanSays, LoadSays, ScanOver, Answers

\* A thread posts its own job's message, behind those it has posted.
LEMMA PostCalm ==
    ASSUME Types, CalmInv, ~overlapped => Exclusive(Jobs), NEW m \in Posted, PostStep(m)
    PROVE  CalmInv'
<1> SUFFICES ASSUME Calm, Named, InOrder, Exclusive(Jobs) PROVE Named' /\ InOrder'
  BY DEF CalmInv, Calm, PostStep, WindowStays
<1>0. UNCHANGED <<pipe, out, scanning, loading>> /\ m.job \in Jobs
  BY DEF PostStep, WindowStays
<1>1. loads \in [Jobs -> LoadPhases]
  BY DEF Types, ProcessTypes
<1>2. /\ Has(inbox', Foreign(scanning, loading)) <=> m \in Foreign(scanning, loading)
      /\ Reported' <=> Reported \/ m.type = "results"
      /\ Held(Jobs)' <=> Held(Jobs) \/ m.type \in Carrying
      /\ (Held(Jobs) /\ m.type = "results") \/ Final(inbox', Of(Carrying, Jobs), Of({"results"}, Jobs))
  BY <1>0, SpeakingSets, NamesOf DEF PostStep, Gains, Named, InOrder, Reported, Held
<1>3. Sent(Jobs)' <=> Sent(Jobs)
  BY <1>0, Same
<1>4. Closed' <=> Closed
  BY <1>0 DEF Closed
<1>5. CASE m.type = "results"
  <2>1. /\ Runs /\ worker.job \in Jobs /\ m.job = worker.job /\ worker'.job = worker.job
        /\ UNCHANGED loads
    BY <1>5, WorkerRuns DEF PostStep, Runs, ScanOver, Answers
  <2>2. m \notin Foreign(scanning, loading)
    BY <1>5, <2>1, NamesOf DEF Named, ScanSays, LoadSays, Answers
  <2>3. ~Held(Jobs) /\ ~Closed
    BY <2>1 DEF Exclusive, InOrder, Settled, Running
  <2> QED BY <1>0, <1>2, <1>4, <2>1, <2>2, <2>3 DEF Named, InOrder
<1>6. CASE m.type \in ScanOver
  <2>1. /\ Runs /\ ~Runs' /\ worker.job \in Jobs /\ m.job = worker.job /\ UNCHANGED loads
    BY <1>6, WorkerRuns DEF PostStep, Runs, ScanOver, Answers
  <2>2. m \notin Foreign(scanning, loading) /\ m.type # "results"
    BY <1>6, <2>1, NamesOf DEF Named, ScanSays, LoadSays, Answers, ScanOver
  <2>3. ~Closed
    BY <2>1 DEF InOrder, Settled, Running
  <2> QED BY <1>0, <1>2, <1>4, <2>1, <2>2, <2>3 DEF Named, InOrder
<1>7. CASE m.type \in Answers
  <2>1. /\ loads[m.job] = "reading" /\ loads' = [loads EXCEPT ![m.job] = "answered"] /\ WorkerStays
    BY <1>7 DEF PostStep, Runs, ScanOver, Answers
  <2>2. m \notin Foreign(scanning, loading) /\ m.type # "results"
    BY <1>0, <1>7, <2>1, NamesOf DEF Named, ScanSays, LoadSays, Answers, ScanOver
  <2>3. ~Closed
    BY <1>0, <2>1 DEF InOrder, Settled, Reads
  <2>4. \A j \in Jobs : loads'[j] = "reading" => loads[j] = "reading"
    BY <1>0, <1>1, <2>1
  <2> QED BY <1>0, <1>2, <1>4, <2>1, <2>2, <2>3, <2>4 DEF Named, InOrder, WorkerStays, Runs
<1>8. CASE m.type = "loadOver"
  <2>1. /\ loads' = [loads EXCEPT ![m.job] = "over"] /\ WorkerStays
    BY <1>8 DEF PostStep, Runs, ScanOver, Answers
  <2>2. m \notin Foreign(scanning, loading) /\ m.type # "results" /\ m.type \notin Carrying
    BY <1>8, NamesOf DEF ScanSays, LoadSays, Answers, ScanOver, Carrying, Starting
  <2>3. \A j \in Jobs : loads'[j] = "reading" => loads[j] = "reading"
    BY <1>0, <1>1, <2>1
  <2>4. (Running(Jobs)' => Running(Jobs)) /\ (Reads(Jobs)' => Reads(Jobs))
    BY <2>1, <2>3, Same DEF Reads
  <2> QED BY <1>0, <1>2, <1>3, <1>4, <2>1, <2>2, <2>3, <2>4 DEF Named, InOrder, WorkerStays, Runs, Settled
<1> QED
  BY <1>5, <1>6, <1>7, <1>8 DEF PostStep

\* A command keeps its name on the way in.
LEMMA ReadCalm ==
    ASSUME Types, CalmInv, NEW m \in Posted, ReadStep(m)
    PROVE  CalmInv'
<1> SUFFICES ASSUME Calm, Named, InOrder PROVE Named' /\ InOrder'
  BY DEF CalmInv, Calm, ReadStep, WindowStays
<1>0. UNCHANGED <<out, scanning, loading>> /\ WorkerStays /\ UNCHANGED loads
  BY DEF ReadStep, WindowStays, SessionStays
<1>1. m.type # "results"
  BY DEF ReadStep, Lines, Commands
<1>2. /\ ~Has(pipe', Foreign(scanning, loading)) /\ m \notin Foreign(scanning, loading)
      /\ ~Has(inbox', Foreign(scanning, loading))
      /\ Reported' <=> Reported
      /\ Final(inbox', Of(Carrying, Jobs), Of({"results"}, Jobs))
  BY <1>1, SpeakingSets, NamesOf DEF ReadStep, Loses, Gains, Named, InOrder, Reported
<1>3. Named'
  BY <1>0, <1>2 DEF Named, WorkerStays, Runs
<1>4. /\ Sent(Jobs) <=> Sent(Jobs)' \/ (m.type \in Starting /\ m.job \in Jobs)
      /\ Held(Jobs)' <=> Held(Jobs) \/ (m.type \in Carrying /\ m.job \in Jobs)
  BY PipeLoses, InboxGains DEF ReadStep
<1>5. m.type \in Carrying <=> m.type \in Starting
  BY DEF ReadStep, Lines, Commands, Carrying, Starting, ScanOver, Answers
<1>6. (Running(Jobs)' <=> Running(Jobs)) /\ (Reads(Jobs)' <=> Reads(Jobs))
  BY <1>0, Same
<1>7. Closed' <=> Closed
  BY <1>0 DEF Closed
<1> QED
  BY <1>0, <1>2, <1>3, <1>4, <1>5, <1>6, <1>7 DEF InOrder, Settled

\* A handler keeps the names and the order.
LEMMA HandleCalm ==
    ASSUME Types, CalmInv, NEW m \in Posted, HandleStep(m)
    PROVE  CalmInv'
<1> SUFFICES ASSUME Calm, Named, InOrder PROVE Named' /\ InOrder'
  BY DEF CalmInv, Calm, HandleStep, WindowStays
<1>0. UNCHANGED <<pipe, out, scanning, loading>>
  BY DEF HandleStep, WindowStays
<1>1. loads \in [Jobs -> LoadPhases]
  BY DEF Types, ProcessTypes
<1>2. /\ ~Has(inbox', Foreign(scanning, loading)) /\ m \notin Foreign(scanning, loading)
      /\ Reported' => Reported
      /\ Final(inbox', Of(Carrying, Jobs), Of({"results"}, Jobs))
  BY SpeakingSets DEF HandleStep, Loses, Named, InOrder, Reported
<1>3. Held(Jobs) <=> Held(Jobs)' \/ (m.type \in Carrying /\ m.job \in Jobs)
  BY InboxLoses DEF HandleStep
<1>4. Closed' <=> Closed
  BY <1>0 DEF Closed
<1>5. Sent(Jobs)' <=> Sent(Jobs)
  BY <1>0, Same
<1>6. CASE m.type = "START_SCAN"
  <2>1. /\ m.job \in Jobs /\ m.type \in Carrying /\ worker'.job = m.job /\ UNCHANGED loads
    BY <1>6 DEF HandleStep, Carrying, Starting
  <2>2. m.job = scanning
    BY <1>2, <1>6, NamesOf DEF ScanSays
  <2>3. ~Closed
    BY <1>3, <2>1 DEF InOrder, Settled
  <2> QED BY <1>0, <1>2, <1>4, <2>1, <2>2, <2>3 DEF Named, InOrder
<1>7. CASE m.type = "LOAD_INDEX"
  <2>1. /\ m.job \in Jobs /\ m.type \in Carrying /\ WorkerStays
        /\ loads' = [loads EXCEPT ![m.job] = "reading"]
    BY <1>7 DEF HandleStep, Carrying, Starting
  <2>2. m.job = loading
    BY <1>2, <1>7, NamesOf DEF LoadSays
  <2>3. ~Closed
    BY <1>3, <2>1 DEF InOrder, Settled
  <2>4. \A j \in Jobs : loads'[j] = "reading" => loading = j
    BY <1>1, <2>1, <2>2 DEF Named
  <2> QED BY <1>0, <1>2, <1>4, <2>1, <2>3, <2>4 DEF Named, InOrder, WorkerStays, Runs
<1>8. CASE m.type \in {"APPLY_TEST_RESULT", "loadOver"}
  <2>1. UNCHANGED loads /\ (WorkerStays \/ ~Runs')
    BY <1>8 DEF HandleStep, Runs
  <2>2. (Running(Jobs)' => Running(Jobs)) /\ (Reads(Jobs)' <=> Reads(Jobs))
    BY <2>1, Same DEF Running
  <2>3. Closed' => Settled'
    BY <1>2, <1>3, <1>4, <1>5, <2>2 DEF InOrder, Settled
  <2> QED BY <1>0, <1>2, <2>1, <2>3 DEF Named, InOrder, WorkerStays, Runs
<1> QED
  BY <1>6, <1>7, <1>8 DEF HandleStep

\* A handler writes of the job whose signal it takes.
LEMMA TellCalm ==
    ASSUME Types, OneJob, CalmInv, ~overlapped => Exclusive(Jobs),
           NEW m \in Posted, NEW e \in Written, TellStep(m, e)
    PROVE  CalmInv'
<1> SUFFICES ASSUME Calm, Named, InOrder, Exclusive(Jobs) PROVE Named' /\ InOrder'
  BY DEF CalmInv, Calm, TellStep, WindowStays
<1>0. /\ UNCHANGED <<pipe, loads, scanning, loading>> /\ WorkerStays
      /\ e.job = m.job /\ e.job \in Jobs
  BY DEF TellStep, WindowStays, Written
<1>1. /\ ~Has(inbox', Foreign(scanning, loading)) /\ m \notin Foreign(scanning, loading)
      /\ Reported <=> Reported' \/ (m.type = "results" /\ m.job \in Jobs)
      /\ Final(inbox', Of(Carrying, Jobs), Of({"results"}, Jobs))
      /\ ~(Reported' /\ m.type \in Carrying /\ m.job \in Jobs)
  BY SpeakingSets, NamesOf DEF TellStep, Loses, Named, InOrder, Reported
<1>2. /\ Has(out', Alien(scanning, loading)) <=> e \in Alien(scanning, loading)
      /\ Has(out', By(Closing(loading), Jobs)) <=> Closed \/ e \in By(Closing(loading), Jobs)
      /\ Closed \/ Final(out', By(Closing(loading), Jobs), By(Speaking, Jobs))
  BY SpeakingSets DEF TellStep, Gains, Named, InOrder, Closed
<1>3. Closed' <=> Closed \/ e \in By(Closing(loading), Jobs)
  BY <1>0, <1>2 DEF Closed
<1>4. /\ Held(Jobs) <=> Held(Jobs)' \/ (m.type \in Carrying /\ m.job \in Jobs)
      /\ ~(Held(Jobs)' /\ m.type \in Carrying /\ m.job \in Jobs)
  BY InboxLoses DEF TellStep, Exclusive
<1>5. /\ Sent(Jobs)' <=> Sent(Jobs)
      /\ Running(Jobs)' <=> Running(Jobs)
      /\ Reads(Jobs)' <=> Reads(Jobs)
  BY <1>0, Same
<1>6. \/ m.type \in ScanSays /\ m.job = scanning
      \/ m.type \in LoadSays /\ m.job = loading
  BY <1>1, NamesOf DEF TellStep, ScanSays, LoadSays, ScanOver, Answers
<1>7. scanning = 0 \/ loading = 0
  BY DEF OneJob, Calm
<1>8. e \notin Alien(scanning, loading)
  <2>1. CASE m.type \in ScanSays /\ m.job = scanning
    <3>1. loading = 0
      BY <1>0, <1>7, <2>1, JobsAreNumbers
    <3> QED BY <1>0, <2>1, <3>1 DEF Alien
  <2>2. CASE m.type \in LoadSays /\ m.job = loading
    <3>1. e.type # "FINISHED"
      BY <2>2 DEF TellStep, LoadSays, Answers, ScanOver
    <3>2. loading # 0
      BY <1>0, <2>2, JobsAreNumbers
    <3> QED BY <1>0, <2>2, <3>1, <3>2 DEF Alien
  <2> QED BY <1>6, <2>1, <2>2
<1>9. ~Closed
  <2>1. Held(Jobs) \/ Reported
    BY <1>0, <1>1, <1>4 DEF TellStep, Carrying, Answers
  <2> QED BY <2>1 DEF InOrder, Settled
<1>10. e \in By(Closing(loading), Jobs) => Settled'
  <2>1. CASE m.type \in Carrying
    <3>1. Held(Jobs) /\ ~Held(Jobs)' /\ ~Reported'
      BY <1>0, <1>1, <1>4, <2>1
    <3>2. ~Sent(Jobs) /\ ~Running(Jobs) /\ ~Reads(Jobs)
      BY <3>1 DEF Exclusive
    <3> QED BY <1>5, <3>1, <3>2 DEF Settled
  <2>2. CASE m.type = "results"
    <3>1. loading = 0
      BY <1>0, <1>6, <1>7, <2>2, JobsAreNumbers DEF LoadSays, Answers
    <3>2. e.type = "RESULTS_PAGE"
      BY <2>2 DEF TellStep, ScanOver
    <3> QED BY <3>1, <3>2 DEF By, Closing, Ends
  <2> QED BY <2>1, <2>2 DEF TellStep, Carrying, Answers
<1>11. Named'
  BY <1>0, <1>1, <1>2, <1>8 DEF Named, WorkerStays, Runs
<1> QED
  BY <1>0, <1>1, <1>2, <1>3, <1>9, <1>10, <1>11 DEF InOrder

\* Nothing of any job is on its way or heard.
Clear ==
    /\ ~Has(pipe, Foreign(0, 0)) /\ ~Has(inbox, Foreign(0, 0)) /\ ~Has(out, Says)
    /\ ~Runs /\ ~Reads(Jobs)

\* All that names a job is foreign to a window that waits for none.
LEMMA AllForeign ==
    ASSUME NEW m \in Posted, m.type \in ScanSays \cup LoadSays
    PROVE  m \in Foreign(0, 0)
  BY JobsNamed, JobsAreNumbers DEF Foreign

\* A queue that holds nothing of a set holds nothing of a smaller one.
LEMMA HasMore ==
    ASSUME NEW q, NEW S, NEW T, S \subseteq T, ~Has(q, T)
    PROVE  ~Has(q, S)
  BY DEF Has

\* A backend that is gone has left nothing.
LEMMA GoneIsClear ==
    ASSUME NotUp, process = "gone"
    PROVE  Clear
<1>1. pipe = <<>> /\ inbox = <<>> /\ out = <<>> /\ worker = NoWorker /\ loads = [j \in Jobs |-> "none"]
  BY DEF NotUp
<1> QED
  BY <1>1, HasNone DEF Clear, Runs, NoWorker, Reads

\* A job is asked for where nothing of the jobs before it is left.
LEMMA AskedWhenClear ==
    ASSUME Sound, CalmInv, NEW m, AskStep(m), ~overlapped'
    PROVE  Clear
<1>1. CASE process = "gone"
  BY <1>1, GoneIsClear DEF Sound
<1>2. CASE process # "gone"
  <2>1. scanning = 0 /\ loading = 0 /\ Calm
    BY <1>2 DEF AskStep, Calm
  <2>2. /\ ~Has(pipe, Foreign(0, 0)) /\ ~Has(inbox, Foreign(0, 0)) /\ ~Has(out, Alien(0, 0))
        /\ Runs => worker.job = 0
        /\ \A j \in Jobs : loads[j] = "reading" => j = 0
    BY <2>1 DEF CalmInv, Named
  <2>3. Says \subseteq Alien(0, 0)
    BY JobsAreNumbers DEF Says, Alien, Written
  <2>4. ~Has(out, Says)
    BY <2>2, <2>3, HasMore
  <2>5. ~Runs
    BY <2>2, WorkerRuns, JobsAreNumbers DEF Sound
  <2>6. ~Reads(Jobs)
    BY <2>2, JobsAreNumbers DEF Reads
  <2> QED BY <2>2, <2>4, <2>5, <2>6 DEF Clear
<1> QED
  BY <1>1, <1>2

\* Where nothing is of any job, no job has a trace.
LEMMA ClearIsUntraced ==
    ASSUME Clear
    PROVE  Untraced(Jobs) /\ ~Reported /\ ~Has(inbox, Of(Carrying, Jobs))
<1>1. /\ Of(Starting, Jobs) \subseteq Foreign(0, 0) /\ Of(Carrying, Jobs) \subseteq Foreign(0, 0)
      /\ Of({"results"}, Jobs) \subseteq Foreign(0, 0)
  BY AllForeign DEF Of, Starting, Carrying, ScanSays, LoadSays, Foreign
<1>2. By(Ends, Jobs) \subseteq Says
  BY DEF By, Says, Speaking
<1>3. ~Has(pipe, Of(Starting, Jobs)) /\ ~Has(inbox, Of(Carrying, Jobs)) /\ ~Has(inbox, Of({"results"}, Jobs))
  BY <1>1, HasMore DEF Clear
<1>4. ~Has(out, By(Ends, Jobs))
  BY <1>2, HasMore DEF Clear
<1> QED
  BY <1>3, <1>4 DEF Clear, Untraced, Sent, Held, Running, Ended, Reported

\* Nothing is behind what is not there.
LEMMA EmptyOrders ==
    ASSUME NEW q, NEW S, NEW T, ~Has(q, S)
    PROVE  Final(q, S, T)
  BY DEF Has, Final

\* The window sends a command for the job it has begun.
LEMMA SendCalm ==
    ASSUME CalmInv, NEW m \in Posted, SendStep(m)
    PROVE  CalmInv'
<1> SUFFICES ASSUME Calm, Named, InOrder PROVE Named' /\ InOrder'
  BY DEF CalmInv, Calm, SendStep, WindowStays
<1>0. UNCHANGED <<inbox, out, scanning, loading>> /\ WorkerStays /\ UNCHANGED loads
  BY DEF SendStep, WindowStays, SessionStays
<1>1. m.type \notin Starting /\ m.type \in Commands
  BY DEF SendStep, Lines
<1>2. m \notin Foreign(scanning, loading)
  BY <1>1 DEF Commands, Starting, Foreign, ScanSays, LoadSays, ScanOver, Answers
<1>3. ~Has(pipe', Foreign(scanning, loading))
  BY <1>2, SpeakingSets DEF SendStep, Gains, Named
<1>4. Sent(Jobs)' <=> Sent(Jobs)
  BY <1>1, PipeGains DEF SendStep
<1>5. /\ Held(Jobs)' <=> Held(Jobs)
      /\ Running(Jobs)' <=> Running(Jobs)
      /\ Reads(Jobs)' <=> Reads(Jobs)
      /\ Reported' <=> Reported
      /\ Closed' <=> Closed
  BY <1>0, Same DEF Reported, Closed
<1> QED
  BY <1>0, <1>3, <1>4, <1>5 DEF Named, InOrder, Settled, WorkerStays, Runs

\* The window asks for a job where nothing of another is left.
LEMMA AskCalm ==
    ASSUME Sound, CalmInv, NEW m \in Posted, AskStep(m)
    PROVE  CalmInv'
<1> SUFFICES ASSUME ~overlapped' PROVE Named' /\ InOrder'
  BY DEF CalmInv, Calm
<1>1. Clear
  BY AskedWhenClear
<1>2. UNCHANGED <<inbox, out, loads>> /\ WorkerStays
  BY DEF AskStep, SessionStays
<1>3. Foreign(scanning', loading') \subseteq Foreign(0, 0)
  BY JobsNamed, JobsAreNumbers DEF Foreign
<1>4. m \notin Foreign(scanning', loading')
  BY DEF AskStep, Foreign, ScanSays, LoadSays, ScanOver, Answers
<1>5. ~Has(pipe, Foreign(scanning', loading')) /\ ~Has(inbox', Foreign(scanning', loading'))
  BY <1>1, <1>2, <1>3, HasMore DEF Clear
<1>6. ~Has(pipe', Foreign(scanning', loading'))
  <2>1. CASE UNCHANGED pipe
    BY <1>5, <2>1
  <2>2. CASE Gains(Msgs, pipe, pipe', m)
    BY <1>4, <1>5, <2>2, SpeakingSets DEF Gains
  <2> QED BY <2>1, <2>2 DEF AskStep
<1>7. Alien(scanning', loading') \subseteq Says /\ By(Closing(loading'), Jobs) \subseteq Says
  BY SpeakingSets
<1>8. ~Has(out', Alien(scanning', loading')) /\ ~Has(out', By(Closing(loading'), Jobs))
  BY <1>1, <1>2, <1>7, HasMore DEF Clear
<1>9. ~Runs' /\ \A j \in Jobs : loads'[j] # "reading"
  BY <1>1, <1>2 DEF Clear, WorkerStays, Runs, Reads
<1>10. Named'
  BY <1>5, <1>6, <1>8, <1>9 DEF Named
<1>11. ~Has(inbox', Of(Carrying, Jobs))
  BY <1>1, <1>2, ClearIsUntraced
<1>12. /\ Final(out', By(Closing(loading'), Jobs), By(Speaking, Jobs))
       /\ Final(inbox', Of(Carrying, Jobs), Of({"results"}, Jobs))
  BY <1>8, <1>11, EmptyOrders
<1> QED
  BY <1>8, <1>10, <1>12 DEF InOrder, Closed

\* The window takes a line of the job it waits for, or of none.
LEMMA TakeCalm ==
    ASSUME Types, OneJob, CalmInv, NEW e \in Written, TakeStep(e)
    PROVE  CalmInv'
<1> SUFFICES ASSUME Calm, Named, InOrder PROVE Named' /\ InOrder'
  BY DEF CalmInv, Calm, TakeStep
<1>0. UNCHANGED <<pipe, inbox, loads>> /\ WorkerStays
  BY DEF TakeStep, SessionStays
<1>1. Thins(Msgs, pipe, pipe') /\ Thins(Msgs, inbox, inbox') /\ Thins(Says, out, out')
  BY <1>0, Thinning DEF TakeStep
<1>2. CASE e.type = "RESULTS_PAGE" /\ loading = 0
  <2>1. UNCHANGED <<scanning, loading, overlapped, available>>
    BY <1>2 DEF TakeStep
  <2>2. CalmInv'
    BY <1>0, <1>1, <2>1, CalmStays DEF WorkerStays, Runs
  <2> QED BY <2>1, <2>2 DEF CalmInv, Calm
<1>3. CASE ~(e.type = "RESULTS_PAGE" /\ loading = 0)
  <2>1. e.type \in Closing(loading) /\ e.job \in Jobs /\ e.type \in Speaking
    BY <1>3 DEF TakeStep, Closing, Speaking, Ends, Written
  <2>2. e \in By(Closing(loading), Jobs)
    BY <2>1 DEF By
  <2>3. Closed /\ ~Has(out', By(Speaking, Jobs))
    BY <2>2, SpeakingSets DEF TakeStep, Loses, InOrder, Closed
  <2>4. Settled
    BY <2>3 DEF InOrder
  <2>5. ~Runs /\ \A j \in Jobs : loads[j] # "reading"
    BY <2>4, WorkerRuns DEF Settled, Running, Reads
  <2>6. ~Has(pipe, Foreign(scanning', loading'))
    <3> SUFFICES ASSUME NEW i \in DOMAIN pipe, pipe[i] \in Foreign(scanning', loading')
                 PROVE  FALSE
      BY DEF Has
    <3>1. pipe[i] \in Lines
      BY LenProperties, ElementOfSeq DEF Types, ProcessTypes
    <3>2. pipe[i] \in Of(Starting, Jobs)
      BY <3>1, JobsNamed DEF Lines, Foreign, Of, Commands, Starting, ScanSays, LoadSays, ScanOver, Answers
    <3> QED BY <2>4, <3>2 DEF Settled, Sent, Has
  <2>7. ~Has(inbox, Foreign(scanning', loading'))
    <3> SUFFICES ASSUME NEW i \in DOMAIN inbox, inbox[i] \in Foreign(scanning', loading')
                 PROVE  FALSE
      BY DEF Has
    <3>1. inbox[i] \in Of(Carrying, Jobs) \/ inbox[i] \in Of({"results"}, Jobs)
      BY JobsNamed DEF Foreign, Of, Carrying, Starting, ScanSays, LoadSays, ScanOver, Answers
    <3> QED BY <2>4, <3>1 DEF Settled, Held, Reported, Has
  <2>8. Alien(scanning', loading') \subseteq By(Speaking, Jobs) /\ By(Closing(loading'), Jobs) \subseteq By(Speaking, Jobs)
    BY DEF Alien, By, Written, Closing, Speaking
  <2>9. ~Has(out', Alien(scanning', loading')) /\ ~Has(out', By(Closing(loading'), Jobs))
    BY <2>3, <2>8, HasMore
  <2>10. Named'
    BY <1>0, <2>5, <2>6, <2>7, <2>9 DEF Named, WorkerStays, Runs
  <2>11. Final(out', By(Closing(loading'), Jobs), By(Speaking, Jobs))
    BY <2>9, EmptyOrders
  <2> QED BY <1>0, <2>9, <2>10, <2>11 DEF InOrder, Closed
<1> QED
  BY <1>2, <1>3

\* A process that is started anew holds nothing of any job.
LEMMA BackCalm ==
    ASSUME NotUp, BackStep
    PROVE  CalmInv'
<1>1. Clear
  BY GoneIsClear DEF BackStep
<1>2. UNCHANGED <<pipe, inbox, out, loads, scanning, loading>> /\ WorkerStays
  BY DEF BackStep, SessionStays
<1>3. pipe = <<>> /\ inbox = <<>> /\ out = <<>>
  BY DEF NotUp, BackStep
<1>4. ~Runs /\ \A j \in Jobs : loads[j] # "reading"
  BY <1>1 DEF Clear, Reads
<1>5. \A S, T : /\ ~Has(pipe', S) /\ ~Has(inbox', S) /\ ~Has(out', S)
                /\ Final(out', S, T) /\ Final(inbox', S, T)
  BY <1>2, <1>3, HasNone, EmptyOrders
<1> QED
  BY <1>2, <1>4, <1>5 DEF CalmInv, Named, InOrder, Closed, WorkerStays, Runs

\* Names and order are kept by every step.
LEMMA CalmKept ==
    ASSUME Sound, OneJob, CalmInv, ~overlapped => Exclusive(Jobs), Shape
    PROVE  CalmInv'
<1>0. Types
  BY DEF Sound
<1>1. CASE FadeStep
  <2>1. \/ WorkerStays /\ UNCHANGED loads
        \/ worker' = NoWorker /\ loads' = [j \in Jobs |-> "none"]
    BY <1>1 DEF FadeStep
  <2>2. /\ Runs' => Runs /\ worker'.job = worker.job
        /\ \A j \in Jobs : loads'[j] = "reading" => loads[j] = "reading"
    BY <2>1 DEF WorkerStays, Runs, NoWorker
  <2> QED BY <1>1, <2>2, CalmStays DEF FadeStep, WindowStays
<1>2. ASSUME NEW m \in Posted, PostStep(m) PROVE CalmInv'
  BY <1>0, <1>2, PostCalm
<1>3. ASSUME NEW m \in Posted, ReadStep(m) PROVE CalmInv'
  BY <1>0, <1>3, ReadCalm
<1>4. ASSUME NEW m \in Posted, HandleStep(m) PROVE CalmInv'
  BY <1>0, <1>4, HandleCalm
<1>5. ASSUME NEW m \in Posted, SendStep(m) PROVE CalmInv'
  BY <1>5, SendCalm
<1>6. ASSUME NEW m \in Posted, AskStep(m) PROVE CalmInv'
  BY <1>6, AskCalm
<1>7. ASSUME NEW m \in Posted, NEW e \in Written, TellStep(m, e) PROVE CalmInv'
  BY <1>0, <1>7, TellCalm
<1>8. ASSUME NEW e \in Written, TakeStep(e) PROVE CalmInv'
  BY <1>0, <1>8, TakeCalm
<1>9. CASE LossStep
  BY <1>9 DEF LossStep, CalmInv, Calm
<1>10. CASE BackStep
  BY <1>10, BackCalm DEF Sound
<1> QED
  BY <1>1, <1>2, <1>3, <1>4, <1>5, <1>6, <1>7, <1>8, <1>9, <1>10 DEF Shape

\* Unless jobs overlap there is at most one in all.
LEMMA OnlyOneKept ==
    ASSUME Sound, CalmInv, ~overlapped => Exclusive(Jobs), Shape
    PROVE  ~overlapped' => Exclusive(Jobs)'
<1> SUFFICES ASSUME ~overlapped' PROVE Exclusive(Jobs)'
  OBVIOUS
<1>1. ~overlapped
  BY DEF Shape, FadeStep, PostStep, ReadStep, HandleStep, SendStep, AskStep, TellStep, TakeStep,
         LossStep, BackStep, WindowStays
<1>2. requests' # requests => \E m \in Posted : AskStep(m)
  BY DEF Shape, FadeStep, PostStep, ReadStep, HandleStep, SendStep, TellStep, TakeStep,
         LossStep, BackStep, WindowStays
<1>3. requests' # requests => Untraced(Jobs)
  BY <1>2, AskedWhenClear, ClearIsUntraced
<1> QED
  BY <1>1, <1>3, ExclusiveKept DEF Sound

-----------------------------------------------------------------------------
(* Whose turn it is to write the index.                                       *)

Loaded == Of({"LOAD_INDEX"}, Jobs)
Overs  == Of({"loadOver"}, Jobs)
Begun  == Of(Starting, Jobs)

\* No job runs or waits beside an adoption, or is asked for behind one.
Adopt ==
    /\ applyThread = "adopting" => ~Sent(Jobs) /\ ~Has(inbox, Begun) /\ ~Runs /\ ~Reads(Jobs)
    /\ Final(inbox, Adoptions, Begun) /\ Final(pipe, Adoptions, Begun)
    /\ Has(inbox, Adoptions) => ~Sent(Jobs)

\* The session's thread is that of the load that has not ended.
Loads ==
    /\ \A j \in Jobs : Busy(j) => loadThread = j
    /\ Has(pipe, Loaded) \/ Has(inbox, Loaded) => \A j \in Jobs : ~Busy(j)
    /\ Final(inbox, Loaded, Overs)
    /\ Has(inbox, Overs) => \A j \in Jobs : ~Busy(j)

Holds == Runs => scanActive

TurnInv == ~overlapped => Adopt /\ Loads /\ Holds

\* Loads, their ends, what begins a job and adoptions are messages that carry a job.
LEMMA TurnSets ==
    /\ Loaded \in SUBSET Msgs /\ Overs \in SUBSET Msgs /\ Begun \in SUBSET Msgs
    /\ Adoptions \in SUBSET Msgs
  BY LoudSets DEF Loaded, Overs, Begun

\* The same, told by a message's type.
LEMMA TurnOf ==
    ASSUME NEW m \in Posted
    PROVE  /\ m \in Loaded <=> m.type = "LOAD_INDEX" /\ m.job \in Jobs
           /\ m \in Overs <=> m.type = "loadOver" /\ m.job \in Jobs
           /\ m \in Begun <=> m.type \in Starting /\ m.job \in Jobs
           /\ m \in Adoptions <=> m.type = "APPLY_TEST_RESULT"
  BY DEF Loaded, Overs, Begun, Adoptions, Of

\* What waits is a job's.
LEMMA BegunIsHeld ==
    /\ Has(inbox, Begun) => Held(Jobs)
    /\ Has(inbox, Loaded) => Has(inbox, Begun)
    /\ Has(pipe, Loaded) => Sent(Jobs)
    /\ Sent(Jobs) <=> Has(pipe, Begun)
  BY DEF Held, Sent, Begun, Loaded, Has, Of, Carrying, Starting

\* Nothing new is asked for, begins or is heard to end.
LEMMA TurnStays ==
    ASSUME TurnInv, UNCHANGED overlapped,
           Thins(Msgs, pipe, pipe'), Thins(Msgs, inbox, inbox'),
           Runs' => Runs /\ scanActive' = scanActive,
           \/ UNCHANGED <<loads, loadThread>>
           \/ \A j \in Jobs : ~Busy(j)',
           applyThread' = "adopting" => applyThread = "adopting"
    PROVE  TurnInv'
<1> SUFFICES ASSUME Adopt, Loads, Holds PROVE Adopt' /\ Loads' /\ Holds'
  BY DEF TurnInv
<1>1. /\ Has(inbox', Begun) => Has(inbox, Begun)
      /\ Has(inbox', Adoptions) => Has(inbox, Adoptions)
      /\ Has(inbox', Loaded) => Has(inbox, Loaded)
      /\ Has(inbox', Overs) => Has(inbox, Overs)
      /\ Has(pipe', Loaded) => Has(pipe, Loaded)
      /\ Final(inbox', Adoptions, Begun) /\ Final(pipe', Adoptions, Begun)
      /\ Final(inbox', Loaded, Overs)
  BY TurnSets DEF Thins, Adopt, Loads
<1>2. Sent(Jobs)' => Sent(Jobs)
  BY ThinsOf
<1>3. /\ Reads(Jobs)' => Reads(Jobs)
      /\ \A j \in Jobs : Busy(j)' => Busy(j) /\ loadThread' = loadThread
  BY DEF Reads, Busy
<1>4. Adopt'
  BY <1>1, <1>2, <1>3 DEF Adopt
<1>5. Loads'
  BY <1>1, <1>3 DEF Loads
<1> QED
  BY <1>4, <1>5 DEF Holds

\* A thread's message keeps the turns.
LEMMA PostTurn ==
    ASSUME Types, TurnInv, NEW m \in Posted, PostStep(m)
    PROVE  TurnInv'
<1> SUFFICES ASSUME Adopt, Loads, Holds PROVE Adopt' /\ Loads' /\ Holds'
  BY DEF TurnInv, PostStep, WindowStays
<1>0. UNCHANGED <<pipe, loadThread, applyThread, scanActive>> /\ m.job \in Jobs
  BY DEF PostStep
<1>1. loads \in [Jobs -> LoadPhases]
  BY DEF Types, ProcessTypes
<1>2. m \notin Loaded /\ m \notin Begun /\ m \notin Adoptions /\ (m \in Overs <=> m.type = "loadOver")
  BY <1>0, TurnOf DEF PostStep, ScanOver, Answers, Starting
<1>3. /\ Has(inbox', Begun) <=> Has(inbox, Begun)
      /\ Has(inbox', Adoptions) <=> Has(inbox, Adoptions)
      /\ Has(inbox', Loaded) <=> Has(inbox, Loaded)
      /\ Has(inbox', Overs) <=> Has(inbox, Overs) \/ m.type = "loadOver"
      /\ Final(inbox', Adoptions, Begun)
      /\ (Has(inbox, Loaded) /\ m.type = "loadOver") \/ Final(inbox', Loaded, Overs)
  BY <1>2, TurnSets DEF PostStep, Gains, Adopt, Loads
<1>4. Sent(Jobs)' <=> Sent(Jobs)
  BY <1>0, Same
<1>5. Runs' => Runs
  BY DEF PostStep, Runs, WorkerStays
<1>6. \A j \in Jobs : loads'[j] = "reading" => loads[j] = "reading"
  BY <1>0, <1>1 DEF PostStep
<1>7. Adopt'
  BY <1>0, <1>3, <1>4, <1>5, <1>6 DEF Adopt, Reads
<1>8. \A j \in Jobs : Busy(j)' => Busy(j)
  BY <1>0, <1>1 DEF PostStep, Busy
<1>9. CASE m.type = "loadOver"
  <2>1. loads[m.job] = "answered" /\ loads' = [loads EXCEPT ![m.job] = "over"]
    BY <1>9 DEF PostStep, ScanOver, Answers
  <2>2. Busy(m.job) /\ loadThread = m.job
    BY <1>0, <2>1 DEF Busy, Loads
  <2>3. ~Busy(m.job)'
    BY <1>0, <1>1, <2>1 DEF Busy
  <2>4. \A j \in Jobs : ~Busy(j)'
    BY <1>8, <2>2, <2>3 DEF Loads
  <2>5. ~Has(inbox, Loaded)
    BY <1>0, <2>2 DEF Loads
  <2> QED BY <1>0, <1>3, <1>5, <1>7, <2>4, <2>5 DEF Loads, Holds
<1>10. CASE m.type # "loadOver"
  BY <1>0, <1>3, <1>5, <1>7, <1>8, <1>10 DEF Loads, Holds
<1> QED
  BY <1>9, <1>10

\* A command on its way in keeps the turns.
LEMMA ReadTurn ==
    ASSUME TurnInv, NEW m \in Posted, ReadStep(m)
    PROVE  TurnInv'
<1> SUFFICES ASSUME Adopt, Loads, Holds PROVE Adopt' /\ Loads' /\ Holds'
  BY DEF TurnInv, ReadStep, WindowStays
<1>0. WorkerStays /\ UNCHANGED <<loads, loadThread, applyThread, scanActive>>
  BY DEF ReadStep, SessionStays
<1>1. m \notin Overs
  BY TurnOf DEF ReadStep, Lines, Commands
<1>2. /\ Has(pipe, Begun) <=> Has(pipe', Begun) \/ m \in Begun
      /\ Has(pipe, Loaded) <=> Has(pipe', Loaded) \/ m \in Loaded
      /\ Final(pipe', Adoptions, Begun) /\ ~(Has(pipe', Begun) /\ m \in Adoptions)
  BY TurnSets DEF ReadStep, Loses, Adopt
<1>3. /\ Has(inbox', Begun) <=> Has(inbox, Begun) \/ m \in Begun
      /\ Has(inbox', Adoptions) <=> Has(inbox, Adoptions) \/ m \in Adoptions
      /\ Has(inbox', Loaded) <=> Has(inbox, Loaded) \/ m \in Loaded
      /\ Has(inbox', Overs) <=> Has(inbox, Overs)
      /\ Final(inbox', Adoptions, Begun) \/ (Has(inbox, Adoptions) /\ m \in Begun)
      /\ Final(inbox', Loaded, Overs)
  BY <1>1, TurnSets DEF ReadStep, Gains, Adopt, Loads
<1>4. Sent(Jobs) <=> Has(pipe, Begun)
  BY BegunIsHeld
<1>5. Sent(Jobs)' <=> Has(pipe', Begun)
  BY DEF Sent, Begun
<1>6. (Runs' <=> Runs) /\ (Reads(Jobs)' <=> Reads(Jobs)) /\ \A j \in Jobs : Busy(j)' <=> Busy(j)
  BY <1>0 DEF WorkerStays, Runs, Reads, Busy
<1>7. Adopt'
  BY <1>0, <1>2, <1>3, <1>4, <1>5, <1>6 DEF Adopt
<1>8. Loads'
  BY <1>0, <1>2, <1>3, <1>6 DEF Loads
<1> QED
  BY <1>0, <1>6, <1>7, <1>8 DEF Holds

\* A handler keeps the turns: it begins no job beside another.
LEMMA HandleTurn ==
    ASSUME Types, TurnInv, ~overlapped => Exclusive(Jobs), NEW m \in Posted, HandleStep(m)
    PROVE  TurnInv'
<1> SUFFICES ASSUME Adopt, Loads, Holds, Exclusive(Jobs) PROVE Adopt' /\ Loads' /\ Holds'
  BY DEF TurnInv, HandleStep, WindowStays
<1>0. UNCHANGED pipe
  BY DEF HandleStep
<1>1. loads \in [Jobs -> LoadPhases]
  BY DEF Types, ProcessTypes
<1>2. /\ Has(inbox, Begun) <=> Has(inbox', Begun) \/ m \in Begun
      /\ Has(inbox, Adoptions) <=> Has(inbox', Adoptions) \/ m \in Adoptions
      /\ Has(inbox, Loaded) <=> Has(inbox', Loaded) \/ m \in Loaded
      /\ Has(inbox, Overs) <=> Has(inbox', Overs) \/ m \in Overs
      /\ Final(inbox', Adoptions, Begun) /\ ~(Has(inbox', Begun) /\ m \in Adoptions)
      /\ Final(inbox', Loaded, Overs) /\ ~(Has(inbox', Overs) /\ m \in Loaded)
  BY TurnSets DEF HandleStep, Loses, Adopt, Loads
<1>3. Sent(Jobs)' <=> Sent(Jobs)
  BY <1>0, Same
<1>4. CASE m.type = "START_SCAN"
  <2>1. /\ m \in Begun /\ LoadIsOver /\ scanActive' = TRUE /\ loadThread' = 0
        /\ UNCHANGED <<loads, applyThread>>
    BY <1>4, TurnOf DEF HandleStep, Starting
  <2>2. applyThread # "adopting"
    BY <1>2, <2>1 DEF Adopt
  <2>3. \A j \in Jobs : ~Busy(j)
    BY <2>1, JobsAreNumbers DEF LoadIsOver, Busy, Loads
  <2>4. \A j \in Jobs : ~Busy(j)'
    BY <2>1, <2>3 DEF Busy
  <2> QED BY <1>0, <1>2, <1>3, <2>1, <2>2, <2>4 DEF Adopt, Loads, Holds
<1>5. CASE m.type = "LOAD_INDEX"
  <2>1. /\ m \in Begun /\ m \in Loaded /\ m.job \in Jobs /\ loadThread' = m.job
        /\ loads' = [loads EXCEPT ![m.job] = "reading"]
        /\ WorkerStays /\ UNCHANGED <<applyThread, scanActive>>
    BY <1>5, TurnOf DEF HandleStep, Starting
  <2>2. applyThread # "adopting"
    BY <1>2, <2>1 DEF Adopt
  <2>3. \A j \in Jobs : ~Busy(j)
    BY <1>2, <2>1 DEF Loads
  <2>4. \A j \in Jobs : Busy(j)' => j = m.job
    BY <1>1, <2>1, <2>3 DEF Busy
  <2>5. m.type \in Carrying
    BY <1>5 DEF Carrying, Starting
  <2>6. Held(Jobs) /\ ~Held(Jobs)'
    BY <2>1, <2>5, InboxLoses DEF HandleStep, Exclusive
  <2>7. ~Has(pipe', Loaded)
    BY <1>0, <2>6, BegunIsHeld DEF Exclusive
  <2>8. ~Has(inbox', Loaded)
    BY <2>6 DEF Held, Has, Loaded, Of, Carrying, Starting
  <2>9. Runs' <=> Runs
    BY <2>1 DEF WorkerStays, Runs
  <2> QED BY <1>0, <1>2, <1>3, <2>1, <2>2, <2>4, <2>7, <2>8, <2>9 DEF Adopt, Loads, Holds
<1>6. CASE m.type = "APPLY_TEST_RESULT"
  <2>1. /\ m \in Adoptions /\ loadThread = 0 /\ UNCHANGED <<loads, loadThread, scanActive>> /\ ~Runs'
    BY <1>6, TurnOf DEF HandleStep, Starting, Runs
  <2>2. ~Sent(Jobs)' /\ ~Has(inbox', Begun)
    BY <1>2, <1>3, <2>1 DEF Adopt
  <2>3. \A j \in Jobs : ~Busy(j)'
    BY <2>1, JobsAreNumbers DEF Busy, Loads
  <2>4. ~Reads(Jobs)'
    BY <2>3 DEF Reads, Busy
  <2> QED BY <1>0, <1>2, <2>1, <2>2, <2>3, <2>4 DEF Adopt, Loads, Holds
<1>7. CASE m.type = "loadOver"
  <2>1. /\ m \in Overs /\ loadThread' = 0 /\ WorkerStays /\ UNCHANGED <<loads, applyThread, scanActive>>
    BY <1>7, TurnOf DEF HandleStep
  <2>2. \A j \in Jobs : ~Busy(j)
    BY <1>2, <2>1 DEF Loads
  <2>3. \A j \in Jobs : ~Busy(j)'
    BY <2>1, <2>2 DEF Busy
  <2>4. (Runs' <=> Runs) /\ (Reads(Jobs)' <=> Reads(Jobs))
    BY <2>1 DEF WorkerStays, Runs, Reads
  <2> QED BY <1>0, <1>2, <1>3, <2>1, <2>3, <2>4 DEF Adopt, Loads, Holds
<1> QED
  BY <1>4, <1>5, <1>6, <1>7 DEF HandleStep

\* A handler that writes a line keeps the turns.
LEMMA TellTurn ==
    ASSUME Types, TurnInv, ~overlapped => Exclusive(Jobs),
           NEW m \in Posted, NEW e \in Written, TellStep(m, e)
    PROVE  TurnInv'
<1> SUFFICES ASSUME Exclusive(Jobs) PROVE TurnInv'
  BY DEF TurnInv, TellStep, WindowStays
<1>1. Thins(Msgs, pipe, pipe') /\ Thins(Msgs, inbox, inbox')
  BY Thinning DEF TellStep
<1>2. Runs' => Runs /\ scanActive' = scanActive
  <2>1. CASE m.type \in ScanOver
    <3>1. m.type \in Carrying /\ m.job \in Jobs
      BY <2>1 DEF TellStep, Carrying, Written
    <3>2. Held(Jobs)
      BY <3>1, InboxLoses DEF TellStep
    <3>3. ~Runs
      BY <3>2, WorkerRuns DEF Exclusive, Running
    <3> QED BY <3>3 DEF TellStep, WorkerStays, Runs
  <2>2. CASE m.type \notin ScanOver
    BY <2>2 DEF TellStep, WorkerStays, Runs
  <2> QED BY <2>1, <2>2
<1> QED
  BY <1>1, <1>2, TurnStays DEF TellStep, WindowStays

\* An adoption is sent where no job is out.
LEMMA SendTurn ==
    ASSUME TurnInv, NEW m \in Posted, SendStep(m)
    PROVE  TurnInv'
<1> SUFFICES ASSUME Adopt, Loads, Holds PROVE Adopt' /\ Loads' /\ Holds'
  BY DEF TurnInv, SendStep, WindowStays
<1>0. UNCHANGED inbox /\ WorkerStays /\ UNCHANGED <<loads, loadThread, applyThread, scanActive>>
  BY DEF SendStep, SessionStays
<1>1. m \notin Begun /\ m \notin Loaded
  BY TurnOf DEF SendStep, Starting
<1>2. /\ Has(pipe', Begun) <=> Has(pipe, Begun)
      /\ Has(pipe', Loaded) <=> Has(pipe, Loaded)
      /\ Final(pipe', Adoptions, Begun)
  BY <1>1, TurnSets DEF SendStep, Gains, Adopt
<1>3. Sent(Jobs)' <=> Sent(Jobs)
  BY <1>2 DEF Sent, Begun
<1>4. (Runs' <=> Runs) /\ (Reads(Jobs)' <=> Reads(Jobs)) /\ \A j \in Jobs : Busy(j)' <=> Busy(j)
  BY <1>0 DEF WorkerStays, Runs, Reads, Busy
<1> QED
  BY <1>0, <1>2, <1>3, <1>4 DEF Adopt, Loads, Holds

\* A job is asked for where no other is out, or the jobs overlap.
LEMMA AskTurn ==
    ASSUME TurnInv, NEW m \in Posted, AskStep(m)
    PROVE  TurnInv'
<1> SUFFICES ASSUME ~overlapped', Adopt, Loads, Holds PROVE Adopt' /\ Loads' /\ Holds'
  BY DEF TurnInv, AskStep
<1>0. UNCHANGED inbox /\ WorkerStays /\ UNCHANGED <<loads, loadThread, applyThread, scanActive>>
      /\ NoAdoption
  BY DEF AskStep, SessionStays
<1>1. applyThread' # "adopting" /\ ~Has(pipe, Adoptions) /\ ~Has(inbox', Adoptions)
  BY <1>0 DEF NoAdoption
<1>2. m \notin Adoptions
  BY TurnOf DEF AskStep
<1>3. ~Has(pipe', Adoptions)
  BY <1>1, <1>2, TurnSets DEF AskStep, Gains
<1>4. Adopt'
  BY <1>1, <1>3, EmptyOrders DEF Adopt
<1>5. (Runs' <=> Runs) /\ \A j \in Jobs : Busy(j)' <=> Busy(j)
  BY <1>0 DEF WorkerStays, Runs, Busy
<1>6. CASE m.type = "START_SCAN"
  <2>1. m \notin Loaded
    BY <1>6, TurnOf
  <2>2. Has(pipe', Loaded) => Has(pipe, Loaded)
    BY <2>1, TurnSets DEF AskStep, Gains
  <2> QED BY <1>0, <1>4, <1>5, <2>2 DEF Loads, Holds
<1>7. CASE m.type = "LOAD_INDEX"
  <2>1. loadThread = 0
    BY <1>7 DEF AskStep
  <2>2. \A j \in Jobs : ~Busy(j)'
    BY <1>5, <2>1, JobsAreNumbers DEF Loads
  <2> QED BY <1>0, <1>4, <1>5, <2>2 DEF Loads, Holds
<1> QED
  BY <1>6, <1>7 DEF AskStep

\* Turns are kept by every step.
LEMMA TurnKept ==
    ASSUME Types, TurnInv, ~overlapped => Exclusive(Jobs), Shape
    PROVE  TurnInv'
<1>1. CASE FadeStep
  <2>1. \/ WorkerStays /\ UNCHANGED <<loads, loadThread, scanActive>>
        \/ worker' = NoWorker /\ loads' = [j \in Jobs |-> "none"]
    BY <1>1 DEF FadeStep
  <2>2. /\ Runs' => Runs /\ scanActive' = scanActive
        /\ UNCHANGED <<loads, loadThread>> \/ \A j \in Jobs : ~Busy(j)'
    BY <2>1 DEF WorkerStays, Runs, NoWorker, Busy
  <2> QED BY <1>1, <2>2, TurnStays DEF FadeStep, WindowStays
<1>2. ASSUME NEW m \in Posted, PostStep(m) PROVE TurnInv'
  BY <1>2, PostTurn
<1>3. ASSUME NEW m \in Posted, ReadStep(m) PROVE TurnInv'
  BY <1>3, ReadTurn
<1>4. ASSUME NEW m \in Posted, HandleStep(m) PROVE TurnInv'
  BY <1>4, HandleTurn
<1>5. ASSUME NEW m \in Posted, SendStep(m) PROVE TurnInv'
  BY <1>5, SendTurn
<1>6. ASSUME NEW m \in Posted, AskStep(m) PROVE TurnInv'
  BY <1>6, AskTurn
<1>7. ASSUME NEW m \in Posted, NEW e \in Written, TellStep(m, e) PROVE TurnInv'
  BY <1>7, TellTurn
<1>8. CASE LossStep \/ BackStep \/ \E e \in Written : TakeStep(e)
  <2>1. UNCHANGED <<pipe, inbox, overlapped>> /\ WorkerStays /\ SessionStays
    BY <1>8 DEF TakeStep, LossStep, BackStep
  <2>2. Thins(Msgs, pipe, pipe') /\ Thins(Msgs, inbox, inbox')
    BY <2>1, Thinning
  <2> QED BY <2>1, <2>2, TurnStays DEF WorkerStays, SessionStays, Runs
<1> QED
  BY <1>1, <1>2, <1>3, <1>4, <1>5, <1>6, <1>7, <1>8 DEF Shape

-----------------------------------------------------------------------------
(* The whole invariant.                                                       *)

ControlInv ==
    /\ Sound /\ IInv /\ CalmInv /\ TurnInv
    /\ ~overlapped => Exclusive(Jobs)

\* The whole invariant holds of a window that has just opened.
LEMMA ControlBegins == Init => ControlInv
<1> SUFFICES ASSUME Init PROVE ControlInv
  OBVIOUS
<1>1. /\ process = "up" /\ pipe = <<>> /\ inbox = <<>> /\ out = <<>> /\ worker = NoWorker
      /\ loads = [j \in Jobs |-> "none"] /\ loadThread = 0 /\ applyThread = "none"
      /\ available = TRUE
  BY DEF Init, FreshSession
<1>2. Sound
  BY <1>1, TypesBegin DEF Sound, NotUp
<1>3. IInv
  BY InvBegins
<1>4. ~Runs /\ \A j \in Jobs : loads[j] # "reading" /\ ~Busy(j)
  BY <1>1 DEF Runs, NoWorker, Busy
<1>5. \A S, T : /\ ~Has(pipe, S) /\ ~Has(inbox, S) /\ ~Has(out, S)
                /\ Final(out, S, T) /\ Final(inbox, S, T) /\ Final(pipe, S, T)
                /\ One(pipe, S) /\ One(inbox, S) /\ One(out, S)
  BY <1>1, HasNone, EmptyOrders DEF One
<1>6. CalmInv
  BY <1>4, <1>5 DEF CalmInv, Named, InOrder, Closed
<1>7. TurnInv
  BY <1>1, <1>4, <1>5 DEF TurnInv, Adopt, Loads, Holds
<1>8. Exclusive(Jobs)
  BY <1>4, <1>5 DEF Exclusive, OneReader, Sent, Held, Ended, Running, Reads
<1> QED
  BY <1>2, <1>3, <1>6, <1>7, <1>8 DEF ControlInv

\* Every step keeps the whole invariant: by its shape it keeps each part.
LEMMA ControlKept ==
    ASSUME ControlInv, [Next]_vars
    PROVE  ControlInv'
<1>1. Sound /\ Types /\ OneJob
  BY DEF ControlInv, Sound, IInv
<1>2. Shape
  BY <1>1, Shapes
<1>3. Sound'
  BY <1>1, NotUpKept, TypesKept DEF Sound
<1>4. IInv'
  BY StepKeeps DEF ControlInv
<1>5. CalmInv'
  BY <1>1, <1>2, CalmKept DEF ControlInv
<1>6. TurnInv'
  BY <1>1, <1>2, TurnKept DEF ControlInv
<1>7. ~overlapped' => Exclusive(Jobs)'
  BY <1>1, <1>2, OnlyOneKept DEF ControlInv
<1> QED
  BY <1>3, <1>4, <1>5, <1>6, <1>7 DEF ControlInv

\* Every job is in one place, under its name and in its turn, and the window waits for at most one.
THEOREM ControlHolds == Spec => []ControlInv
<1> QED
  BY ControlBegins, ControlKept, PTL DEF Spec

\* What the window takes for the end or the answer of the job it waits for is that job's.
THEOREM WindowAgrees == Spec => []Agreed
<1>1. ControlInv => Agreed
  <2> SUFFICES ASSUME ControlInv PROVE Agreed
    OBVIOUS
  <2>1. ScanAgreed
    BY DEF ControlInv, IInv
  <2>2. AnswersMatch
    <3> SUFFICES ASSUME available, ~overlapped, NEW i \in DOMAIN out
                 PROVE  /\ out[i].type = "FINISHED" => out[i].job = scanning
                        /\ out[i].type \in {"RESULTS_PAGE", "FAILED"}
                              => out[i].job = IF loading # 0 THEN loading ELSE scanning
      BY DEF AnswersMatch
    <3>1. out[i] \in Written
      BY LenProperties, ElementOfSeq DEF ControlInv, Sound, Types, ProcessTypes
    <3>2. out[i] \notin Alien(scanning, loading)
      BY DEF ControlInv, CalmInv, Calm, Named, Has
    <3>3. scanning = 0 \/ loading = 0
      BY DEF ControlInv, IInv, OneJob
    <3> QED BY <3>1, <3>2 DEF Alien, Speaking, Ends
  <2> QED BY <2>1, <2>2 DEF Agreed
<1> QED
  BY <1>1, ControlHolds, PTL

\* At most one load reads.
LEMMA FewReaders ==
    ASSUME Exclusive(Jobs)
    PROVE  /\ Cardinality(Reading) \in Nat /\ Cardinality(Reading) <= 1
           /\ Reading = {} => Cardinality(Reading) = 0
           /\ ~Reads(Jobs) <=> Reading = {}
<1>1. CASE Reading = {}
  <2>1. Cardinality(Reading) = 0
    BY <1>1, FS_EmptySet
  <2> QED BY <1>1, <2>1 DEF Reading, Reads
<1>2. CASE Reading # {}
  <2>1. PICK j \in Reading : TRUE
    BY <1>2
  <2>2. Reading = {j}
    BY <2>1 DEF Exclusive, OneReader, Reading
  <2>3. Cardinality(Reading) = 1
    BY <2>2, FS_Singleton
  <2> QED BY <2>1, <2>3 DEF Reading, Reads
<1> QED
  BY <1>1, <1>2

\* A scan, a load and an adoption write the index one at a time, and the session knows of
\* every scan that runs.
THEOREM IndexIsHeld == Spec => []IndexHeld
<1>1. ControlInv => IndexHeld
  <2> SUFFICES ASSUME ControlInv PROVE IndexHeld
    OBVIOUS
  <2>1. OneWriter
    <3> SUFFICES ASSUME ~overlapped
                 PROVE  Cardinality(Reading) + (IF worker.phase = "scanning" THEN 1 ELSE 0)
                            + (IF applyThread = "adopting" THEN 1 ELSE 0) <= 1
      BY DEF OneWriter
    <3>1. Exclusive(Jobs) /\ Adopt
      BY DEF ControlInv, TurnInv
    <3>2. worker.phase = "scanning" => Running(Jobs)
      BY WorkerRuns DEF ControlInv, Sound, Running, Runs
    <3>3. worker.phase = "scanning" => Reading = {}
      BY <3>1, <3>2, FewReaders DEF Exclusive
    <3>4. applyThread = "adopting" => Reading = {} /\ worker.phase # "scanning"
      BY <3>1, FewReaders DEF Adopt, Runs
    <3> QED BY <3>1, <3>3, <3>4, FewReaders
  <2>2. ScanHoldsIndex
    BY DEF ControlInv, TurnInv, Holds, Runs, ScanHoldsIndex
  <2> QED BY <2>1, <2>2 DEF IndexHeld
<1> QED
  BY <1>1, ControlHolds, PTL

-----------------------------------------------------------------------------
(* Every job has its number, is a scan or a load, and is in one place.        *)

ScanAsked(q, j) == Has(q, Of({"START_SCAN"}, {j}))
LoadAsked(q, j) == Has(q, Of({"LOAD_INDEX"} \cup Answers, {j}))

ScanItem(j) == scanning = j \/ worker.job = j \/ ScanAsked(pipe, j) \/ ScanAsked(inbox, j)
LoadItem(j) == LoadAsked(pipe, j) \/ LoadAsked(inbox, j) \/ loads[j] # "none"

\* No trace of a job that has not been asked for.
Unused(j) == ~Sent({j}) /\ ~Held({j}) /\ ~Ended({j}) /\ ~ScanItem(j) /\ ~LoadItem(j)

Numbered == \A j \in Jobs : j > requests => Unused(j)
Apart    == \A j \in Jobs : ~(ScanItem(j) /\ LoadItem(j))
EachOnce == \A j \in Jobs : Exclusive({j})

JobsInv == Numbered /\ Apart /\ EachOnce

\* What a queue of messages asks for, as it is thinned, grows or loses its head.
LEMMA QueueItems ==
    ASSUME NEW q, NEW r, NEW j, NEW m \in Posted
    PROVE  /\ Thins(Msgs, q, r) =>
                 (ScanAsked(r, j) => ScanAsked(q, j)) /\ (LoadAsked(r, j) => LoadAsked(q, j))
           /\ Gains(Msgs, q, r, m) =>
                 /\ ScanAsked(r, j) => ScanAsked(q, j) \/ (m.type = "START_SCAN" /\ m.job = j)
                 /\ LoadAsked(r, j) => LoadAsked(q, j) \/ (m.type \in LoadSays /\ m.job = j)
           /\ Loses(Msgs, q, r, m) =>
                 /\ ScanAsked(q, j) <=> ScanAsked(r, j) \/ (m.type = "START_SCAN" /\ m.job = j)
                 /\ LoadAsked(q, j) <=> LoadAsked(r, j) \/ (m.type \in LoadSays /\ m.job = j)
<1>1. /\ m \in Of({"START_SCAN"}, {j}) <=> m.type = "START_SCAN" /\ m.job = j
      /\ m \in Of({"LOAD_INDEX"} \cup Answers, {j}) <=> m.type \in LoadSays /\ m.job = j
  BY DEF Of, LoadSays
<1>2. Of({"START_SCAN"}, {j}) \in SUBSET Msgs /\ Of({"LOAD_INDEX"} \cup Answers, {j}) \in SUBSET Msgs
  BY LoudSets
<1>3. Thins(Msgs, q, r) =>
        (ScanAsked(r, j) => ScanAsked(q, j)) /\ (LoadAsked(r, j) => LoadAsked(q, j))
  BY <1>2 DEF Thins, ScanAsked, LoadAsked
<1>4. Gains(Msgs, q, r, m) =>
        /\ ScanAsked(r, j) => ScanAsked(q, j) \/ (m.type = "START_SCAN" /\ m.job = j)
        /\ LoadAsked(r, j) => LoadAsked(q, j) \/ (m.type \in LoadSays /\ m.job = j)
  BY <1>1, <1>2 DEF Gains, ScanAsked, LoadAsked
<1>5. Loses(Msgs, q, r, m) =>
        /\ ScanAsked(q, j) <=> ScanAsked(r, j) \/ (m.type = "START_SCAN" /\ m.job = j)
        /\ LoadAsked(q, j) <=> LoadAsked(r, j) \/ (m.type \in LoadSays /\ m.job = j)
  BY <1>1, <1>2 DEF Loses, ScanAsked, LoadAsked
<1> QED BY <1>3, <1>4, <1>5

\* A pipe that is thinned asks for no more.
LEMMA PipeThins ==
    ASSUME NEW j, Thins(Msgs, pipe, pipe')
    PROVE  /\ ScanAsked(pipe', j) => ScanAsked(pipe, j)
           /\ LoadAsked(pipe', j) => LoadAsked(pipe, j)
  BY LoudSets DEF Thins, ScanAsked, LoadAsked

\* Nor does an inbox.
LEMMA InboxThins ==
    ASSUME NEW j, Thins(Msgs, inbox, inbox')
    PROVE  /\ ScanAsked(inbox', j) => ScanAsked(inbox, j)
           /\ LoadAsked(inbox', j) => LoadAsked(inbox, j)
  BY LoudSets DEF Thins, ScanAsked, LoadAsked

BecomesScan(j) == requests' = requests + 1 /\ j = requests + 1 /\ scanning' = j
BecomesLoad(j) == requests' = requests + 1 /\ j = requests + 1 /\ UNCHANGED scanning

\* A job becomes a scan, or a load, as it is asked for.
LEMMA ItemsCome ==
    ASSUME Types, Shape, NEW j \in Jobs
    PROVE  /\ ScanItem(j)' => \/ ScanItem(j)
                              \/ BecomesScan(j)
           /\ LoadItem(j)' => \/ LoadItem(j)
                              \/ BecomesLoad(j)
<1>0. j # 0 /\ loads \in [Jobs -> LoadPhases]
  BY JobsAreNumbers DEF Types, ProcessTypes
<1>1. CASE FadeStep
  <2>1. /\ ScanAsked(pipe', j) => ScanAsked(pipe, j)
        /\ LoadAsked(pipe', j) => LoadAsked(pipe, j)
        /\ ScanAsked(inbox', j) => ScanAsked(inbox, j)
        /\ LoadAsked(inbox', j) => LoadAsked(inbox, j)
    BY <1>1, PipeThins, InboxThins DEF FadeStep
  <2>2. UNCHANGED scanning
    BY <1>1 DEF FadeStep, WindowStays
  <2>3. (worker'.job = worker.job \/ worker'.job = 0) /\ (loads'[j] = loads[j] \/ loads'[j] = "none")
    BY <1>1 DEF FadeStep, WorkerStays, NoWorker
  <2> QED BY <1>0, <2>1, <2>2, <2>3 DEF ScanItem, LoadItem
<1>2. ASSUME NEW m \in Posted, PostStep(m)
      PROVE  (ScanItem(j)' => ScanItem(j)) /\ (LoadItem(j)' => LoadItem(j))
  <2>1. /\ ScanAsked(inbox', j) => ScanAsked(inbox, j) \/ (m.type = "START_SCAN" /\ m.job = j)
        /\ LoadAsked(inbox', j) => LoadAsked(inbox, j) \/ (m.type \in LoadSays /\ m.job = j)
    BY <1>2, QueueItems DEF PostStep
  <2>2. m.type # "START_SCAN" /\ UNCHANGED <<pipe, scanning>> /\ worker'.job = worker.job
    BY <1>2 DEF PostStep, WindowStays, WorkerStays, ScanOver, Answers
  <2>3. m.type \in LoadSays => loads[m.job] # "none"
    BY <1>2 DEF PostStep, LoadSays, ScanOver, Answers
  <2>4. loads'[j] # "none" => loads[j] # "none"
    BY <1>0, <1>2 DEF PostStep
  <2> QED BY <2>1, <2>2, <2>3, <2>4 DEF ScanItem, LoadItem
<1>3. ASSUME NEW m \in Posted, ReadStep(m)
      PROVE  (ScanItem(j)' => ScanItem(j)) /\ (LoadItem(j)' => LoadItem(j))
  <2>1. /\ ScanAsked(inbox', j) => ScanAsked(inbox, j) \/ (m.type = "START_SCAN" /\ m.job = j)
        /\ LoadAsked(inbox', j) => LoadAsked(inbox, j) \/ (m.type \in LoadSays /\ m.job = j)
        /\ ScanAsked(pipe, j) <=> ScanAsked(pipe', j) \/ (m.type = "START_SCAN" /\ m.job = j)
        /\ LoadAsked(pipe, j) <=> LoadAsked(pipe', j) \/ (m.type \in LoadSays /\ m.job = j)
    BY <1>3, QueueItems DEF ReadStep
  <2>2. UNCHANGED <<scanning, loads>> /\ worker'.job = worker.job
    BY <1>3 DEF ReadStep, WindowStays, WorkerStays, SessionStays
  <2> QED BY <2>1, <2>2 DEF ScanItem, LoadItem
<1>4. ASSUME NEW m \in Posted, HandleStep(m)
      PROVE  (ScanItem(j)' => ScanItem(j)) /\ (LoadItem(j)' => LoadItem(j))
  <2>1. /\ ScanAsked(inbox, j) <=> ScanAsked(inbox', j) \/ (m.type = "START_SCAN" /\ m.job = j)
        /\ LoadAsked(inbox, j) <=> LoadAsked(inbox', j) \/ (m.type \in LoadSays /\ m.job = j)
    BY <1>4, QueueItems DEF HandleStep
  <2>2. UNCHANGED <<pipe, scanning>>
    BY <1>4 DEF HandleStep, WindowStays
  <2>3. worker'.job = j => worker.job = j \/ (m.type = "START_SCAN" /\ m.job = j)
    BY <1>0, <1>4 DEF HandleStep, WorkerStays
  <2>4. loads'[j] # "none" => loads[j] # "none" \/ (m.type = "LOAD_INDEX" /\ m.job = j)
    BY <1>0, <1>4 DEF HandleStep
  <2> QED BY <2>1, <2>2, <2>3, <2>4 DEF ScanItem, LoadItem, LoadSays
<1>5. ASSUME NEW m \in Posted, SendStep(m)
      PROVE  (ScanItem(j)' => ScanItem(j)) /\ (LoadItem(j)' => LoadItem(j))
  <2>1. /\ ScanAsked(pipe', j) => ScanAsked(pipe, j) \/ (m.type = "START_SCAN" /\ m.job = j)
        /\ LoadAsked(pipe', j) => LoadAsked(pipe, j) \/ (m.type \in LoadSays /\ m.job = j)
    BY <1>5, QueueItems DEF SendStep
  <2>2. m.type # "START_SCAN" /\ m.type \notin LoadSays
    BY <1>5 DEF SendStep, Lines, Commands, Starting, LoadSays, Answers
  <2>3. UNCHANGED <<inbox, scanning, loads>> /\ worker'.job = worker.job
    BY <1>5 DEF SendStep, WindowStays, WorkerStays, SessionStays
  <2> QED BY <2>1, <2>2, <2>3 DEF ScanItem, LoadItem
<1>6. ASSUME NEW m \in Posted, AskStep(m)
      PROVE  /\ ScanItem(j)' => \/ ScanItem(j)
                              \/ BecomesScan(j)
             /\ LoadItem(j)' => \/ LoadItem(j)
                              \/ BecomesLoad(j)
  <2>1. /\ ScanAsked(pipe', j) => ScanAsked(pipe, j) \/ (m.type = "START_SCAN" /\ m.job = j)
        /\ LoadAsked(pipe', j) => LoadAsked(pipe, j) \/ (m.type \in LoadSays /\ m.job = j)
    BY <1>6, QueueItems DEF AskStep
  <2>2. UNCHANGED <<inbox, loads>> /\ worker'.job = worker.job
    BY <1>6 DEF AskStep, WorkerStays, SessionStays
  <2>3. requests' = requests + 1 /\ m.job = requests + 1
    BY <1>6 DEF AskStep
  <2>4. CASE m.type = "START_SCAN"
    <3>1. scanning' = requests + 1 /\ m.type \notin LoadSays
      BY <1>6, <2>4 DEF AskStep, LoadSays, Answers
    <3> QED BY <2>1, <2>2, <2>3, <3>1 DEF ScanItem, LoadItem, BecomesScan, BecomesLoad
  <2>5. CASE m.type = "LOAD_INDEX"
    <3>1. UNCHANGED scanning /\ m.type # "START_SCAN"
      BY <1>6, <2>5 DEF AskStep
    <3> QED BY <2>1, <2>2, <2>3, <3>1 DEF ScanItem, LoadItem, BecomesScan, BecomesLoad
  <2> QED BY <1>6, <2>4, <2>5 DEF AskStep
<1>7. ASSUME NEW m \in Posted, NEW e \in Written, TellStep(m, e)
      PROVE  (ScanItem(j)' => ScanItem(j)) /\ (LoadItem(j)' => LoadItem(j))
  <2>1. /\ ScanAsked(inbox', j) => ScanAsked(inbox, j)
        /\ LoadAsked(inbox', j) => LoadAsked(inbox, j)
    BY <1>7, QueueItems DEF TellStep
  <2>2. UNCHANGED <<pipe, scanning, loads>> /\ worker'.job = worker.job
    BY <1>7 DEF TellStep, WindowStays, WorkerStays
  <2> QED BY <2>1, <2>2 DEF ScanItem, LoadItem
<1>8. CASE LossStep \/ BackStep \/ \E e \in Written : TakeStep(e)
  <2>1. /\ UNCHANGED <<pipe, inbox, loads>> /\ worker'.job = worker.job
        /\ scanning' = scanning \/ scanning' = 0
    BY <1>8 DEF TakeStep, LossStep, BackStep, WorkerStays, SessionStays
  <2> QED BY <1>0, <2>1 DEF ScanItem, LoadItem
<1> QED
  BY <1>1, <1>2, <1>3, <1>4, <1>5, <1>6, <1>7, <1>8 DEF Shape

\* A job that was never asked for leaves no trace until it is.
LEMMA UnusedKept ==
    ASSUME Types, Shape, NEW j \in Jobs, Unused(j), ~(requests' = requests + 1 /\ j = requests + 1)
    PROVE  Unused(j)'
<1>0. ~ScanItem(j)' /\ ~LoadItem(j)'
  BY ItemsCome DEF Unused, BecomesScan, BecomesLoad
<1>1. worker.job # j /\ loads[j] = "none"
  BY DEF Unused, ScanItem, LoadItem
<1>2. ~Sent({j}) /\ ~Held({j}) /\ ~Ended({j})
  BY DEF Unused
<1>3. CASE FadeStep
  BY <1>0, <1>2, <1>3, ThinsOf, SaysOf DEF FadeStep, Unused
<1>4. ASSUME NEW m \in Posted, PostStep(m)
      PROVE  Unused(j)'
  <2>1. Held({j})' <=> Held({j}) \/ (m.type \in Carrying /\ m.job \in {j})
    BY <1>4, InboxGains DEF PostStep
  <2>2. ~(m.type \in Carrying /\ m.job \in {j})
    BY <1>1, <1>4 DEF PostStep, Carrying, Starting, ScanOver, Answers
  <2>3. ~Sent({j})' /\ ~Ended({j})'
    BY <1>2, <1>4, Same DEF PostStep
  <2> QED BY <1>0, <1>2, <2>1, <2>2, <2>3 DEF Unused
<1>5. ASSUME NEW m \in Posted, ReadStep(m)
      PROVE  Unused(j)'
  <2>1. /\ Sent({j}) <=> Sent({j})' \/ (m.type \in Starting /\ m.job \in {j})
        /\ Held({j})' <=> Held({j}) \/ (m.type \in Carrying /\ m.job \in {j})
    BY <1>5, PipeLoses, InboxGains DEF ReadStep
  <2>2. m.type \in Carrying <=> m.type \in Starting
    BY <1>5 DEF ReadStep, Lines, Commands, Carrying, Starting, ScanOver, Answers
  <2>3. ~Ended({j})'
    BY <1>2, <1>5, Same DEF ReadStep
  <2> QED BY <1>0, <1>2, <2>1, <2>2, <2>3 DEF Unused
<1>6. ASSUME NEW m \in Posted, HandleStep(m)
      PROVE  Unused(j)'
  <2>1. Held({j})' => Held({j})
    BY <1>6, InboxLoses DEF HandleStep
  <2>2. ~Sent({j})' /\ ~Ended({j})'
    BY <1>2, <1>6, Same DEF HandleStep
  <2> QED BY <1>0, <1>2, <2>1, <2>2 DEF Unused
<1>7. ASSUME NEW m \in Posted, SendStep(m)
      PROVE  Unused(j)'
  <2>1. Sent({j})' <=> Sent({j})
    BY <1>7, PipeGains DEF SendStep
  <2>2. ~Held({j})' /\ ~Ended({j})'
    BY <1>2, <1>7, Same DEF SendStep
  <2> QED BY <1>0, <1>2, <2>1, <2>2 DEF Unused
<1>8. ASSUME NEW m \in Posted, AskStep(m)
      PROVE  Unused(j)'
  <2>1. m.job # j
    BY <1>8 DEF AskStep
  <2>2. Sent({j})' => Sent({j})
    <3>1. CASE UNCHANGED pipe
      BY <3>1, Same
    <3>2. CASE Gains(Msgs, pipe, pipe', m)
      BY <2>1, <3>2, PipeGains
    <3> QED BY <1>8, <3>1, <3>2 DEF AskStep
  <2>3. ~Held({j})' /\ ~Ended({j})'
    BY <1>2, <1>8, Same DEF AskStep
  <2> QED BY <1>0, <1>2, <2>2, <2>3 DEF Unused
<1>9. ASSUME NEW m \in Posted, NEW e \in Written, TellStep(m, e)
      PROVE  Unused(j)'
  <2>1. /\ Held({j}) <=> Held({j})' \/ (m.type \in Carrying /\ m.job \in {j})
        /\ Ended({j})' <=> Ended({j}) \/ (e.type \in Ends /\ e.job \in {j})
    BY <1>9, InboxLoses, OutGains DEF TellStep
  <2>2. e.type \in Ends => m.type \in Carrying /\ m.job = e.job
    BY <1>9 DEF TellStep, Ends, Carrying, ScanOver, Answers
  <2>3. ~Sent({j})'
    BY <1>2, <1>9, Same DEF TellStep
  <2> QED BY <1>0, <1>2, <2>1, <2>2, <2>3 DEF Unused
<1>10. CASE LossStep \/ BackStep \/ \E e \in Written : TakeStep(e)
  <2>1. UNCHANGED <<pipe, inbox>>
    BY <1>10 DEF TakeStep, LossStep, BackStep
  <2>2. Ended({j})' => Ended({j})
    BY <1>10, SaysOf, OutLoses, Thinning DEF TakeStep, LossStep, BackStep
  <2> QED BY <1>0, <1>2, <2>1, <2>2, Same DEF Unused
<1> QED
  BY <1>3, <1>4, <1>5, <1>6, <1>7, <1>8, <1>9, <1>10 DEF Shape

\* The numbers, kinds and places of the jobs are kept by every step.
LEMMA JobsKept ==
    ASSUME Types, JobsInv, Shape
    PROVE  JobsInv'
<1>0. requests \in Nat /\ Jobs \subseteq Nat /\ requests' \in {requests, requests + 1}
  <2>1. requests \in Nat /\ Jobs \subseteq Nat
    BY JobsAreNumbers DEF Types, WindowTypes, Numbers
  <2>2. requests' \in {requests, requests + 1}
    BY DEF Shape, FadeStep, PostStep, ReadStep, HandleStep, SendStep, AskStep, TellStep, TakeStep,
           LossStep, BackStep, WindowStays
  <2> QED BY <2>1, <2>2
<1>1. Numbered'
  <2> SUFFICES ASSUME NEW j \in Jobs, j > requests' PROVE Unused(j)'
    BY DEF Numbered
  <2>1. j \in Nat /\ j > requests /\ ~(requests' = requests + 1 /\ j = requests + 1)
    BY <1>0
  <2>2. Unused(j)
    BY <2>1 DEF JobsInv, Numbered
  <2> QED BY <2>1, <2>2, UnusedKept
<1>2. ASSUME NEW j \in Jobs, j = requests + 1 PROVE Unused(j)
  <2>1. j > requests
    BY <1>0, <1>2
  <2> QED BY <2>1 DEF JobsInv, Numbered
<1>3. Apart'
  <2> SUFFICES ASSUME NEW j \in Jobs, ScanItem(j)', LoadItem(j)' PROVE FALSE
    BY DEF Apart
  <2>1. CASE j = requests + 1 /\ requests' = requests + 1
    <3>1. ~ScanItem(j) /\ ~LoadItem(j)
      BY <1>2, <2>1 DEF Unused
    <3>2. scanning' = j /\ UNCHANGED scanning
      BY <3>1, ItemsCome DEF BecomesScan, BecomesLoad
    <3> QED BY <3>1, <3>2 DEF ScanItem
  <2>2. CASE ~(j = requests + 1 /\ requests' = requests + 1)
    <3>1. ScanItem(j) /\ LoadItem(j)
      BY <2>2, ItemsCome DEF BecomesScan, BecomesLoad
    <3> QED BY <3>1 DEF JobsInv, Apart
  <2> QED BY <2>1, <2>2
<1>4. EachOnce'
  <2> SUFFICES ASSUME NEW j \in Jobs PROVE Exclusive({j})'
    BY DEF EachOnce
  <2>1. Exclusive({j}) /\ {j} \in SUBSET Jobs
    BY DEF JobsInv, EachOnce
  <2>2. requests + 1 \in {j} => Untraced({j})
    <3> SUFFICES ASSUME requests + 1 = j PROVE Untraced({j})
      OBVIOUS
    <3>1. Unused(j)
      BY <1>2
    <3> QED BY <3>1 DEF Unused, Untraced, Running, Reads, ScanItem, LoadItem
  <2> QED BY <2>1, <2>2, ExclusiveKept
<1> QED
  BY <1>1, <1>3, <1>4 DEF JobsInv

\* No job is anywhere at first.
LEMMA JobsBegin == Init => JobsInv
<1> SUFFICES ASSUME Init PROVE JobsInv
  OBVIOUS
<1>1. /\ pipe = <<>> /\ inbox = <<>> /\ out = <<>> /\ worker = NoWorker
      /\ loads = [j \in Jobs |-> "none"] /\ scanning = 0
  BY DEF Init, FreshSession
<1>2. ~Runs /\ worker.job = 0 /\ \A j \in Jobs : loads[j] = "none"
  BY <1>1 DEF Runs, NoWorker
<1>3. \A S, T : /\ ~Has(pipe, S) /\ ~Has(inbox, S) /\ ~Has(out, S)
                /\ One(pipe, S) /\ One(inbox, S) /\ One(out, S)
  BY <1>1, HasNone DEF One
<1>4. ASSUME NEW j \in Jobs PROVE ~ScanItem(j) /\ ~LoadItem(j) /\ Unused(j) /\ Exclusive({j})
  <2>1. ~ScanItem(j) /\ ~LoadItem(j)
    BY <1>1, <1>2, <1>3, JobsAreNumbers DEF ScanItem, LoadItem, ScanAsked, LoadAsked
  <2>2. ~Sent({j}) /\ ~Held({j}) /\ ~Ended({j}) /\ ~Running({j}) /\ ~Reads({j}) /\ OneReader({j})
    BY <1>2, <1>3 DEF Sent, Held, Ended, Running, Reads, OneReader
  <2> QED BY <1>3, <2>1, <2>2 DEF Unused, Exclusive
<1> QED
  BY <1>4 DEF JobsInv, Numbered, Apart, EachOnce

-----------------------------------------------------------------------------
(* What a scan finds reaches the window before the word of its end.           *)

\* What has been told up to the i-th line.
Heard(q, i) == UNION {q[k].matches : k \in 1..i}

\* Only a batch tells of matches.
Plain == {e \in Written : e.type # "MATCHES_BATCH" => e.matches = {}}

Lossless ==
    (scanning # 0 /\ worker.job = scanning) =>
       /\ process = "up" => worker.found \subseteq worker.pending \cup Told(out) \cup got
       /\ \A i \in DOMAIN out :
             out[i] \in By(Ends, {scanning}) => worker.found \subseteq Heard(out, i) \cup got

LossInv == out \in Seq(Plain) /\ Lossless

\* What is told up to a line, as the window's invariant says it.
LEMMA HeardIsTold ==
    ASSUME NEW M, NEW q \in Seq(M), NEW i \in DOMAIN q
    PROVE  Told(SubSeq(q, 1, i)) = Heard(q, i)
<1>1. i \in 1..Len(q) /\ Len(q) \in Nat
  BY LenProperties
<1>2. DOMAIN SubSeq(q, 1, i) = 1..i /\ \A k \in 1..i : SubSeq(q, 1, i)[k] = q[k]
  BY <1>1
<1> QED
  BY <1>2 DEF Told, Heard

\* What is added tells more, after what was told before.
LEMMA ToldMore ==
    ASSUME NEW M, NEW q \in Seq(M), NEW r \in Seq(M)
    PROVE  /\ Told(q \o r) = Told(q) \cup Told(r)
           /\ \A i \in DOMAIN (q \o r) :
                 \/ i \in DOMAIN q /\ (q \o r)[i] = q[i] /\ Heard(q \o r, i) = Heard(q, i)
                 \/ /\ \E k \in DOMAIN r : (q \o r)[i] = r[k]
                    /\ Told(q) \subseteq Heard(q \o r, i)
<1> DEFINE u == q \o r
<1>1. /\ Len(q) \in Nat /\ Len(r) \in Nat /\ DOMAIN q = 1..Len(q) /\ DOMAIN r = 1..Len(r)
      /\ DOMAIN u = 1..(Len(q) + Len(r))
      /\ \A i \in 1..(Len(q) + Len(r)) : u[i] = IF i <= Len(q) THEN q[i] ELSE r[i - Len(q)]
  BY ConcatProperties, LenProperties
<1> HIDE DEF u
<1>2. ASSUME NEW x, x \in Told(u)
      PROVE  x \in Told(q) \cup Told(r)
  <2>1. PICK i \in DOMAIN u : x \in u[i].matches
    BY <1>2 DEF Told
  <2>2. CASE i <= Len(q)
    <3>1. i \in DOMAIN q /\ x \in q[i].matches
      BY <1>1, <2>1, <2>2
    <3> QED BY <3>1 DEF Told
  <2>3. CASE ~(i <= Len(q))
    <3>1. i - Len(q) \in DOMAIN r /\ x \in r[i - Len(q)].matches
      BY <1>1, <2>1, <2>3
    <3> QED BY <3>1 DEF Told
  <2> QED BY <2>2, <2>3
<1>3. ASSUME NEW x, x \in Told(q)
      PROVE  x \in Told(u)
  <2>1. PICK i \in DOMAIN q : x \in q[i].matches
    BY <1>3 DEF Told
  <2>2. i \in DOMAIN u /\ x \in u[i].matches
    BY <1>1, <2>1
  <2> QED BY <2>2 DEF Told
<1>4. ASSUME NEW x, x \in Told(r)
      PROVE  x \in Told(u)
  <2>1. PICK i \in DOMAIN r : x \in r[i].matches
    BY <1>4 DEF Told
  <2>2. i + Len(q) \in DOMAIN u /\ u[i + Len(q)] = r[i]
    BY <1>1
  <2> QED BY <2>1, <2>2 DEF Told
<1>5. ASSUME NEW i \in DOMAIN u, i <= Len(q)
      PROVE  i \in DOMAIN q /\ u[i] = q[i] /\ Heard(u, i) = Heard(q, i)
  <2>1. i \in DOMAIN q /\ u[i] = q[i]
    BY <1>1, <1>5
  <2>2. \A k \in 1..i : u[k] = q[k]
    BY <1>1, <1>5
  <2> QED BY <2>1, <2>2 DEF Heard
<1>6. ASSUME NEW i \in DOMAIN u, ~(i <= Len(q))
      PROVE  (\E k \in DOMAIN r : u[i] = r[k]) /\ Told(q) \subseteq Heard(u, i)
  <2>1. i - Len(q) \in DOMAIN r /\ u[i] = r[i - Len(q)]
    BY <1>1, <1>6
  <2>2. \A k \in DOMAIN q : k \in 1..i /\ u[k] = q[k]
    BY <1>1, <1>6
  <2> QED BY <2>1, <2>2 DEF Heard, Told
<1> QED
  BY <1>2, <1>3, <1>4, <1>5, <1>6 DEF u

\* What is taken is told.
LEMMA ToldLess ==
    ASSUME NEW M, NEW q \in Seq(M), q # <<>>
    PROVE  /\ Told(q) = Head(q).matches \cup Told(Tail(q))
           /\ \A i \in DOMAIN Tail(q) :
                 /\ i + 1 \in DOMAIN q /\ Tail(q)[i] = q[i + 1]
                 /\ Heard(q, i + 1) = Head(q).matches \cup Heard(Tail(q), i)
<1> DEFINE u == Tail(q)
<1>1. /\ Len(q) \in Nat /\ Len(q) # 0 /\ DOMAIN q = 1..Len(q) /\ DOMAIN u = 1..(Len(q) - 1)
      /\ Head(q) = q[1] /\ \A i \in 1..(Len(q) - 1) : u[i] = q[i + 1]
  BY HeadTailProperties, LenProperties, EmptySeq
<1> HIDE DEF u
<1>2. ASSUME NEW x, x \in Told(q)
      PROVE  x \in Head(q).matches \cup Told(u)
  <2>1. PICK i \in DOMAIN q : x \in q[i].matches
    BY <1>2 DEF Told
  <2>2. CASE i = 1
    BY <1>1, <2>1, <2>2
  <2>3. CASE i # 1
    <3>1. i - 1 \in DOMAIN u /\ u[i - 1] = q[i]
      BY <1>1, <2>3
    <3> QED BY <2>1, <3>1 DEF Told
  <2> QED BY <2>2, <2>3
<1>3. ASSUME NEW x, x \in Head(q).matches \cup Told(u)
      PROVE  x \in Told(q)
  <2>1. CASE x \in Head(q).matches
    <3>1. 1 \in DOMAIN q /\ x \in q[1].matches
      BY <1>1, <2>1
    <3> QED BY <3>1 DEF Told
  <2>2. CASE x \in Told(u)
    <3>1. PICK i \in DOMAIN u : x \in u[i].matches
      BY <2>2 DEF Told
    <3>2. i + 1 \in DOMAIN q /\ q[i + 1] = u[i]
      BY <1>1
    <3> QED BY <3>1, <3>2 DEF Told
  <2> QED BY <1>3, <2>1, <2>2
<1>4. ASSUME NEW i \in DOMAIN u
      PROVE  /\ i + 1 \in DOMAIN q /\ u[i] = q[i + 1]
             /\ Heard(q, i + 1) = Head(q).matches \cup Heard(u, i)
  <2>1. i + 1 \in DOMAIN q /\ u[i] = q[i + 1] /\ i \in Nat
    BY <1>1
  <2>2. ASSUME NEW x, x \in Heard(q, i + 1)
        PROVE  x \in Head(q).matches \cup Heard(u, i)
    <3>1. PICK k \in 1..(i + 1) : x \in q[k].matches
      BY <2>2 DEF Heard
    <3>2. CASE k = 1
      BY <1>1, <3>1, <3>2
    <3>3. CASE k # 1
      <4>1. k - 1 \in 1..i /\ u[k - 1] = q[k]
        BY <1>1, <2>1, <3>3
      <4> QED BY <3>1, <4>1 DEF Heard
    <3> QED BY <3>2, <3>3
  <2>3. ASSUME NEW x, x \in Head(q).matches \cup Heard(u, i)
        PROVE  x \in Heard(q, i + 1)
    <3>1. CASE x \in Head(q).matches
      <4>1. 1 \in 1..(i + 1) /\ x \in q[1].matches
        BY <1>1, <2>1, <3>1
      <4> QED BY <4>1 DEF Heard
    <3>2. CASE x \in Heard(u, i)
      <4>1. PICK k \in 1..i : x \in u[k].matches
        BY <3>2 DEF Heard
      <4>2. k + 1 \in 1..(i + 1) /\ q[k + 1] = u[k]
        BY <1>1, <2>1
      <4> QED BY <4>1, <4>2 DEF Heard
    <3> QED BY <2>3, <3>1, <3>2
  <2> QED BY <2>1, <2>2, <2>3
<1> QED
  BY <1>2, <1>3, <1>4 DEF u

\* A line that a handler writes at the end of a job or in answer to it tells of no match.
LEMMA PlainEvent ==
    ASSUME NEW type \in Events, NEW j \in Jobs
    PROVE  Event(type, j) \in Plain
  BY EventIsWritten DEF Plain, Event

\* The matches that waited are told before what a handler adds.
LEMMA DrainTells ==
    ASSUME Types, LossInv, process = "up", NEW events \in Seq(Plain), Drained(events),
           worker'.found = worker.found, worker'.job = worker.job, UNCHANGED <<got, scanning>>
    PROVE  LossInv'
<1>1. out \in Seq(Plain) /\ Waited \in Seq(Plain) /\ Told(Waited) = worker.pending
  <2>1. out \in Seq(Plain)
    BY DEF LossInv
  <2>2. CASE worker.pending = {}
    BY <2>1, <2>2 DEF Waited, Told
  <2>3. CASE worker.pending # {}
    <3>1. Batch(worker.pending, worker.job) \in Plain
      BY <2>3 DEF Types, ProcessTypes, WorkerTypes, Workers, Batch, Written, Events, Plain
    <3>2. Waited = <<Batch(worker.pending, worker.job)>>
      BY <2>3 DEF Waited
    <3>3. Told(<<Batch(worker.pending, worker.job)>>) = worker.pending
      BY DEF Told, Batch
    <3> QED BY <2>1, <3>1, <3>2, <3>3
  <2> QED BY <2>1, <2>2, <2>3
<1> DEFINE p == out \o Waited
<1>2. p \in Seq(Plain) /\ out' = p \o events
  BY <1>1, ConcatProperties DEF Drained, Waited
<1>3. Told(p) = Told(out) \cup worker.pending
  BY <1>1, ToldMore
<1>4. \A i \in DOMAIN p : \/ i \in DOMAIN out /\ p[i] = out[i] /\ Heard(p, i) = Heard(out, i)
                          \/ \E k \in DOMAIN Waited : p[i] = Waited[k]
  BY <1>1, ToldMore
<1>5. \A k \in DOMAIN Waited : Waited[k] \notin By(Ends, {scanning})
  BY DEF Waited, By, Batch, Ends
<1> HIDE DEF p
<1>6. /\ Told(out') = Told(p) \cup Told(events)
      /\ \A i \in DOMAIN out' :
            \/ i \in DOMAIN p /\ out'[i] = p[i] /\ Heard(out', i) = Heard(p, i)
            \/ Told(p) \subseteq Heard(out', i)
  BY <1>1, <1>2, ToldMore
<1>7. out' \in Seq(Plain)
  BY <1>2, ConcatProperties
<1>8. Lossless'
  <2> SUFFICES ASSUME scanning # 0, worker.job = scanning
               PROVE  /\ worker.found \subseteq worker'.pending \cup Told(out') \cup got
                      /\ \A i \in DOMAIN out' :
                            out'[i] \in By(Ends, {scanning}) => worker.found \subseteq Heard(out', i) \cup got
    BY DEF Lossless
  <2>1. worker.found \subseteq Told(p) \cup got
    BY <1>3 DEF LossInv, Lossless
  <2>2. ASSUME NEW i \in DOMAIN out', out'[i] \in By(Ends, {scanning})
        PROVE  worker.found \subseteq Heard(out', i) \cup got
    <3>1. CASE Told(p) \subseteq Heard(out', i)
      BY <2>1, <3>1
    <3>2. CASE i \in DOMAIN p /\ out'[i] = p[i] /\ Heard(out', i) = Heard(p, i)
      <4>1. i \in DOMAIN out /\ p[i] = out[i] /\ Heard(p, i) = Heard(out, i)
        BY <1>4, <1>5, <2>2, <3>2
      <4> QED BY <2>2, <3>2, <4>1 DEF LossInv, Lossless
    <3> QED BY <1>6, <3>1, <3>2
  <2> QED BY <1>6, <2>1, <2>2
<1> QED BY <1>7, <1>8 DEF LossInv

\* Nothing is told, and nothing is found.
LEMMA LossStays ==
    ASSUME LossInv, UNCHANGED out,
           \/ scanning' = 0 \/ worker'.job # scanning'
           \/ worker'.found = {}
           \/ /\ worker'.job = worker.job /\ worker'.found = worker.found
              /\ worker'.pending = worker.pending
              /\ process' = "up" => process = "up"
              /\ UNCHANGED <<got, scanning>>
    PROVE  LossInv'
  BY DEF LossInv, Lossless

\* The lines that end a job, by their type.
LEMMA EndsAreWritten ==
    ASSUME NEW e \in Written, NEW j
    PROVE  e \in By(Ends, {j}) <=> e.type \in Ends /\ e.job = j
  BY DEF By

\* A scan that runs has no end out.
LEMMA RunningHasNoEnd ==
    ASSUME Types, JobsInv, Runs, worker.job = scanning
    PROVE  \A i \in DOMAIN out : out[i] \notin By(Ends, {scanning})
<1>1. worker.job \in Jobs
  BY WorkerRuns
<1>2. Exclusive({worker.job})
  BY <1>1 DEF JobsInv, EachOnce
<1>3. ~Ended({worker.job})
  BY <1>2 DEF Exclusive, Running
<1> QED
  BY <1>3 DEF Ended, Has

\* The process loses no match: a handler writes what waits before it says that the scan ended.
LEMMA WorkLossless ==
    ASSUME Types, JobsInv, LossInv, Work, UNCHANGED gui
    PROVE  LossInv'
<1>1. UNCHANGED <<got, scanning>>
  BY DEF gui, view
<1>2. worker \in Workers /\ loads \in [Jobs -> LoadPhases]
  BY DEF Types, ProcessTypes, WorkerTypes
<1>3. CASE FindMatch
  <2>1. PICK m \in Matches :
           worker' = [worker EXCEPT !.found = @ \cup {<<worker.job, m>>},
                                    !.pending = @ \cup {<<worker.job, m>>}]
    BY <1>3 DEF FindMatch
  <2>2. /\ worker'.job = worker.job /\ worker'.found = worker.found \cup {<<worker.job, m>>}
        /\ worker'.pending = worker.pending \cup {<<worker.job, m>>}
    BY <1>2, <2>1 DEF Workers
  <2>3. process = "up" /\ Runs /\ UNCHANGED out
    BY <1>3 DEF FindMatch, Runs
  <2>4. Lossless'
    <3> SUFFICES ASSUME scanning # 0, worker.job = scanning
                 PROVE  /\ worker'.found \subseteq worker'.pending \cup Told(out) \cup got
                        /\ \A i \in DOMAIN out : out[i] \notin By(Ends, {scanning})
      BY <1>1, <2>2, <2>3 DEF Lossless
    <3>1. worker.found \subseteq worker.pending \cup Told(out) \cup got
      BY <2>3 DEF LossInv, Lossless
    <3> QED BY <2>2, <2>3, <3>1, RunningHasNoEnd
  <2> QED BY <2>3, <2>4 DEF LossInv
<1>4. CASE WorkerReports \/ WorkerFinishes \/ WorkerStops \/ WorkerFails
  <2>1. PICK phase \in WorkerPhases : Step(phase)
    BY <1>4 DEF WorkerReports, WorkerFinishes, WorkerStops, WorkerFails, WorkerPhases
  <2>2. worker'.job = worker.job /\ worker'.found = worker.found /\ worker'.pending = worker.pending
    BY <1>2, <2>1 DEF Step, Workers
  <2>3. UNCHANGED <<process, out>>
    BY <1>4 DEF WorkerReports, WorkerFinishes, WorkerStops, WorkerFails
  <2> QED BY <1>1, <2>2, <2>3, LossStays
<1>5. CASE LoadRuns \/ ApplyEnds \/ ReadLine
  <2>1. UNCHANGED <<process, out, worker>>
    BY <1>5 DEF LoadRuns, LoadAnswers, LoadEnds, ApplyEnds, ReadLine, threads
  <2> QED BY <1>1, <2>1, LossStays
<1>6. CASE HandleStartScan
  <2>1. UNCHANGED out /\ worker'.found = {}
    BY <1>6 DEF HandleStartScan, NewWorker, NoWorker
  <2> QED BY <2>1, LossStays
<1>7. CASE HandleApply
  <2>1. UNCHANGED <<out, process>> /\ (UNCHANGED worker \/ worker' = NoWorker)
    BY <1>7 DEF HandleApply, threads, Takes
  <2>2. worker' = NoWorker => worker'.found = {}
    BY DEF NoWorker
  <2> QED BY <1>1, <2>1, <2>2, LossStays
<1>8. CASE HandleLoad \/ HandleLoadOver \/ HandleApplyOver
  <2>1. UNCHANGED <<process, out, worker>>
    BY <1>8 DEF HandleLoad, HandleLoadOver, HandleApplyOver, threads, Takes
  <2> QED BY <1>1, <2>1, LossStays
<1>9. CASE HandleResume \/ HandleCancel
  <2>1. UNCHANGED <<process, out>>
    BY <1>9 DEF HandleResume, HandleCancel, Takes
  <2>2. worker'.job = worker.job /\ worker'.found = worker.found /\ worker'.pending = worker.pending
    BY <1>2, <1>9 DEF HandleResume, HandleCancel, Flag, Workers
  <2> QED BY <1>1, <2>1, <2>2, LossStays
<1>10. ASSUME NEW events \in Seq(Plain), Drained(events), Drain, process = "up"
       PROVE  LossInv'
  <2>1. worker'.found = worker.found /\ worker'.job = worker.job
    BY <1>2, <1>10 DEF Drain, Workers
  <2> QED BY <1>1, <1>10, <2>1, DrainTells
<1>11. CASE HandlePause
  <2>1. CASE UNCHANGED <<out, worker>>
    BY <1>1, <1>11, <2>1, LossStays DEF HandlePause, Takes
  <2>2. CASE worker' = [worker EXCEPT !.paused = TRUE, !.pending = {}] /\ Drained(<<>>)
    <3>1. worker'.found = worker.found /\ worker'.job = worker.job
      BY <1>2, <2>2 DEF Workers
    <3>2. process = "up"
      BY <1>11 DEF HandlePause, Takes
    <3>3. <<>> \in Seq(Plain)
      OBVIOUS
    <3> QED BY <1>1, <2>2, <3>1, <3>2, <3>3, DrainTells
  <2> QED BY <1>11, <2>1, <2>2 DEF HandlePause
<1>12. ASSUME NEW type \in Signals \ {"applyOver"}, Takes(type)
       PROVE  Head(inbox).job \in Jobs /\ process = "up"
  BY <1>12, TakesLoses DEF NamesJob, Takes
<1>13. CASE HandleMatches
  <2>1. process = "up" /\ <<>> \in Seq(Plain)
    BY <1>13 DEF HandleMatches, Takes
  <2> QED BY <1>10, <1>13, <2>1 DEF HandleMatches
<1>14. ASSUME NEW type \in Events, NEW signal \in Signals \ {"applyOver"}, Takes(signal),
              Drain, Drained(<<Event(type, Head(inbox).job)>>)
       PROVE  LossInv'
  <2>1. Head(inbox).job \in Jobs /\ process = "up"
    BY <1>12, <1>14
  <2>2. Event(type, Head(inbox).job) \in Plain
    BY <2>1, PlainEvent
  <2>3. <<Event(type, Head(inbox).job)>> \in Seq(Plain)
    BY <2>2
  <2> QED BY <1>10, <1>14, <2>1, <2>3
<1>15. CASE HandleResults \/ HandleCancelled \/ HandleFailed
  BY <1>14, <1>15 DEF HandleResults, HandleCancelled, HandleFailed, Events, Signals
<1>16. CASE HandleFinished
  <2> DEFINE e == Event("FINISHED", Head(inbox).job)
             d == Event("TEST_DIFF", Head(inbox).job)
  <2>1. Head(inbox).job \in Jobs /\ process = "up" /\ Drain
    BY <1>12, <1>16 DEF HandleFinished, Signals
  <2>2. e \in Plain /\ d \in Plain
    BY <2>1, PlainEvent DEF Events
  <2>3. PICK differs \in BOOLEAN : Drained(<<e>> \o IF differs THEN <<d>> ELSE <<>>)
    BY <1>16 DEF HandleFinished
  <2> HIDE DEF e, d
  <2>4. <<e>> \in Seq(Plain) /\ <<d>> \in Seq(Plain) /\ <<>> \in Seq(Plain)
    BY <2>2
  <2>5. (<<e>> \o IF differs THEN <<d>> ELSE <<>>) \in Seq(Plain)
    BY <2>4, ConcatProperties
  <2> QED BY <1>10, <2>1, <2>3, <2>5
<1>17. ASSUME NEW type \in Answers, NEW said \in {"RESULTS_PAGE", "FAILED"}, Takes(type),
              out' = Append(out, Event(said, Head(inbox).job)), UNCHANGED <<threads, session>>
       PROVE  LossInv'
  <2> DEFINE m == Head(inbox)
             e == Event(said, m.job)
  <2>1. m.job \in Jobs /\ m.type = type /\ m \in Posted /\ inbox # <<>>
    BY <1>17, TakesLoses DEF NamesJob, Signals, Answers, Takes
  <2>2. e \in Plain /\ e.job = m.job
    BY <2>1, PlainEvent DEF Events, Event
  <2>3. UNCHANGED <<process, worker>>
    BY <1>17 DEF threads, Takes
  <2>4. LoadItem(m.job)
    <3>1. m \in Of({"LOAD_INDEX"} \cup Answers, {m.job})
      BY <2>1 DEF Of
    <3>2. 1 \in DOMAIN inbox /\ inbox[1] = m
      BY <2>1, HeadTailProperties, LenProperties, EmptySeq DEF Types, ProcessTypes
    <3> QED BY <3>1, <3>2 DEF LoadItem, LoadAsked, Has
  <2>5. worker.job # m.job
    BY <2>1, <2>4 DEF JobsInv, Apart, ScanItem
  <2> HIDE DEF m, e
  <2>6. out \in Seq(Plain) /\ <<e>> \in Seq(Plain) /\ out' = out \o <<e>>
    BY <1>17, <2>2, AppendIsConcat DEF LossInv, m, e
  <2>7. /\ Told(out') = Told(out) \cup Told(<<e>>)
        /\ \A i \in DOMAIN out' :
              \/ i \in DOMAIN out /\ out'[i] = out[i] /\ Heard(out', i) = Heard(out, i)
              \/ \E k \in DOMAIN <<e>> : out'[i] = <<e>>[k]
    <3> DEFINE r == <<e>>
    <3>1. out \in Seq(Plain) /\ r \in Seq(Plain) /\ out' = out \o r
      BY <2>6
    <3> HIDE DEF r
    <3>2. /\ Told(out \o r) = Told(out) \cup Told(r)
          /\ \A i \in DOMAIN (out \o r) :
                \/ i \in DOMAIN out /\ (out \o r)[i] = out[i] /\ Heard(out \o r, i) = Heard(out, i)
                \/ \E k \in DOMAIN r : (out \o r)[i] = r[k]
      BY <3>1, ToldMore
    <3>3. /\ Told(out') = Told(out) \cup Told(r)
          /\ \A i \in DOMAIN out' :
                \/ i \in DOMAIN out /\ out'[i] = out[i] /\ Heard(out', i) = Heard(out, i)
                \/ \E k \in DOMAIN r : out'[i] = r[k]
      BY <3>1, <3>2
    <3> QED BY <3>3 DEF r
  <2>8. \A k \in DOMAIN <<e>> : <<e>>[k] = e
    OBVIOUS
  <2>9. worker.job = scanning => e \notin By(Ends, {scanning})
    BY <2>2, <2>5 DEF By
  <2>10. out' \in Seq(Plain)
    BY <2>6, ConcatProperties
  <2>11. Lossless'
    <3> SUFFICES ASSUME scanning # 0, worker.job = scanning
                 PROVE  /\ process = "up" => worker.found \subseteq worker.pending \cup Told(out') \cup got
                        /\ \A i \in DOMAIN out' :
                              out'[i] \in By(Ends, {scanning}) => worker.found \subseteq Heard(out', i) \cup got
      BY <1>1, <2>3 DEF Lossless
    <3>1. process = "up" => worker.found \subseteq worker.pending \cup Told(out') \cup got
      BY <2>7 DEF LossInv, Lossless
    <3>2. ASSUME NEW i \in DOMAIN out', out'[i] \in By(Ends, {scanning})
          PROVE  worker.found \subseteq Heard(out', i) \cup got
      <4>1. i \in DOMAIN out /\ out'[i] = out[i] /\ Heard(out', i) = Heard(out, i)
        BY <2>7, <2>8, <2>9, <3>2
      <4> QED BY <3>2, <4>1 DEF LossInv, Lossless
    <3> QED BY <3>1, <3>2
  <2> QED BY <2>10, <2>11 DEF LossInv
<1>18. CASE HandleLoadAnswer
  <2>1. "loadResults" \in Answers /\ "loadFailed" \in Answers
    BY DEF Answers
  <2> QED BY <1>17, <1>18, <2>1 DEF HandleLoadAnswer
<1>19. CASE HandleDelete
  <2>1. UNCHANGED out
    BY <1>19 DEF HandleDelete
  <2>2. CASE Exit
    <3>1. worker'.found = {}
      BY <2>2 DEF Exit, NoWorker
    <3> QED BY <2>1, <3>1, LossStays
  <2>3. CASE UNCHANGED <<process, pipe, threads, session>>
    BY <1>1, <2>1, <2>3, LossStays DEF threads
  <2> QED BY <1>19, <2>2, <2>3 DEF HandleDelete
<1> QED
  BY <1>3, <1>4, <1>5, <1>6, <1>7, <1>8, <1>9, <1>11, <1>13, <1>15, <1>16, <1>18, <1>19 DEF Work, Handle

\* The window shows what it is told.
LEMMA DispatchLossless ==
    ASSUME LossInv, Dispatch
    PROVE  LossInv'
<1> DEFINE e == Head(out)
<1>1. out \in Seq(Plain) /\ out # <<>> /\ out' = Tail(out) /\ UNCHANGED <<process, worker>>
  BY DEF LossInv, Dispatch, threads
<1>2. e \in Plain /\ out' \in Seq(Plain)
  BY <1>1, HeadTailProperties
<1>3. scanning' = 0 \/ (UNCHANGED scanning /\ got' = got \cup e.matches)
  <2>1. CASE OnMatches(e)
    BY <2>1 DEF OnMatches
  <2>2. CASE OnResults(e) \/ OnFinished(e) \/ OnFailed(e) \/ OnTestDiff(e)
    <3>1. e.matches = {}
      BY <1>2, <2>2 DEF OnResults, OnFinished, OnFailed, OnTestDiff, Plain
    <3>2. UNCHANGED got /\ (UNCHANGED scanning \/ scanning' = 0)
      BY <2>2 DEF OnResults, OnFinished, OnFailed, OnTestDiff, LoadFailed, ScanFailed, NotRunning, view
    <3> QED BY <3>1, <3>2
  <2> QED BY <2>1, <2>2 DEF Dispatch
<1>4. /\ Told(out) = e.matches \cup Told(out')
      /\ \A i \in DOMAIN out' :
            /\ i + 1 \in DOMAIN out /\ out'[i] = out[i + 1]
            /\ Heard(out, i + 1) = e.matches \cup Heard(out', i)
  BY <1>1, ToldLess
<1>5. Lossless'
  <2> SUFFICES ASSUME scanning' # 0, worker.job = scanning'
               PROVE  /\ process = "up" => worker.found \subseteq worker.pending \cup Told(out') \cup got'
                      /\ \A i \in DOMAIN out' :
                            out'[i] \in By(Ends, {scanning'}) => worker.found \subseteq Heard(out', i) \cup got'
    BY <1>1 DEF Lossless
  <2>1. scanning # 0 /\ scanning' = scanning /\ worker.job = scanning /\ got' = got \cup e.matches
    BY <1>3
  <2>2. process = "up" => worker.found \subseteq worker.pending \cup Told(out') \cup got'
    BY <1>4, <2>1 DEF LossInv, Lossless
  <2>3. ASSUME NEW i \in DOMAIN out', out'[i] \in By(Ends, {scanning'})
        PROVE  worker.found \subseteq Heard(out', i) \cup got'
    <3>1. i + 1 \in DOMAIN out /\ out[i + 1] \in By(Ends, {scanning})
      BY <1>4, <2>1, <2>3
    <3>2. worker.found \subseteq Heard(out, i + 1) \cup got
      BY <2>1, <3>1 DEF LossInv, Lossless
    <3> QED BY <1>4, <2>1, <2>3, <3>2
  <2> QED BY <2>2, <2>3
<1> QED BY <1>2, <1>5 DEF LossInv

\* Nor does the user: a scan that is begun has found nothing.
LEMMA UserLossless ==
    ASSUME Types, JobsInv, LossInv, User \/ Reload
    PROVE  LossInv'
<1>1. UNCHANGED <<process, out, worker>>
  BY DEF User, Reload, StartScan, LoadIndex, TogglePauseScan, CancelScan, AnswerTestDiff, AskLoad,
         sent, backend, queues, threads
<1>2. ASSUME NEW test \in BOOLEAN, StartScan(test)
      PROVE  LossInv'
  <2>1. CASE Begin(test) /\ Room
    <3>1. scanning' = requests + 1 /\ requests + 1 \in Jobs /\ requests + 1 > requests
      BY <2>1, NextJob DEF Begin, Types, WindowTypes, Numbers
    <3>2. worker.job # requests + 1
      BY <3>1 DEF JobsInv, Numbered, Unused, ScanItem
    <3> QED BY <1>1, <3>1, <3>2, LossStays
  <2>2. CASE UNCHANGED <<scanning, got>>
    BY <1>1, <2>2, LossStays
  <2> QED BY <1>2, <2>1, <2>2 DEF StartScan
<1>3. CASE LoadIndex \/ (Idle /\ AskLoad)
  <2>1. scanning' = 0
    BY <1>3 DEF LoadIndex, Idle, AskLoad
  <2> QED BY <1>1, <2>1, LossStays
<1>4. CASE UNCHANGED <<scanning, got>>
  BY <1>1, <1>4, LossStays
<1>5. TogglePauseScan \/ CancelScan \/ AnswerTestDiff => UNCHANGED <<scanning, got>>
  BY DEF TogglePauseScan, CancelScan, AnswerTestDiff, view
<1>6. Reload => (Idle /\ AskLoad) \/ UNCHANGED <<scanning, got>>
  BY DEF Reload, view
<1> QED
  BY <1>2, <1>3, <1>4, <1>5, <1>6 DEF User

\* What a process has found is lost with it only.
LEMMA FateLossless ==
    ASSUME Sound, LossInv, NoticeExit \/ Fate
    PROVE  LossInv'
<1>1. CASE NoticeExit
  <2>1. out' = <<>> /\ worker' = NoWorker
    BY <1>1 DEF NoticeExit, Sound, NotUp, threads
  <2>2. <<>> \in Seq(Plain) /\ worker'.job = 0
    BY <2>1 DEF NoWorker
  <2> QED BY <2>1, <2>2 DEF LossInv, Lossless
<1>2. CASE Die
  <2>1. UNCHANGED out /\ worker'.found = {}
    BY <1>2 DEF Die, Exit, NoWorker
  <2> QED BY <2>1, LossStays
<1>3. CASE WatchdogLoss
  <2>1. UNCHANGED <<process, out, worker, got>> /\ ScanLost
    BY <1>3 DEF WatchdogLoss, backend, queues, threads, kept
  <2> QED BY <2>1, LostStays, LossStays
<1>4. CASE Return
  <2>1. UNCHANGED out /\ worker' = NoWorker
    BY <1>4 DEF Return, threads, Sound, NotUp
  <2>2. worker'.found = {}
    BY <2>1 DEF NoWorker
  <2> QED BY <2>1, <2>2, LossStays
<1> QED BY <1>1, <1>2, <1>3, <1>4 DEF Fate

LossProof == ControlInv /\ JobsInv /\ LossInv

\* Nothing is found at first.
LEMMA LossBegins == Init => LossProof
<1> SUFFICES ASSUME Init PROVE LossProof
  OBVIOUS
<1>1. out = <<>> /\ scanning = 0
  BY DEF Init, FreshSession
<1>2. <<>> \in Seq(Plain)
  OBVIOUS
<1> QED
  BY <1>1, <1>2, ControlBegins, JobsBegin DEF LossProof, LossInv, Lossless

\* Every step keeps what the proof rests on.
LEMMA LossKept ==
    ASSUME LossProof, [Next]_vars
    PROVE  LossProof'
<1>1. ControlInv' /\ Sound /\ Types /\ JobsInv /\ LossInv
  BY ControlKept DEF LossProof, ControlInv, Sound
<1>2. JobsInv'
  BY <1>1, Shapes, JobsKept
<1>3. CASE User \/ Reload
  BY <1>1, <1>2, <1>3, UserLossless DEF LossProof
<1>4. CASE Dispatch
  BY <1>1, <1>2, <1>4, DispatchLossless DEF LossProof
<1>5. CASE NoticeExit \/ Fate
  BY <1>1, <1>2, <1>5, FateLossless DEF LossProof
<1>6. CASE Work /\ UNCHANGED gui
  BY <1>1, <1>2, <1>6, WorkLossless DEF LossProof
<1>7. CASE UNCHANGED vars
  <2>1. UNCHANGED <<process, out, worker, got, scanning>>
    BY <1>7 DEF vars, backend, queues, threads, view
  <2>2. LossInv'
    BY <1>1, <2>1, LossStays
  <2> QED BY <1>1, <1>2, <2>2 DEF LossProof
<1> QED
  BY <1>3, <1>4, <1>5, <1>6, <1>7 DEF Next

\* A match that a scan finds reaches the window, and before the word that the scan has ended.
THEOREM MatchesArrive == Spec => []NothingLost
<1>1. LossProof => NothingLost
  <2> SUFFICES ASSUME LossProof, scanning # 0, worker.job = scanning
               PROVE  /\ process = "up" => worker.found \subseteq worker.pending \cup Told(out) \cup got
                      /\ \A i \in DOMAIN out :
                            (out[i].type \in Ends /\ out[i].job = scanning)
                               => worker.found \subseteq Told(SubSeq(out, 1, i)) \cup got
    BY DEF NothingLost
  <2>1. out \in Seq(Written) /\ Lossless
    BY DEF LossProof, ControlInv, Sound, Types, ProcessTypes, LossInv
  <2>2. \A i \in DOMAIN out : out[i] \in Written /\ Told(SubSeq(out, 1, i)) = Heard(out, i)
    BY <2>1, LenProperties, ElementOfSeq, HeardIsTold
  <2> QED BY <2>1, <2>2, EndsAreWritten DEF Lossless
<1> QED
  BY <1>1, LossBegins, LossKept, PTL DEF Spec

-----------------------------------------------------------------------------
(* PauseReaches.  Of a queue it matters whether the last message that touches a *)
(* flag sets it, and whether any touches it.                                   *)

\* The last message of q with a type in on or off has one in on; and none has one in S.
Sets(q, on, off) ==
    \E i \in DOMAIN q : q[i].type \in on /\ \A k \in DOMAIN q : q[k].type \in on \cup off => k <= i
Skips(q, S) == \A k \in DOMAIN q : q[k].type \notin S

\* What clears worker.paused.
Freeing == {"RESUME", "CANCEL", "START_SCAN"}

\* The flag f once the queues i and then p have been handled.
Then(i, p, on, off, f) ==
    \/ Sets(p, on, off)
    \/ Skips(p, on \cup off) /\ (Sets(i, on, off) \/ (f /\ Skips(i, on \cup off)))

\* The flags that PauseReaches speaks of, in these words.
LEMMA WillIs ==
    /\ WillPause <=> Then(inbox, pipe, {"PAUSE"}, Freeing, worker.paused)
    /\ WillStop <=> Then(inbox, pipe, {"CANCEL"}, {"START_SCAN"}, worker.cancelled)
    /\ WillPause' <=> Then(inbox', pipe', {"PAUSE"}, Freeing, worker'.paused)
    /\ WillStop' <=> Then(inbox', pipe', {"CANCEL"}, {"START_SCAN"}, worker'.cancelled)
<1>1. /\ WillPause <=> Then(inbox, pipe, {"PAUSE"}, Freeing, worker.paused)
      /\ WillPause' <=> Then(inbox', pipe', {"PAUSE"}, Freeing, worker'.paused)
  BY DEF WillPause, WillBe, FlagAfter, Then, Sets, Skips, Freeing
<1>2. /\ WillStop <=> Then(inbox, pipe, {"CANCEL"}, {"START_SCAN"}, worker.cancelled)
      /\ WillStop' <=> Then(inbox', pipe', {"CANCEL"}, {"START_SCAN"}, worker'.cancelled)
  BY DEF WillStop, WillBe, FlagAfter, Then, Sets, Skips
<1> QED BY <1>1, <1>2

\* A queue whose head is taken.
LEMMA HeadTells ==
    ASSUME NEW L, NEW q \in Seq(L), q # <<>>, NEW on, NEW off
    PROVE  /\ Sets(q, on, off) <=> \/ Sets(Tail(q), on, off)
                                   \/ Head(q).type \in on /\ Skips(Tail(q), on \cup off)
           /\ Skips(q, on \cup off) <=> Head(q).type \notin on \cup off /\ Skips(Tail(q), on \cup off)
<1> DEFINE n == Len(q)
           t == Tail(q)
           S == on \cup off
<1>1. /\ n \in Nat \ {0} /\ DOMAIN q = 1..n /\ DOMAIN t = 1..(n - 1) /\ Head(q) = q[1]
      /\ \A i \in 1..(n - 1) : t[i] = q[i + 1]
  BY HeadTailProperties, LenProperties, EmptySeq
<1> HIDE DEF n, t
<1>2. \A k \in 1..n : k = 1 \/ (k - 1 \in 1..(n - 1) /\ q[k] = t[k - 1])
  BY <1>1
<1>3. Skips(q, S) <=> Head(q).type \notin S /\ Skips(t, S)
  <2>1. ASSUME Skips(q, S) PROVE Head(q).type \notin S /\ Skips(t, S)
    BY <1>1, <2>1 DEF Skips
  <2>2. ASSUME Head(q).type \notin S, Skips(t, S) PROVE Skips(q, S)
    BY <1>1, <1>2, <2>2 DEF Skips
  <2> QED BY <2>1, <2>2
<1>4. ASSUME Sets(q, on, off) PROVE Sets(t, on, off) \/ (Head(q).type \in on /\ Skips(t, S))
  <2>1. PICK i \in 1..n : q[i].type \in on /\ \A k \in 1..n : q[k].type \in S => k <= i
    BY <1>1, <1>4 DEF Sets
  <2>2. CASE i = 1
    <3>1. ASSUME NEW k \in 1..(n - 1) PROVE t[k].type \notin S
      <4>1. k + 1 \in 1..n /\ ~(k + 1 <= 1) /\ t[k] = q[k + 1]
        BY <1>1
      <4> QED BY <2>1, <2>2, <4>1
    <3> QED BY <1>1, <2>1, <2>2, <3>1 DEF Skips
  <2>3. CASE i # 1
    <3>1. i - 1 \in 1..(n - 1) /\ t[i - 1] = q[i]
      BY <1>2, <2>3
    <3>2. ASSUME NEW k \in 1..(n - 1), t[k].type \in S PROVE k <= i - 1
      <4>1. k + 1 \in 1..n /\ t[k] = q[k + 1]
        BY <1>1
      <4>2. k + 1 <= i
        BY <2>1, <3>2, <4>1
      <4> QED BY <4>2, <1>1
    <3> QED BY <1>1, <2>1, <3>1, <3>2 DEF Sets
  <2> QED BY <2>2, <2>3
<1>5. ASSUME Sets(t, on, off) PROVE Sets(q, on, off)
  <2>1. PICK i \in 1..(n - 1) : t[i].type \in on /\ \A k \in 1..(n - 1) : t[k].type \in S => k <= i
    BY <1>1, <1>5 DEF Sets
  <2>2. i + 1 \in 1..n /\ q[i + 1].type \in on
    BY <1>1, <2>1
  <2>3. ASSUME NEW k \in 1..n, q[k].type \in S PROVE k <= i + 1
    <3>1. CASE k = 1
      BY <1>1, <3>1
    <3>2. CASE k # 1
      <4>1. k - 1 <= i
        BY <1>2, <2>1, <2>3, <3>2
      <4> QED BY <4>1, <1>1
    <3> QED BY <3>1, <3>2
  <2> QED BY <1>1, <2>2, <2>3 DEF Sets
<1>6. ASSUME Head(q).type \in on, Skips(t, S) PROVE Sets(q, on, off)
  <2>1. 1 \in 1..n /\ q[1].type \in on
    BY <1>1, <1>6
  <2>2. ASSUME NEW k \in 1..n, q[k].type \in S PROVE k <= 1
    <3>1. CASE k = 1
      BY <3>1
    <3>2. CASE k - 1 \in 1..(n - 1) /\ q[k] = t[k - 1]
      BY <1>1, <1>6, <2>2, <3>2 DEF Skips
    <3> QED BY <1>2, <3>1, <3>2
  <2> QED BY <1>1, <2>1, <2>2 DEF Sets
<1> QED BY <1>3, <1>4, <1>5, <1>6 DEF t

\* A queue that a sequence joins.
LEMMA JoinTells ==
    ASSUME NEW L, NEW q \in Seq(L), NEW r \in Seq(L), NEW on, NEW off
    PROVE  /\ Sets(q \o r, on, off) <=> \/ Sets(r, on, off)
                                        \/ Sets(q, on, off) /\ Skips(r, on \cup off)
           /\ Skips(q \o r, on \cup off) <=> Skips(q, on \cup off) /\ Skips(r, on \cup off)
<1> DEFINE a == Len(q)
           b == Len(r)
           c == q \o r
           S == on \cup off
<1>1. /\ a \in Nat /\ b \in Nat /\ DOMAIN q = 1..a /\ DOMAIN r = 1..b /\ DOMAIN c = 1..(a + b)
      /\ \A i \in 1..(a + b) : c[i] = IF i <= a THEN q[i] ELSE r[i - a]
  BY ConcatProperties, LenProperties
<1> HIDE DEF a, b, c
<1>2. \A k \in 1..(a + b) : (k \in 1..a /\ c[k] = q[k]) \/ (k - a \in 1..b /\ k > a /\ c[k] = r[k - a])
  BY <1>1
<1>3. \A k \in 1..a : k \in 1..(a + b) /\ c[k] = q[k]
  BY <1>1
<1>4. ASSUME NEW k \in 1..b PROVE a + k \in 1..(a + b) /\ ~(a + k <= a) /\ c[a + k] = r[k]
  <2>1. a + k \in 1..(a + b) /\ ~(a + k <= a) /\ (a + k) - a = k
    BY <1>1
  <2> QED BY <1>1, <2>1
<1>5. Skips(c, S) <=> Skips(q, S) /\ Skips(r, S)
  <2>1. ASSUME Skips(c, S) PROVE Skips(q, S) /\ Skips(r, S)
    BY <1>1, <1>3, <1>4, <2>1 DEF Skips
  <2>2. ASSUME Skips(q, S), Skips(r, S) PROVE Skips(c, S)
    BY <1>1, <1>2, <2>2 DEF Skips
  <2> QED BY <2>1, <2>2
<1>6. ASSUME Sets(c, on, off) PROVE Sets(r, on, off) \/ (Sets(q, on, off) /\ Skips(r, S))
  <2>1. PICK i \in 1..(a + b) : c[i].type \in on /\ \A k \in 1..(a + b) : c[k].type \in S => k <= i
    BY <1>1, <1>6 DEF Sets
  <2>2. CASE i \in 1..a /\ c[i] = q[i]
    <3>1. ASSUME NEW k \in 1..b PROVE r[k].type \notin S
      <4>1. a + k \in 1..(a + b) /\ c[a + k] = r[k] /\ ~(a + k <= i)
        BY <1>1, <1>4, <2>2
      <4> QED BY <2>1, <4>1
    <3>2. \A k \in 1..a : q[k].type \in S => k <= i
      BY <1>3, <2>1
    <3> QED BY <1>1, <2>1, <2>2, <3>1, <3>2 DEF Sets, Skips
  <2>3. CASE i - a \in 1..b /\ c[i] = r[i - a]
    <3>1. ASSUME NEW k \in 1..b, r[k].type \in S PROVE k <= i - a
      <4>1. a + k <= i
        BY <1>4, <2>1, <3>1
      <4> QED BY <4>1, <1>1
    <3> QED BY <1>1, <2>1, <2>3, <3>1 DEF Sets
  <2> QED BY <1>2, <2>2, <2>3
<1>7. ASSUME Sets(r, on, off) PROVE Sets(c, on, off)
  <2>1. PICK i \in 1..b : r[i].type \in on /\ \A k \in 1..b : r[k].type \in S => k <= i
    BY <1>1, <1>7 DEF Sets
  <2>2. a + i \in 1..(a + b) /\ c[a + i].type \in on
    BY <1>4, <2>1
  <2>3. ASSUME NEW k \in 1..(a + b), c[k].type \in S PROVE k <= a + i
    <3>1. CASE k \in 1..a
      BY <1>1, <3>1
    <3>2. CASE k - a \in 1..b /\ c[k] = r[k - a]
      <4>1. k - a <= i
        BY <2>1, <2>3, <3>2
      <4> QED BY <4>1, <1>1
    <3> QED BY <1>2, <3>1, <3>2
  <2> QED BY <1>1, <2>2, <2>3 DEF Sets
<1>8. ASSUME Sets(q, on, off), Skips(r, S) PROVE Sets(c, on, off)
  <2>1. PICK i \in 1..a : q[i].type \in on /\ \A k \in 1..a : q[k].type \in S => k <= i
    BY <1>1, <1>8 DEF Sets
  <2>2. i \in 1..(a + b) /\ c[i].type \in on
    BY <1>3, <2>1
  <2>3. ASSUME NEW k \in 1..(a + b), c[k].type \in S PROVE k <= i
    BY <1>1, <1>2, <1>8, <2>1, <2>3 DEF Skips
  <2> QED BY <1>1, <2>2, <2>3 DEF Sets
<1> QED BY <1>5, <1>6, <1>7, <1>8 DEF c

\* A queue of one message.
LEMMA OneTells ==
    ASSUME NEW m, NEW on, NEW off
    PROVE  /\ Sets(<<m>>, on, off) <=> m.type \in on
           /\ Skips(<<m>>, on \cup off) <=> m.type \notin on \cup off
<1> DEFINE q == <<m>>
<1>1. DOMAIN q = {1} /\ q[1] = m
  OBVIOUS
<1> HIDE DEF q
<1>2. /\ Sets(q, on, off) <=> m.type \in on
      /\ Skips(q, on \cup off) <=> m.type \notin on \cup off
  BY <1>1 DEF Sets, Skips
<1> QED BY <1>2 DEF q

\* A message that is taken leaves the flag what it was to be when the handler does to it what the
\* message says, and also when a scan is yet to start: that resets it.
LEMMA TakeTells ==
    ASSUME Types, NEW on, NEW off, "START_SCAN" \in off, NEW f \in BOOLEAN, NEW g \in BOOLEAN,
           inbox # <<>>, NEW r \in Seq(Posted), Skips(r, on \cup off),
           inbox' = Tail(inbox) \o r, pipe' = pipe, on \cap off = {},
           \/ g <=> Head(inbox).type \in on \/ (f /\ Head(inbox).type \notin on \cup off)
           \/ StartIn(Tail(inbox)) \/ StartIn(pipe)
    PROVE  Then(inbox', pipe', on, off, g) <=> Then(inbox, pipe, on, off, f)
<1> DEFINE h == Head(inbox)
           t == Tail(inbox)
           S == on \cup off
<1>1. inbox \in Seq(Posted) /\ t \in Seq(Posted) /\ r \in Seq(Posted)
  BY HeadTailProperties DEF Types, ProcessTypes
<1>2. /\ Sets(inbox, on, off) <=> Sets(t, on, off) \/ (h.type \in on /\ Skips(t, S))
      /\ Skips(inbox, S) <=> h.type \notin S /\ Skips(t, S)
  BY <1>1, HeadTells
<1>3. ~Sets(r, on, off)
  BY DEF Sets, Skips
<1>4. (Sets(inbox', on, off) <=> Sets(t, on, off)) /\ (Skips(inbox', S) <=> Skips(t, S))
  BY <1>1, <1>3, JoinTells
<1>5. StartIn(t) => ~Skips(t, S)
  BY DEF StartIn, Skips
<1>6. StartIn(pipe) => ~Skips(pipe, S)
  BY DEF StartIn, Skips
<1>7. h.type \in on => h.type \notin off
  OBVIOUS
<1> HIDE DEF h, t, S
<1>8. \/ g <=> h.type \in on \/ (f /\ h.type \notin S)
      \/ StartIn(t) \/ StartIn(pipe)
  BY DEF h, t, S
<1>9. h.type \in on => h.type \in S
  BY DEF S
<1>10. /\ Then(inbox', pipe', on, off, g) <=>
             \/ Sets(pipe, on, off)
             \/ Skips(pipe, S) /\ (Sets(inbox', on, off) \/ (g /\ Skips(inbox', S)))
       /\ Then(inbox, pipe, on, off, f) <=>
             \/ Sets(pipe, on, off)
             \/ Skips(pipe, S) /\ (Sets(inbox, on, off) \/ (f /\ Skips(inbox, S)))
  BY DEF Then, S
<1> QED BY <1>2, <1>4, <1>5, <1>6, <1>8, <1>9, <1>10, ZenonT(30)

\* Signals that are posted touch no flag.
LEMMA PostTells ==
    ASSUME Types, NEW on, NEW off, NEW f, NEW r \in Seq(Posted), Skips(r, on \cup off),
           inbox' = inbox \o r, pipe' = pipe
    PROVE  Then(inbox', pipe', on, off, f) <=> Then(inbox, pipe, on, off, f)
<1>1. inbox \in Seq(Posted) /\ ~Sets(r, on, off)
  BY DEF Types, ProcessTypes, Sets, Skips
<1>2. /\ Sets(inbox', on, off) <=> Sets(inbox, on, off)
      /\ Skips(inbox', on \cup off) <=> Skips(inbox, on \cup off)
  BY <1>1, JoinTells
<1> QED BY <1>2 DEF Then

\* A line that is read goes from the one queue to the other.
LEMMA ReadTells ==
    ASSUME Types, NEW on, NEW off, NEW f, ReadLine
    PROVE  Then(inbox', pipe', on, off, f) <=> Then(inbox, pipe, on, off, f)
<1> DEFINE h == Head(pipe)
           t == Tail(pipe)
           S == on \cup off
           q == <<h>>
<1>1. /\ inbox \in Seq(Posted) /\ pipe \in Seq(Lines) /\ pipe # <<>> /\ h \in Lines
      /\ inbox' = inbox \o q /\ pipe' = t
  BY HeadTailProperties DEF Types, ProcessTypes, ReadLine, Post
<1>2. h \in Posted
  BY <1>1 DEF Lines
<1>3. q \in Seq(Posted)
  BY <1>2
<1>4. /\ Sets(pipe, on, off) <=> Sets(t, on, off) \/ (h.type \in on /\ Skips(t, S))
      /\ Skips(pipe, S) <=> h.type \notin S /\ Skips(t, S)
  BY <1>1, HeadTells
<1>5. (Sets(q, on, off) <=> h.type \in on) /\ (Skips(q, S) <=> h.type \notin S)
  BY OneTells
<1> HIDE DEF q
<1>6. /\ Sets(inbox \o q, on, off) <=> Sets(q, on, off) \/ (Sets(inbox, on, off) /\ Skips(q, S))
      /\ Skips(inbox \o q, S) <=> Skips(inbox, S) /\ Skips(q, S)
  BY <1>1, <1>3, JoinTells
<1>7. h.type \in on => h.type \in S
  OBVIOUS
<1> HIDE DEF h, t, S
<1>8. /\ Then(inbox', pipe', on, off, f) <=>
            \/ Sets(t, on, off)
            \/ Skips(t, S) /\ (Sets(inbox \o q, on, off) \/ (f /\ Skips(inbox \o q, S)))
      /\ Then(inbox, pipe, on, off, f) <=>
            \/ Sets(pipe, on, off)
            \/ Skips(pipe, S) /\ (Sets(inbox, on, off) \/ (f /\ Skips(inbox, S)))
  BY <1>1 DEF Then, S
<1> QED BY <1>4, <1>5, <1>6, <1>7, <1>8, ZenonT(30)

\* A command that is sent decides the flag it touches.
LEMMA SendTells ==
    ASSUME Types, NEW on, NEW off, NEW f, NEW c \in Lines, pipe' = Append(pipe, c), inbox' = inbox
    PROVE  Then(inbox', pipe', on, off, f)
             <=> c.type \in on \/ (c.type \notin off /\ Then(inbox, pipe, on, off, f))
<1> DEFINE q == <<c>>
<1>1. pipe \in Seq(Lines) /\ q \in Seq(Lines) /\ pipe' = pipe \o q
  BY AppendIsConcat DEF Types, ProcessTypes
<1>2. (Sets(q, on, off) <=> c.type \in on) /\ (Skips(q, on \cup off) <=> c.type \notin on \cup off)
  BY OneTells
<1> HIDE DEF q
<1>3. /\ Sets(pipe', on, off) <=> Sets(q, on, off) \/ (Sets(pipe, on, off) /\ Skips(q, on \cup off))
      /\ Skips(pipe', on \cup off) <=> Skips(pipe, on \cup off) /\ Skips(q, on \cup off)
  BY <1>1, JoinTells
<1>4. c.type \in on \cup off <=> c.type \in on \/ c.type \in off
  OBVIOUS
<1> QED BY <1>2, <1>3, <1>4, ZenonT(30) DEF Then

\* A scan that is to start is among the messages that joined, or was in the queue.
LEMMA StartJoins ==
    ASSUME NEW L, NEW q \in Seq(L), NEW r \in Seq(L), StartIn(q \o r)
    PROVE  StartIn(q) \/ StartIn(r)
<1> DEFINE c == q \o r
<1>1. /\ Len(q) \in Nat /\ Len(r) \in Nat
      /\ DOMAIN q = 1..Len(q) /\ DOMAIN r = 1..Len(r) /\ DOMAIN c = 1..(Len(q) + Len(r))
      /\ \A i \in 1..(Len(q) + Len(r)) : c[i] = IF i <= Len(q) THEN q[i] ELSE r[i - Len(q)]
  BY ConcatProperties, LenProperties
<1> HIDE DEF c
<1>2. PICK i \in 1..(Len(q) + Len(r)) : c[i].type = "START_SCAN" /\ c[i].job = scanning
  BY <1>1 DEF StartIn, c
<1>3. CASE i <= Len(q)
  <2>1. i \in DOMAIN q /\ c[i] = q[i]
    BY <1>1, <1>3
  <2> QED BY <1>2, <2>1 DEF StartIn
<1>4. CASE ~(i <= Len(q))
  <2>1. i - Len(q) \in DOMAIN r /\ c[i] = r[i - Len(q)]
    BY <1>1, <1>4
  <2> QED BY <1>2, <2>1 DEF StartIn
<1> QED BY <1>3, <1>4

\* And it was in the queue when it is in the rest of it.
LEMMA StartWaited ==
    ASSUME NEW L, NEW q \in Seq(L), q # <<>>, StartIn(Tail(q))
    PROVE  StartIn(q)
<1> DEFINE t == Tail(q)
           n == Len(q)
<1>1. /\ n \in Nat \ {0} /\ DOMAIN q = 1..n /\ DOMAIN t = 1..(n - 1)
      /\ \A i \in 1..(n - 1) : t[i] = q[i + 1]
  BY HeadTailProperties, LenProperties, EmptySeq
<1> HIDE DEF t, n
<1>2. PICK i \in 1..(n - 1) : t[i].type = "START_SCAN" /\ t[i].job = scanning
  BY <1>1 DEF StartIn, t
<1>3. i + 1 \in 1..n /\ t[i] = q[i + 1]
  BY <1>1
<1> QED BY <1>1, <1>2, <1>3 DEF StartIn

\* A scan that the window waits for has a backend that answers: its loss ends it.
Served == ~overlapped /\ scanning # 0 => available

PauseInv == Served /\ PauseReaches

\* Neither flag is touched by what is not one of the commands.
Plainly == Signals \cup {"LOAD_INDEX", "APPLY_TEST_RESULT"}

\* The types of the commands that touch a flag.
LEMMA FlagTypes ==
    /\ {"PAUSE"} \cap Freeing = {} /\ {"CANCEL"} \cap {"START_SCAN"} = {} /\ "START_SCAN" \in Freeing
    /\ Plainly \cap ({"PAUSE"} \cup Freeing) = {} /\ Plainly \cap ({"CANCEL"} \cup {"START_SCAN"}) = {}
  BY DEF Freeing, Plainly, Signals

\* Signals touch no flag and start no scan.
LEMMA SignalsTell ==
    ASSUME NEW r \in Seq(Posted), \A k \in DOMAIN r : r[k].type \in Plainly
    PROVE  /\ Skips(r, {"PAUSE"} \cup Freeing) /\ Skips(r, {"CANCEL"} \cup {"START_SCAN"})
           /\ ~StartIn(r)
<1>1. "START_SCAN" \notin Plainly
  BY DEF Plainly, Signals
<1> QED BY <1>1, FlagTypes DEF Skips, StartIn

\* A step of the process that leaves both flags what they were to be, and starts no scan but one
\* that was to start, keeps the property.
LEMMA PauseStays ==
    ASSUME PauseInv, UNCHANGED <<scanning, paused, overlapped>>,
           process' = "up" => process = "up",
           HasScan' => HasScan,
           HasScan' => (WillPause' <=> WillPause) /\ (WillStop' <=> WillStop)
    PROVE  PauseReaches'
  BY DEF PauseInv, PauseReaches

\* A message that is taken, and those that its handler posts.
LEMMA TakePauses ==
    ASSUME Types, PauseInv, UNCHANGED gui, process = "up", process' = "up",
           inbox # <<>>, NEW r \in Seq(Posted), \A k \in DOMAIN r : r[k].type \in Plainly,
           inbox' = Tail(inbox) \o r, pipe' = pipe, worker' \in Workers,
           worker'.job # 0 => \/ worker'.job = worker.job
                              \/ Head(inbox).type = "START_SCAN" /\ worker'.job = Head(inbox).job,
           \/ /\ worker'.paused <=> \/ Head(inbox).type = "PAUSE"
                                    \/ worker.paused /\ Head(inbox).type \notin {"PAUSE"} \cup Freeing
              /\ worker'.cancelled <=> \/ Head(inbox).type = "CANCEL"
                                       \/ worker.cancelled
                                             /\ Head(inbox).type \notin {"CANCEL"} \cup {"START_SCAN"}
           \/ worker'.job = 0
    PROVE  PauseReaches'
<1>1. UNCHANGED <<scanning, paused, overlapped>>
  BY DEF gui, view, count
<1>2. inbox \in Seq(Posted) /\ Tail(inbox) \in Seq(Posted) /\ Head(inbox) = inbox[1] /\ 1 \in DOMAIN inbox
  BY HeadTailProperties, LenProperties, EmptySeq DEF Types, ProcessTypes
<1>3. /\ Skips(r, {"PAUSE"} \cup Freeing) /\ Skips(r, {"CANCEL"} \cup {"START_SCAN"}) /\ ~StartIn(r)
  BY SignalsTell
<1> SUFFICES ASSUME scanning # 0, HasScan'
             PROVE  HasScan /\ (WillPause' <=> WillPause) /\ (WillStop' <=> WillStop)
  BY <1>1, PauseStays DEF PauseReaches
<1>4. worker'.job = scanning \/ StartIn(Tail(inbox)) \/ StartIn(pipe)
  <2>1. StartIn(inbox)' <=> StartIn(Tail(inbox) \o r)
    BY <1>1 DEF StartIn
  <2>2. StartIn(pipe)' <=> StartIn(pipe)
    BY <1>1 DEF StartIn
  <2>3. worker'.job = scanning \/ StartIn(inbox)' \/ StartIn(pipe)'
    BY <1>1 DEF HasScan
  <2> QED BY <1>2, <1>3, <2>1, <2>2, <2>3, StartJoins
<1>5. HasScan
  <2>1. CASE worker'.job = scanning
    <3>1. CASE worker'.job = worker.job
      BY <2>1, <3>1 DEF HasScan
    <3>2. CASE Head(inbox).type = "START_SCAN" /\ worker'.job = Head(inbox).job
      <4>1. StartIn(inbox)
        BY <1>2, <2>1, <3>2 DEF StartIn
      <4> QED BY <4>1 DEF HasScan
    <3> QED BY <2>1, <3>1, <3>2
  <2>2. CASE StartIn(Tail(inbox)) \/ StartIn(pipe)
    BY <1>2, <2>2, StartWaited DEF HasScan
  <2> QED BY <1>4, <2>1, <2>2
<1>6. worker \in Workers
  BY DEF Types, ProcessTypes, WorkerTypes
<1>7. /\ worker.paused \in BOOLEAN /\ worker'.paused \in BOOLEAN
      /\ worker.cancelled \in BOOLEAN /\ worker'.cancelled \in BOOLEAN
  BY <1>6 DEF Workers
<1>8. Then(inbox', pipe', {"PAUSE"}, Freeing, worker'.paused)
        <=> Then(inbox, pipe, {"PAUSE"}, Freeing, worker.paused)
  <2>1. \/ worker'.paused <=> \/ Head(inbox).type \in {"PAUSE"}
                              \/ worker.paused /\ Head(inbox).type \notin {"PAUSE"} \cup Freeing
        \/ StartIn(Tail(inbox)) \/ StartIn(pipe)
    BY <1>4
  <2> QED BY <1>3, <1>7, <2>1, FlagTypes, TakeTells
<1>9. Then(inbox', pipe', {"CANCEL"}, {"START_SCAN"}, worker'.cancelled)
        <=> Then(inbox, pipe, {"CANCEL"}, {"START_SCAN"}, worker.cancelled)
  <2>1. \/ worker'.cancelled <=> \/ Head(inbox).type \in {"CANCEL"}
                                 \/ worker.cancelled
                                       /\ Head(inbox).type \notin {"CANCEL"} \cup {"START_SCAN"}
        \/ StartIn(Tail(inbox)) \/ StartIn(pipe)
    BY <1>4
  <2> QED BY <1>3, <1>7, <2>1, FlagTypes, TakeTells
<1> QED BY <1>5, <1>8, <1>9, WillIs

\* A thread that posts signals.
LEMMA PostPauses ==
    ASSUME Types, PauseInv, UNCHANGED gui, process = "up", process' = "up",
           NEW r \in Seq(Posted), \A k \in DOMAIN r : r[k].type \in Plainly,
           inbox' = inbox \o r, pipe' = pipe,
           worker'.job = worker.job, worker'.paused = worker.paused,
           worker'.cancelled = worker.cancelled
    PROVE  PauseReaches'
<1>1. UNCHANGED <<scanning, paused, overlapped>>
  BY DEF gui, view, count
<1>2. /\ Skips(r, {"PAUSE"} \cup Freeing) /\ Skips(r, {"CANCEL"} \cup {"START_SCAN"}) /\ ~StartIn(r)
  BY SignalsTell
<1>3. /\ Then(inbox', pipe', {"PAUSE"}, Freeing, worker.paused)
            <=> Then(inbox, pipe, {"PAUSE"}, Freeing, worker.paused)
      /\ Then(inbox', pipe', {"CANCEL"}, {"START_SCAN"}, worker.cancelled)
            <=> Then(inbox, pipe, {"CANCEL"}, {"START_SCAN"}, worker.cancelled)
  BY <1>2, PostTells
<1>4. (WillPause' <=> WillPause) /\ (WillStop' <=> WillStop)
  BY <1>3, WillIs
<1>5. HasScan' => HasScan
  <2>1. (StartIn(inbox)' <=> StartIn(inbox \o r)) /\ (StartIn(pipe)' <=> StartIn(pipe))
    BY <1>1 DEF StartIn
  <2>2. inbox \in Seq(Posted)
    BY DEF Types, ProcessTypes
  <2>3. StartIn(inbox \o r) => StartIn(inbox)
    BY <1>2, <2>2, StartJoins
  <2> QED BY <1>1, <2>1, <2>3 DEF HasScan
<1> QED BY <1>1, <1>4, <1>5, PauseStays

\* What a thread posts is signals.
LEMMA ThreadsPause ==
    ASSUME Types, PauseInv, UNCHANGED gui,
           FindMatch \/ WorkerReports \/ WorkerFinishes \/ WorkerStops \/ WorkerFails
           \/ LoadRuns \/ ApplyEnds
    PROVE  PauseReaches'
<1>1. worker \in Workers /\ WorkerTypes
  BY DEF Types, ProcessTypes, WorkerTypes
<1>2. UNCHANGED pipe /\ process = "up" /\ process' = "up"
  BY DEF FindMatch, WorkerReports, WorkerFinishes, WorkerStops, WorkerFails, LoadRuns, LoadAnswers,
         LoadEnds, ApplyEnds
<1>3. worker'.job = worker.job /\ worker'.paused = worker.paused /\ worker'.cancelled = worker.cancelled
  BY <1>1 DEF FindMatch, WorkerReports, WorkerFinishes, WorkerStops, WorkerFails, LoadRuns, LoadAnswers,
              LoadEnds, ApplyEnds, Step, Workers
<1>4. ASSUME NEW type \in Signals, NEW j, Signal(type, j) \in Posted
      PROVE  LET r == <<Signal(type, j)>> IN r \in Seq(Posted) /\ \A k \in DOMAIN r : r[k].type \in Plainly
  <2> DEFINE s == Signal(type, j)
  <2>1. s \in Posted /\ s.type \in Plainly
    BY <1>4 DEF Signal, Plainly
  <2> HIDE DEF s
  <2>2. <<s>> \in Seq(Posted) /\ \A k \in DOMAIN <<s>> : <<s>>[k] = s
    BY <2>1
  <2> QED BY <2>1, <2>2 DEF s
<1>5. ASSUME NEW r, r \in Seq(Posted) /\ (\A k \in DOMAIN r : r[k].type \in Plainly), Post(r)
      PROVE  PauseReaches'
  BY <1>2, <1>3, <1>5, PostPauses DEF Post
<1>6. LET r == <<>> IN r \in Seq(Posted) /\ \A k \in DOMAIN r : r[k].type \in Plainly
  OBVIOUS
<1>7. LET r == Stragglers IN r \in Seq(Posted) /\ \A k \in DOMAIN r : r[k].type \in Plainly
  <2>1. CASE worker.pending = {}
    BY <1>6, <2>1 DEF Stragglers
  <2>2. CASE worker.pending # {}
    <3>1. Signal("matchesArrived", worker.job) \in Posted
      BY <1>1, <2>2, SignalIsPosted DEF WorkerTypes, Signals
    <3>2. "matchesArrived" \in Signals
      BY DEF Signals
    <3> QED BY <1>4, <2>2, <3>1, <3>2 DEF Stragglers
  <2> QED BY <2>1, <2>2
<1>8. ASSUME NEW a, NEW b,
             a \in Seq(Posted) /\ \A k \in DOMAIN a : a[k].type \in Plainly,
             b \in Seq(Posted) /\ \A k \in DOMAIN b : b[k].type \in Plainly
      PROVE  LET r == a \o b IN r \in Seq(Posted) /\ \A k \in DOMAIN r : r[k].type \in Plainly
  <2> DEFINE r == a \o b
  <2>1. /\ r \in Seq(Posted) /\ DOMAIN r = 1..(Len(a) + Len(b)) /\ DOMAIN a = 1..Len(a) /\ DOMAIN b = 1..Len(b)
        /\ Len(a) \in Nat /\ Len(b) \in Nat
        /\ \A i \in 1..(Len(a) + Len(b)) : r[i] = IF i <= Len(a) THEN a[i] ELSE b[i - Len(a)]
    BY <1>8, ConcatProperties, LenProperties
  <2> HIDE DEF r
  <2>2. ASSUME NEW k \in DOMAIN r PROVE r[k].type \in Plainly
    <3>1. CASE k <= Len(a)
      <4>1. k \in DOMAIN a /\ r[k] = a[k]
        BY <2>1, <3>1
      <4> QED BY <1>8, <4>1
    <3>2. CASE ~(k <= Len(a))
      <4>1. k - Len(a) \in DOMAIN b /\ r[k] = b[k - Len(a)]
        BY <2>1, <3>2
      <4> QED BY <1>8, <4>1
    <3> QED BY <3>1, <3>2
  <2> QED BY <2>1, <2>2 DEF r
<1>9. ASSUME NEW type \in Signals \ {"applyOver"}, worker.phase # "none"
      PROVE  LET r == <<Signal(type, worker.job)>>
             IN  r \in Seq(Posted) /\ \A k \in DOMAIN r : r[k].type \in Plainly
  BY <1>1, <1>4, <1>9, SignalIsPosted DEF WorkerTypes
<1>10. CASE FindMatch
  <2>1. PICK told \in BOOLEAN : Post(IF told THEN <<Signal("matchesArrived", worker.job)>> ELSE <<>>)
    BY <1>10 DEF FindMatch
  <2>2. "matchesArrived" \in Signals \ {"applyOver"} /\ worker.phase # "none"
    BY <1>10 DEF Signals, FindMatch
  <2>3. LET r == IF told THEN <<Signal("matchesArrived", worker.job)>> ELSE <<>>
        IN  r \in Seq(Posted) /\ \A k \in DOMAIN r : r[k].type \in Plainly
    BY <1>6, <1>9, <2>2
  <2> QED BY <1>5, <2>1, <2>3
<1>11. ASSUME NEW type \in Signals \ {"applyOver"}, worker.phase # "none",
              NEW first \in {<<>>, Stragglers}, Post(first \o <<Signal(type, worker.job)>>)
       PROVE  PauseReaches'
  <2> DEFINE b == <<Signal(type, worker.job)>>
  <2>1. b \in Seq(Posted) /\ \A k \in DOMAIN b : b[k].type \in Plainly
    BY <1>9, <1>11
  <2>2. first \in Seq(Posted) /\ \A k \in DOMAIN first : first[k].type \in Plainly
    BY <1>6, <1>7
  <2> HIDE DEF b
  <2>3. LET r == first \o b IN r \in Seq(Posted) /\ \A k \in DOMAIN r : r[k].type \in Plainly
    BY <1>8, <2>1, <2>2
  <2> QED BY <1>5, <1>11, <2>3 DEF b
<1>12. CASE WorkerReports \/ WorkerStops
  BY <1>11, <1>12 DEF WorkerReports, WorkerStops, Signals
<1>13. CASE WorkerFinishes
  <2>1. Post(<<Signal("finished", worker.job)>>) /\ worker.phase # "none" /\ "finished" \in Signals \ {"applyOver"}
    BY <1>13 DEF WorkerFinishes, Signals
  <2> QED BY <1>5, <1>9, <2>1
<1>14. CASE WorkerFails
  BY <1>11, <1>14 DEF WorkerFails, Signals
<1>15. CASE LoadRuns
  <2>1. PICK j \in Jobs, type \in Signals \ {"applyOver"} : Post(<<Signal(type, j)>>)
    BY <1>15 DEF LoadRuns, LoadAnswers, LoadEnds, Signals
  <2>2. Signal(type, j) \in Posted
    BY SignalIsPosted
  <2> QED BY <1>4, <1>5, <2>1, <2>2
<1>16. CASE ApplyEnds
  <2>1. Post(<<Signal("applyOver", 0)>>) /\ "applyOver" \in Signals
    BY <1>16 DEF ApplyEnds, Signals
  <2> QED BY <1>4, <1>5, <2>1, ApplyOverIsPosted
<1> QED BY <1>10, <1>12, <1>13, <1>14, <1>15, <1>16

\* A handler does to the flags what its message says.
LEMMA HandlersPause ==
    ASSUME Types, PauseInv, UNCHANGED gui, Handle
    PROVE  PauseReaches'
<1> DEFINE h == Head(inbox)
<1>1. worker \in Workers /\ worker' \in Workers
  <2>1. ProcessTypes /\ ProcessTypes'
    BY HandlersKeepTypes DEF Types
  <2> QED BY <2>1 DEF ProcessTypes, WorkerTypes
<1>2. inbox # <<>> /\ inbox \in Seq(Posted) /\ Tail(inbox) \in Seq(Posted)
  <2>1. inbox # <<>>
    BY DEF Handle, Takes, HandleStartScan, HandleLoad, HandleApply, HandlePause, HandleResume,
           HandleCancel, HandleMatches, HandleResults, HandleFinished, HandleCancelled,
           HandleFailed, HandleLoadAnswer, HandleLoadOver, HandleDelete, HandleApplyOver
  <2> QED BY <2>1, HeadTailProperties DEF Types, ProcessTypes
<1>3. ASSUME NEW type, Takes(type)
      PROVE  /\ process = "up" /\ process' = "up" /\ pipe' = pipe /\ h.type = type
             /\ <<>> \in Seq(Posted) /\ (\A k \in DOMAIN <<>> : <<>>[k].type \in Plainly)
             /\ inbox' = Tail(inbox) \o <<>>
  BY <1>2, <1>3, ConcatEmptySeq DEF Takes
<1>4. ASSUME NEW type \in Plainly, Takes(type), worker'.job = worker.job,
             worker'.paused = worker.paused, worker'.cancelled = worker.cancelled
      PROVE  PauseReaches'
  <2>1. h.type \notin {"PAUSE"} \cup Freeing /\ h.type \notin {"CANCEL"} \cup {"START_SCAN"}
    BY <1>3, <1>4, FlagTypes
  <2>2. h.type # "PAUSE" /\ h.type # "CANCEL"
    BY <2>1
  <2>3. /\ worker'.paused <=> h.type = "PAUSE" \/ (worker.paused /\ h.type \notin {"PAUSE"} \cup Freeing)
        /\ worker'.cancelled <=> \/ h.type = "CANCEL"
                                 \/ worker.cancelled /\ h.type \notin {"CANCEL"} \cup {"START_SCAN"}
    BY <1>4, <2>1, <2>2
  <2> QED BY <1>1, <1>2, <1>3, <1>4, <2>3, TakePauses
<1>5. CASE HandleStartScan
  <2>1. Takes("START_SCAN") /\ worker' = NewWorker(h.job, h.test)
    BY <1>5 DEF HandleStartScan
  <2>2. worker'.job = h.job /\ worker'.paused = FALSE /\ worker'.cancelled = FALSE
    BY <2>1 DEF NewWorker, NoWorker
  <2>3. h.type = "START_SCAN"
    BY <1>3, <2>1
  <2>4. h.type \in Freeing /\ h.type # "PAUSE" /\ h.type # "CANCEL"
    BY <2>3 DEF Freeing
  <2> QED BY <1>1, <1>2, <1>3, <2>1, <2>2, <2>3, <2>4, TakePauses
<1>6. CASE HandlePause \/ HandleResume \/ HandleCancel
  <2>1. PICK type \in {"PAUSE", "RESUME", "CANCEL"} : Takes(type)
    BY <1>6 DEF HandlePause, HandleResume, HandleCancel
  <2>2. h.type \in {"PAUSE", "RESUME", "CANCEL"}
    BY <1>3, <2>1
  <2>3. CASE worker.job = 0
    <3>1. worker'.job = 0
      BY <1>6, <2>3 DEF HandlePause, HandleResume, HandleCancel
    <3> QED BY <1>1, <1>2, <1>3, <2>1, <3>1, TakePauses
  <2>4. CASE worker.job # 0
    <3>1. worker'.job = worker.job
      BY <1>1, <1>6, <2>4 DEF HandlePause, HandleResume, HandleCancel, Flag, Workers
    <3>2. /\ worker'.paused <=> h.type = "PAUSE"
          /\ worker'.cancelled <=> h.type = "CANCEL" \/ worker.cancelled
      <4>1. CASE HandlePause
        <5>1. worker'.paused = TRUE /\ worker'.cancelled = worker.cancelled
          BY <1>1, <2>4, <4>1 DEF HandlePause, Workers
        <5>2. h.type = "PAUSE"
          BY <1>3, <4>1 DEF HandlePause
        <5> QED BY <5>1, <5>2
      <4>2. CASE HandleResume
        <5>1. worker'.paused = FALSE /\ worker'.cancelled = worker.cancelled
          BY <1>1, <2>4, <4>2 DEF HandleResume, Flag, Workers
        <5>2. h.type = "RESUME"
          BY <1>3, <4>2 DEF HandleResume
        <5> QED BY <5>1, <5>2
      <4>3. CASE HandleCancel
        <5>1. worker'.paused = FALSE /\ worker'.cancelled = TRUE
          BY <1>1, <2>4, <4>3 DEF HandleCancel, Flag, Workers
        <5>2. h.type = "CANCEL"
          BY <1>3, <4>3 DEF HandleCancel
        <5> QED BY <5>1, <5>2
      <4> QED BY <1>6, <4>1, <4>2, <4>3
    <3>3. (h.type \in {"PAUSE"} \cup Freeing) /\ (h.type \in {"CANCEL"} \cup {"START_SCAN"} <=> h.type = "CANCEL")
      BY <2>2 DEF Freeing
    <3>4. /\ worker'.paused <=> h.type = "PAUSE" \/ (worker.paused /\ h.type \notin {"PAUSE"} \cup Freeing)
          /\ worker'.cancelled <=> \/ h.type = "CANCEL"
                                   \/ worker.cancelled /\ h.type \notin {"CANCEL"} \cup {"START_SCAN"}
      BY <3>2, <3>3
    <3> QED BY <1>1, <1>2, <1>3, <2>1, <3>1, <3>4, TakePauses
  <2> QED BY <2>3, <2>4
<1>7. CASE HandleApply
  <2>1. Takes("APPLY_TEST_RESULT") /\ "APPLY_TEST_RESULT" \in Plainly
    BY <1>7 DEF HandleApply, Plainly
  <2>2. CASE UNCHANGED worker
    BY <1>4, <2>1, <2>2
  <2>3. CASE worker' = NoWorker
    <3>1. worker'.job = 0
      BY <2>3 DEF NoWorker
    <3> QED BY <1>1, <1>2, <1>3, <2>1, <3>1, TakePauses
  <2> QED BY <1>7, <2>2, <2>3 DEF HandleApply, threads
<1>8. ASSUME Drain
      PROVE  worker'.job = worker.job /\ worker'.paused = worker.paused /\ worker'.cancelled = worker.cancelled
  BY <1>1, <1>8 DEF Drain, Workers
<1>9. CASE HandleMatches \/ HandleResults \/ HandleFinished \/ HandleCancelled \/ HandleFailed
  <2>1. PICK type \in Plainly : Takes(type)
    BY <1>9 DEF HandleMatches, HandleResults, HandleFinished, HandleCancelled, HandleFailed, Plainly, Signals
  <2>2. Drain
    BY <1>9 DEF HandleMatches, HandleResults, HandleFinished, HandleCancelled, HandleFailed
  <2> QED BY <1>4, <1>8, <2>1, <2>2
<1>10. CASE HandleLoad \/ HandleLoadAnswer \/ HandleApplyOver
  <2>1. PICK type \in Plainly : Takes(type)
    BY <1>10 DEF HandleLoad, HandleLoadAnswer, HandleApplyOver, Plainly, Signals
  <2>2. UNCHANGED worker
    BY <1>10 DEF HandleLoad, HandleLoadAnswer, HandleApplyOver, threads
  <2> QED BY <1>4, <2>1, <2>2
<1>11. CASE HandleLoadOver
  <2> DEFINE r == Deletion(h.job)
  <2>1. /\ inbox' = Tail(inbox) \o r /\ pipe' = pipe /\ UNCHANGED worker /\ process = "up" /\ process' = "up"
        /\ h.type = "loadOver"
    BY <1>11 DEF HandleLoadOver, threads
  <2>2. r \in Seq(Posted) /\ \A k \in DOMAIN r : r[k].type \in Plainly
    <3>1. CASE loadThread \in {0, h.job}
      BY <3>1 DEF Deletion
    <3>2. CASE loadThread \notin {0, h.job}
      <4> DEFINE s == Signal("deleteThread", loadThread)
      <4>1. loadThread \in Jobs /\ "deleteThread" \in Signals \ {"applyOver"}
        BY <3>2, SessionAssumption DEF Types, ProcessTypes, Jobs, Signals
      <4>2. s \in Posted /\ s.type \in Plainly
        BY <4>1, SignalIsPosted DEF Signal, Plainly
      <4>3. r = <<s>>
        BY <3>2 DEF Deletion
      <4> HIDE DEF s
      <4>4. <<s>> \in Seq(Posted) /\ \A k \in DOMAIN <<s>> : <<s>>[k] = s
        BY <4>2
      <4> HIDE DEF r
      <4> QED BY <4>2, <4>3, <4>4
    <3> QED BY <3>1, <3>2
  <2> HIDE DEF r
  <2>3. h.type \notin {"PAUSE"} \cup Freeing /\ h.type \notin {"CANCEL"} \cup {"START_SCAN"}
    BY <2>1 DEF Freeing
  <2>4. /\ worker'.paused <=> h.type = "PAUSE" \/ (worker.paused /\ h.type \notin {"PAUSE"} \cup Freeing)
        /\ worker'.cancelled <=> \/ h.type = "CANCEL"
                                 \/ worker.cancelled /\ h.type \notin {"CANCEL"} \cup {"START_SCAN"}
    BY <2>1, <2>3
  <2>5. worker'.job = worker.job
    BY <2>1
  <2> QED BY <1>1, <1>2, <2>1, <2>2, <2>4, <2>5, TakePauses
<1>12. CASE HandleDelete
  <2>1. CASE Exit
    BY <2>1 DEF Exit, PauseReaches
  <2>2. CASE ~Exit
    <3>1. Takes("deleteThread") /\ UNCHANGED worker /\ "deleteThread" \in Plainly
      BY <1>12, <2>2 DEF HandleDelete, Takes, threads, Plainly, Signals
    <3> QED BY <1>4, <3>1
  <2> QED BY <2>1, <2>2
<1> QED BY <1>5, <1>6, <1>7, <1>9, <1>10, <1>11, <1>12 DEF Handle

\* The process keeps the property: a worker that is replaced begins with its flags down.
LEMMA WorkPauses ==
    ASSUME Types, PauseInv, Work, UNCHANGED gui
    PROVE  PauseReaches'
<1>1. CASE ReadLine
  <2>1. UNCHANGED <<scanning, paused, overlapped, process, worker>>
    BY <1>1 DEF gui, view, count, ReadLine, threads
  <2>2. (WillPause' <=> WillPause) /\ (WillStop' <=> WillStop)
    BY <1>1, <2>1, ReadTells, WillIs
  <2>3. HasScan' => HasScan
    <3> DEFINE q == <<Head(pipe)>>
    <3>1. /\ inbox \in Seq(Posted) /\ pipe \in Seq(Lines) /\ pipe # <<>> /\ Head(pipe) \in Lines
          /\ inbox' = inbox \o q /\ pipe' = Tail(pipe)
      BY <1>1, HeadTailProperties DEF Types, ProcessTypes, ReadLine, Post
    <3>2. q \in Seq(Posted)
      BY <3>1 DEF Lines
    <3>3. Head(pipe) = pipe[1] /\ 1 \in DOMAIN pipe
      BY <3>1, HeadTailProperties, LenProperties, EmptySeq
    <3>4. StartIn(q) => StartIn(pipe)
      BY <3>3 DEF StartIn
    <3> HIDE DEF q
    <3>5. (StartIn(inbox)' <=> StartIn(inbox \o q)) /\ (StartIn(pipe)' <=> StartIn(Tail(pipe)))
      BY <2>1, <3>1 DEF StartIn
    <3>6. StartIn(inbox \o q) => StartIn(inbox) \/ StartIn(q)
      BY <3>1, <3>2, StartJoins
    <3>7. StartIn(Tail(pipe)) => StartIn(pipe)
      BY <3>1, StartWaited
    <3> QED BY <2>1, <3>4, <3>5, <3>6, <3>7 DEF HasScan
  <2> QED BY <2>1, <2>2, <2>3, PauseStays
<1>2. CASE FindMatch \/ WorkerReports \/ WorkerFinishes \/ WorkerStops \/ WorkerFails
           \/ LoadRuns \/ ApplyEnds
  BY <1>2, ThreadsPause
<1>3. CASE Handle
  BY <1>3, HandlersPause
<1> QED BY <1>1, <1>2, <1>3 DEF Work

\* A command that neither starts a scan nor touches a flag changes nothing of it.
LEMMA SendPauses ==
    ASSUME Types, PauseInv, NEW c \in Lines, c.type \in {"LOAD_INDEX", "APPLY_TEST_RESULT"}, Send(c),
           UNCHANGED <<process, inbox, worker, scanning, paused>>, overlapped => overlapped'
    PROVE  PauseReaches'
<1> SUFFICES ASSUME process = "up", scanning # 0, ~overlapped, HasScan', ~WillStop'
             PROVE  paused <=> WillPause'
  BY DEF PauseReaches
<1>1. pipe' = Append(pipe, c)
  BY DEF Send
<1>2. c.type \notin {"PAUSE"} \cup Freeing /\ c.type \notin {"CANCEL"} \cup {"START_SCAN"}
  BY DEF Freeing
<1>3. (WillPause' <=> WillPause) /\ (WillStop' <=> WillStop)
  BY <1>1, <1>2, SendTells, WillIs
<1>4. HasScan
  <2> DEFINE q == <<c>>
  <2>1. pipe \in Seq(Lines) /\ q \in Seq(Lines) /\ pipe' = pipe \o q
    BY <1>1, AppendIsConcat DEF Types, ProcessTypes
  <2>2. ~StartIn(q)
    BY <1>2 DEF StartIn
  <2> HIDE DEF q
  <2>3. (StartIn(inbox)' <=> StartIn(inbox)) /\ (StartIn(pipe)' <=> StartIn(pipe \o q))
    BY <2>1 DEF StartIn
  <2> QED BY <2>1, <2>2, <2>3, StartJoins DEF HasScan
<1> QED BY <1>3, <1>4 DEF PauseInv, PauseReaches

\* The user: a scan that is asked for is not paused, and a press of the button decides.
LEMMA UserPauses ==
    ASSUME Types, PauseInv, User \/ Reload
    PROVE  PauseInv'
<1>1. UNCHANGED <<process, inbox, worker, available>>
  BY DEF User, Reload, StartScan, LoadIndex, TogglePauseScan, CancelScan, AnswerTestDiff, AskLoad,
         sent, backend, queues, threads, link
<1>2. ASSUME UNCHANGED <<pipe, scanning, paused>>, overlapped => overlapped'
      PROVE  PauseInv'
  <2>1. WillPause' <=> WillPause
    BY <1>1, <1>2, WillIs
  <2>2. WillStop' <=> WillStop
    BY <1>1, <1>2, WillIs
  <2>3. HasScan' <=> HasScan
    BY <1>1, <1>2 DEF HasScan, StartIn
  <2> QED BY <1>1, <1>2, <2>1, <2>2, <2>3 DEF PauseInv, Served, PauseReaches
<1>3. ASSUME NEW test \in BOOLEAN, StartScan(test)
      PROVE  PauseInv'
  <2>1. CASE MayBegin /\ Room /\ Begin(test) /\ Send(Command("START_SCAN", requests + 1, test))
    <3> DEFINE c == Command("START_SCAN", requests + 1, test)
    <3>1. requests + 1 \in Jobs /\ requests + 1 \in 0..MaxJobs
      BY <2>1, NextJob DEF Types
    <3>2. c \in Lines /\ c.type = "START_SCAN"
      BY <3>1, CommandIsLine DEF Commands, Command
    <3>3. available' /\ ~paused'
      BY <1>1, <2>1 DEF MayBegin, Begin
    <3>4. ASSUME process' = "up" PROVE ~WillPause'
      <4>1. pipe' = Append(pipe, c)
        BY <1>1, <2>1, <3>4 DEF Send
      <4>2. c.type \notin {"PAUSE"} /\ c.type \in Freeing
        BY <3>2 DEF Freeing
      <4> HIDE DEF c
      <4> QED BY <1>1, <3>2, <4>1, <4>2, SendTells, WillIs
    <3> QED BY <3>3, <3>4 DEF PauseInv, Served, PauseReaches
  <2>2. CASE UNCHANGED <<pipe, scanOwed, scanning, paused, cancelWait, got, lastTest, requests, overlapped>>
    BY <1>2, <2>2
  <2> QED BY <1>3, <2>1, <2>2 DEF StartScan
<1>4. CASE LoadIndex \/ (Idle /\ AskLoad)
  <2>1. scanning' = 0
    BY <1>4 DEF LoadIndex, Idle, AskLoad
  <2> QED BY <2>1 DEF PauseInv, Served, PauseReaches
<1>5. CASE TogglePauseScan
  <2> DEFINE c == Command(IF paused THEN "RESUME" ELSE "PAUSE", 0, FALSE)
  <2>1. 0 \in 0..MaxJobs
    BY SessionAssumption
  <2>2. c \in Lines /\ c.type = IF paused THEN "RESUME" ELSE "PAUSE"
    BY <2>1, CommandIsLine DEF Commands, Command
  <2>3. UNCHANGED <<scanning, overlapped>> /\ paused' = ~paused /\ Send(c)
    BY <1>5 DEF TogglePauseScan, count
  <2>4. ASSUME process = "up" PROVE paused' <=> WillPause'
    <3>1. pipe' = Append(pipe, c)
      BY <2>3, <2>4 DEF Send
    <3> HIDE DEF c
    <3>2. c.type \in {"PAUSE"} <=> ~paused
      BY <2>2
    <3>3. paused => c.type \in Freeing
      BY <2>2 DEF Freeing
    <3>4. WillPause' <=> c.type \in {"PAUSE"}
      BY <1>1, <2>2, <3>1, <3>2, <3>3, SendTells, WillIs
    <3>5. paused' <=> ~paused
      BY <2>3
    <3> QED BY <3>2, <3>4, <3>5
  <2> QED BY <1>1, <2>3, <2>4 DEF PauseInv, Served, PauseReaches
<1>6. CASE CancelScan
  <2> DEFINE c == Command("CANCEL", 0, FALSE)
  <2>1. 0 \in 0..MaxJobs
    BY SessionAssumption
  <2>2. c \in Lines /\ c.type = "CANCEL"
    BY <2>1, CommandIsLine DEF Commands, Command
  <2>3. UNCHANGED <<scanning, overlapped>> /\ Send(c)
    BY <1>6 DEF CancelScan, count
  <2>4. ASSUME process = "up" PROVE WillStop'
    <3>1. pipe' = Append(pipe, c)
      BY <2>3, <2>4 DEF Send
    <3> HIDE DEF c
    <3> QED BY <1>1, <2>2, <3>1, SendTells, WillIs
  <2> QED BY <1>1, <2>3, <2>4 DEF PauseInv, Served, PauseReaches
<1>7. CASE AnswerTestDiff
  <2> DEFINE c == Command("APPLY_TEST_RESULT", 0, FALSE)
  <2>1. 0 \in 0..MaxJobs
    BY SessionAssumption
  <2>2. c \in Lines /\ c.type = "APPLY_TEST_RESULT"
    BY <2>1, CommandIsLine DEF Commands, Command
  <2>3. UNCHANGED <<scanning, paused, overlapped>> /\ (Send(c) \/ UNCHANGED pipe)
    BY <1>7 DEF AnswerTestDiff, view, count
  <2>4. CASE Send(c)
    <3> HIDE DEF c
    <3>1. PauseReaches'
      BY <1>1, <2>2, <2>3, <2>4, SendPauses
    <3> QED BY <1>1, <2>3, <3>1 DEF PauseInv, Served
  <2>5. CASE UNCHANGED pipe
    BY <1>2, <2>3, <2>5
  <2> QED BY <2>3, <2>4, <2>5
<1>8. CASE Reload
  BY <1>2, <1>4, <1>8 DEF Reload, backend, queues, view, count
<1> QED BY <1>3, <1>4, <1>5, <1>6, <1>7, <1>8 DEF User

\* An event touches neither flag nor queue, or ends the scan.
LEMMA DispatchPauses ==
    ASSUME Types, PauseInv, Dispatch
    PROVE  PauseInv'
<1>1. UNCHANGED <<process, pipe, inbox, worker, overlapped>>
  BY DEF Dispatch, threads, count
<1>2. UNCHANGED available /\ (scanning' = 0 \/ UNCHANGED <<scanning, paused>>)
  BY DEF Dispatch, OnMatches, OnResults, OnFinished, OnFailed, OnTestDiff, LoadFailed, ScanFailed, NotRunning,
         link, view
<1>3. CASE scanning' = 0
  BY <1>3 DEF PauseInv, Served, PauseReaches
<1>4. CASE UNCHANGED <<scanning, paused>>
  <2>1. (WillPause' <=> WillPause) /\ (WillStop' <=> WillStop)
    BY <1>1, WillIs
  <2>2. HasScan' <=> HasScan
    BY <1>1, <1>4 DEF HasScan, StartIn
  <2> QED BY <1>1, <1>2, <1>4, <2>1, <2>2 DEF PauseInv, Served, PauseReaches
<1> QED BY <1>2, <1>3, <1>4

\* A lost backend takes the scan with it, and the scan that is resumed is not paused.
LEMMA FatePauses ==
    ASSUME Sound, IInv, PauseInv, NoticeExit \/ Fate
    PROVE  PauseInv'
<1>1. ASSUME ScanLost, UNCHANGED overlapped
      PROVE  PauseInv'
  <2>1. ~overlapped => scanning' = 0
    BY <1>1 DEF IInv, OneJob, ScanAgreed, ScanLost, ScanFailed, NotRunning
  <2> QED BY <1>1, <2>1 DEF PauseInv, Served, PauseReaches
<1>2. CASE NoticeExit \/ WatchdogLoss
  BY <1>1, <1>2 DEF NoticeExit, WatchdogLoss, kept
<1>3. CASE Die
  <2>1. process' # "up" /\ UNCHANGED <<available, scanning, overlapped>>
    BY <1>3 DEF Die, Exit, link, view
  <2> QED BY <2>1 DEF PauseInv, Served, PauseReaches
<1>4. CASE Return
  <2>1. process = "gone" /\ ~available /\ inbox = <<>> /\ worker = NoWorker /\ pipe = <<>>
    BY <1>4 DEF Return, Sound, NotUp
  <2>2. UNCHANGED <<inbox, worker>> /\ available' = TRUE
    BY <1>4 DEF Return, threads
  <2>3. CASE Room /\ Begin(lastTest) /\ pipe' = <<Command("START_SCAN", requests + 1, lastTest)>>
    <3> DEFINE c == Command("START_SCAN", requests + 1, lastTest)
               q == <<c>>
    <3>1. c.type = "START_SCAN" /\ c.type \in Freeing /\ c.type \notin {"PAUSE"} /\ pipe' = q
      BY <2>3 DEF Command, Freeing
    <3> HIDE DEF c
    <3>2. ~Sets(q, {"PAUSE"}, Freeing) /\ ~Skips(q, {"PAUSE"} \cup Freeing)
      BY <3>1, OneTells
    <3> HIDE DEF q
    <3>3. ~WillPause'
      BY <3>1, <3>2, WillIs DEF Then
    <3>4. ~paused'
      BY <2>3 DEF Begin
    <3> QED BY <2>2, <3>3, <3>4 DEF PauseInv, Served, PauseReaches
  <2>4. CASE UNCHANGED <<scanning, overlapped>>
    BY <2>1, <2>2, <2>4 DEF PauseInv, Served, PauseReaches
  <2> QED BY <1>4, <2>3, <2>4 DEF Return, view
<1> QED BY <1>2, <1>3, <1>4 DEF Fate

PauseProof == ControlInv /\ PauseInv

\* There is no scan at first.
LEMMA PauseBegins == Init => PauseProof
<1> SUFFICES ASSUME Init PROVE PauseProof
  OBVIOUS
<1>1. scanning = 0
  BY DEF Init
<1> QED BY <1>1, ControlBegins DEF PauseProof, PauseInv, Served, PauseReaches

\* Every step keeps what the proof rests on.
LEMMA PauseKept ==
    ASSUME PauseProof, [Next]_vars
    PROVE  PauseProof'
<1>1. ControlInv' /\ Sound /\ Types /\ IInv /\ PauseInv
  BY ControlKept DEF PauseProof, ControlInv, Sound
<1>2. CASE User \/ Reload
  BY <1>1, <1>2, UserPauses DEF PauseProof
<1>3. CASE Dispatch
  BY <1>1, <1>3, DispatchPauses DEF PauseProof
<1>4. CASE NoticeExit \/ Fate
  BY <1>1, <1>4, FatePauses DEF PauseProof
<1>5. CASE Work /\ UNCHANGED gui
  <2>1. PauseReaches'
    BY <1>1, <1>5, WorkPauses
  <2>2. UNCHANGED <<available, scanning, overlapped>>
    BY <1>5 DEF gui, link, view, count
  <2> QED BY <1>1, <2>1, <2>2 DEF PauseProof, PauseInv, Served
<1>6. CASE UNCHANGED vars
  <2>1. UNCHANGED <<process, pipe, inbox, worker, available, scanning, paused, overlapped>>
    BY <1>6 DEF vars, backend, queues, threads, link, view, count
  <2>2. (WillPause' <=> WillPause) /\ (WillStop' <=> WillStop)
    BY <2>1, WillIs
  <2>3. HasScan' <=> HasScan
    BY <2>1 DEF HasScan, StartIn
  <2> QED BY <1>1, <2>1, <2>2, <2>3 DEF PauseProof, PauseInv, Served, PauseReaches
<1> QED
  BY <1>2, <1>3, <1>4, <1>5, <1>6 DEF Next

\* Until it is stopped, a scan is, or is about to be, paused exactly if the window says so: however
\* the presses of the button, the commands in the two queues, the end of the scan before it and the
\* loss of the backend fall (MainWindow::togglePauseScan and BackendSession::pause, resume, startScan).
THEOREM PauseIsTrue == Spec => []PauseReaches
<1>1. PauseProof => PauseReaches
  BY DEF PauseProof, PauseInv
<1> QED
  BY <1>1, PauseBegins, PauseKept, PTL DEF Spec

================================================================================
