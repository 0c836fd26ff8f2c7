------------------------------- MODULE ScanWalk -------------------------------
(***************************************************************************)
(* One directory walk of MediaSearchEngine::scan: the walker thread runs    *)
(* Scanner::scan_stream and pushes every media file it finds into the       *)
(* bounded WalkerQueue, the scan thread (the consumer) pops and processes   *)
(* them, and when it believes the walk complete it forgets every indexed    *)
(* file the walk did not see.                                               *)
(*                                                                         *)
(* The media files are 1..NFiles in enumeration order.  They all exist on   *)
(* disk for the whole walk, and an earlier scan has indexed every one, so   *)
(* no row may be forgotten.  What analysis does with a file is              *)
(* the subject of ScanIndex; here it succeeds, fails, throws, or reports    *)
(* that it stopped because of the cancel flag.                              *)
(***************************************************************************)
EXTENDS Naturals, Sequences

CONSTANTS NFiles,         \* media files below the scanned folder
          Capacity,       \* capacity of the walker queue
          HashBatch,      \* kHashBatch: files hashed, then offered, together
          MayCancel,      \* Stop may be requested
          MayPause,       \* Pause and Resume may be requested
          MayThrow,       \* either thread may throw
          MayFail,        \* processing a file may fail (a database error)
          MayEnumError    \* the directory iterator may report an I/O error

ASSUME WalkAssumption ==
    /\ NFiles \in Nat
    /\ Capacity \in Nat \ {0}
    /\ HashBatch \in Nat \ {0}
    /\ {MayCancel, MayPause, MayThrow, MayFail, MayEnumError} \subseteq BOOLEAN

Files == 1..NFiles

VARIABLES
    queue, shutdown,  \* the WalkerQueue
    cancel, pause,    \* ScanControl's flags, set by other threads
    wpc,              \* where the walker is
    reach,            \* files the directory iterator will yield
    enumerated,       \* files it has yielded
    offered,          \* files push() has been called for
    pushed,           \* files push() has accepted
    walkAbort,        \* the consumer, or a refused push, stops the walk
    walkError,        \* the walker caught an exception
    walkDone,         \* the walker has finished
    cpc,              \* where the consumer is
    consumed,         \* files the consumer has popped
    failed, cancelled, threw, walkCompleted,   \* the consumer's verdicts
    rows              \* indexed files

queueSide    == <<queue, shutdown>>
walkerSide   == <<wpc, reach, enumerated, offered, pushed, walkError, walkDone>>
consumerSide == <<cpc, consumed, failed, cancelled, threw, walkCompleted, rows>>
flags        == <<cancel, pause>>
walkVars == <<queueSide, flags, walkerSide, walkAbort, consumerSide>>

WQ == INSTANCE WalkerQueue WITH Items <- Files

WalkerPC   == {"enum", "offer", "leave", "close", "ended"}
ConsumerPC == {"poll", "take", "process", "stopTest", "doneTest",
               "leave", "close", "join", "forget", "ended"}

WalkTypeOK ==
    /\ queue \in Seq(Files)
    /\ {shutdown, cancel, pause, walkAbort, walkError, walkDone} \subseteq BOOLEAN
    /\ wpc \in WalkerPC
    /\ {reach, enumerated, offered, pushed, consumed} \subseteq 0..NFiles
    /\ cpc \in ConsumerPC
    /\ {failed, cancelled, threw, walkCompleted} \subseteq BOOLEAN
    /\ rows \subseteq Files

WalkInit ==
    /\ WQ!Init
    /\ pause = FALSE
    /\ wpc = "enum" /\ reach = NFiles /\ enumerated = 0 /\ offered = 0 /\ pushed = 0
    /\ walkAbort = FALSE /\ walkError = FALSE /\ walkDone = FALSE
    /\ cpc = "poll" /\ consumed = 0
    /\ failed = FALSE /\ cancelled = FALSE /\ threw = FALSE /\ walkCompleted = FALSE
    /\ rows = Files

-----------------------------------------------------------------------------
(* The walker thread.  A batch is the files enumerated but not yet offered.  *)

\* scan_stream's cancelled().
WalkStopped == cancel \/ walkAbort

\* Mutant of LoopOver: the end of the tree is not noticed.
LoopOverWhenStopped == WalkStopped

\* The enumeration loop is over; once it is, it stays so.
LoopOver == WalkStopped \/ enumerated = reach

\* One turn of the enumeration loop: a paused walker sleeps, a full batch is
\* hashed and then offered file by file.
Enumerate ==
    /\ wpc = "enum"
    /\ ~LoopOver
    /\ ~pause
    /\ enumerated' = enumerated + 1
    /\ wpc' = IF enumerated' - offered >= HashBatch THEN "offer" ELSE "enum"
    /\ UNCHANGED <<queueSide, flags, offered, pushed, reach, walkError, walkDone, walkAbort,
                   consumerSide>>

\* The loop is left, at the end of the tree or because the walk is stopped;
\* what is left of the batch is flushed after it.
StopEnumerating ==
    /\ wpc = "enum"
    /\ LoopOver
    /\ wpc' = "offer"
    /\ UNCHANGED <<queueSide, flags, enumerated, offered, pushed, reach, walkError, walkDone,
                   walkAbort, consumerSide>>

\* An error of the iterator's constructor (an unreachable root) or of
\* increment(ec) leaves the end iterator behind: the loop ends as it does at
\* the end of the tree, and nothing records that the walk was cut short.
EnumError ==
    /\ MayEnumError
    /\ wpc = "enum"
    /\ enumerated < reach
    /\ reach' = enumerated
    /\ UNCHANGED <<queueSide, flags, wpc, enumerated, offered, pushed, walkError, walkDone,
                   walkAbort, consumerSide>>

\* Mutant of OfferAccepted: the wait for room is left without room.
OfferOverfull ==
    /\ wpc = "offer"
    /\ offered < enumerated
    /\ ~WQ!Refused
    /\ queue' = Append(queue, offered + 1)
    /\ offered' = offered + 1
    /\ pushed' = pushed + 1
    /\ UNCHANGED <<shutdown, flags, wpc, enumerated, reach, walkError, walkDone, walkAbort,
                   consumerSide>>

\* onFile with a push that the queue accepts.
OfferAccepted ==
    /\ wpc = "offer"
    /\ offered < enumerated
    /\ WQ!Push(offered + 1)
    /\ offered' = offered + 1
    /\ pushed' = pushed + 1
    /\ UNCHANGED <<pause, wpc, enumerated, reach, walkError, walkDone, walkAbort, consumerSide>>

\* onFile with a push that is refused: the file is dropped.  push() tests
\* shutdown first, and only that refusal stops the walk.
OfferRefused ==
    /\ wpc = "offer"
    /\ offered < enumerated
    /\ WQ!Refused
    /\ offered' = offered + 1
    /\ walkAbort' = (walkAbort \/ shutdown)
    /\ UNCHANGED <<queueSide, flags, wpc, enumerated, pushed, reach, walkError, walkDone,
                   consumerSide>>

\* The batch is flushed: back to the loop, or out of scan_stream when the
\* loop had been left.  (A loop that could go on and finds the walk stopped
\* leaves on its next turn, with an empty batch.)
Flushed ==
    /\ wpc = "offer"
    /\ offered = enumerated
    /\ wpc' = IF LoopOver THEN "leave" ELSE "enum"
    /\ UNCHANGED <<queueSide, flags, enumerated, offered, pushed, reach, walkError, walkDone,
                   walkAbort, consumerSide>>

\* Anything thrown inside the walker is caught at the end of the thread.
WalkerThrows ==
    /\ MayThrow
    /\ wpc \in {"enum", "offer"}
    /\ walkError' = TRUE
    /\ wpc' = "leave"
    /\ UNCHANGED <<queueSide, flags, enumerated, offered, pushed, reach, walkDone, walkAbort,
                   consumerSide>>

\* walkDone.store(true), and then queue.shutdown(), are two steps.
WalkerDone ==
    /\ wpc = "leave"
    /\ walkDone' = TRUE
    /\ wpc' = "close"
    /\ UNCHANGED <<queueSide, flags, enumerated, offered, pushed, reach, walkError, walkAbort,
                   consumerSide>>

WalkerCloses ==
    /\ wpc = "close"
    /\ WQ!Shutdown
    /\ wpc' = "ended"
    /\ UNCHANGED <<pause, enumerated, offered, pushed, reach, walkError, walkDone, walkAbort,
                   consumerSide>>

\* What the thread does of itself ...
WalkerRuns ==
    \/ Enumerate \/ StopEnumerating
    \/ OfferAccepted \/ OfferRefused \/ Flushed
    \/ WalkerDone \/ WalkerCloses

\* ... and what may happen to it.
Walker == WalkerRuns \/ EnumError \/ WalkerThrows

-----------------------------------------------------------------------------
(* The consumer: the scan thread.                                            *)

GoTo(label) == cpc' = label

\* while(!failed && !cancelled).  The stall watchdog polled here never cancels:
\* it does so only for an image batch without a completion, and this thread is
\* back at the poll only when the batch has completed.
PollStop ==
    /\ cpc = "poll"
    /\ GoTo(IF failed \/ cancelled THEN "leave" ELSE "take")
    /\ UNCHANGED <<queueSide, flags, walkerSide, walkAbort, consumed,
                   failed, cancelled, threw, walkCompleted, rows>>

\* waitForData(50) and tryPop().
Take ==
    /\ cpc = "take"
    /\ WQ!Pop
    /\ consumed' = consumed + 1
    /\ GoTo("process")
    /\ UNCHANGED <<pause, walkerSide, walkAbort, failed, cancelled, threw, walkCompleted, rows>>

TakeNothing ==
    /\ cpc = "take"
    /\ queue = <<>>
    /\ GoTo("stopTest")
    /\ UNCHANGED <<queueSide, flags, walkerSide, walkAbort, consumed,
                   failed, cancelled, threw, walkCompleted, rows>>

\* processOne: the four ways it can end.
ProcessFile ==
    /\ cpc = "process"
    /\ \/ GoTo("stopTest") /\ UNCHANGED <<failed, cancelled, threw>>
       \/ MayFail /\ failed' = TRUE /\ GoTo("stopTest") /\ UNCHANGED <<cancelled, threw>>
       \/ cancel /\ cancelled' = TRUE /\ GoTo("stopTest") /\ UNCHANGED <<failed, threw>>
       \/ MayThrow /\ threw' = TRUE /\ failed' = TRUE /\ GoTo("leave") /\ UNCHANGED cancelled
    /\ UNCHANGED <<queueSide, flags, walkerSide, walkAbort, consumed, walkCompleted, rows>>

\* Mutant of StopTest: a stop does not wake a paused scan.
StopTestAsleep ==
    /\ cpc = "stopTest"
    /\ ~pause
    /\ cancelled' = (cancelled \/ cancel)
    /\ GoTo(IF cancel THEN "poll" ELSE "doneTest")
    /\ UNCHANGED <<queueSide, flags, walkerSide, walkAbort, consumed, failed, threw,
                   walkCompleted, rows>>

\* stopped(control): waits while paused, then reads the cancel flag.
StopTest ==
    /\ cpc = "stopTest"
    /\ ~pause \/ cancel
    /\ cancelled' = (cancelled \/ cancel)
    /\ GoTo(IF cancel THEN "poll" ELSE "doneTest")
    /\ UNCHANGED <<queueSide, flags, walkerSide, walkAbort, consumed, failed, threw,
                   walkCompleted, rows>>

\* Mutant of WalkOver: files still in the queue are forgotten about.
WalkOverEarly == walkDone

\* walkDone.load() && queue.empty(), some time after the cancel flag was read.
WalkOver == walkDone /\ queue = <<>>

DoneTest ==
    /\ cpc = "doneTest"
    /\ walkCompleted' = WalkOver
    /\ GoTo(IF WalkOver THEN "leave" ELSE "poll")
    /\ UNCHANGED <<queueSide, flags, walkerSide, walkAbort, consumed, failed, cancelled, threw,
                   rows>>

\* After the loop: stop the walker if anything went wrong, ...
Leave ==
    /\ cpc = "leave"
    /\ walkAbort' = (walkAbort \/ failed \/ cancelled \/ walkError)
    /\ GoTo("close")
    /\ UNCHANGED <<queueSide, flags, walkerSide, consumed, failed, cancelled, threw,
                   walkCompleted, rows>>

\* ... shut the queue down, so that no push can wait for room, ...
Close ==
    /\ cpc = "close"
    /\ WQ!Shutdown
    /\ GoTo("join")
    /\ UNCHANGED <<pause, walkerSide, walkAbort, consumed, failed, cancelled, threw,
                   walkCompleted, rows>>

\* ... and join the thread.  An exception of either side, or a failure, ends
\* the scan with a rollback.
Join ==
    /\ cpc = "join"
    /\ wpc = "ended"
    /\ GoTo(IF threw \/ walkError \/ failed THEN "ended" ELSE "forget")
    /\ UNCHANGED <<queueSide, flags, walkerSide, walkAbort, consumed, failed, cancelled, threw,
                   walkCompleted, rows>>

\* Deletion detection: rows of files that were not seen are forgotten.
Seen == 1..consumed

Forget ==
    /\ cpc = "forget"
    /\ rows' = IF walkCompleted THEN rows \cap Seen ELSE rows
    /\ GoTo("ended")
    /\ UNCHANGED <<queueSide, flags, walkerSide, walkAbort, consumed, failed, cancelled, threw,
                   walkCompleted>>

Consumer ==
    \/ PollStop \/ Take \/ TakeNothing \/ ProcessFile
    \/ StopTest \/ DoneTest \/ Leave \/ Close \/ Join \/ Forget

-----------------------------------------------------------------------------
(* The control interface: Stop, Pause and Resume from another thread.        *)

RequestStop ==
    /\ MayCancel
    /\ ~cancel
    /\ WQ!Cancel
    /\ UNCHANGED <<pause, walkerSide, walkAbort, consumerSide>>

TogglePause ==
    /\ MayPause
    /\ pause' = ~pause
    /\ UNCHANGED <<queueSide, cancel, walkerSide, walkAbort, consumerSide>>

\* The scan is over: both threads have ended.
Over == cpc = "ended" /\ wpc = "ended" /\ UNCHANGED walkVars

WalkNext == Walker \/ Consumer \/ RequestStop \/ TogglePause \/ Over

WalkSpec == WalkInit /\ [][WalkNext]_walkVars

\* Both threads run; nobody has to press anything, and nothing has to fail: a
\* walker that waits for room is not saved by an exception.
WalkFairSpec == WalkSpec /\ WF_walkVars(WalkerRuns) /\ WF_walkVars(Consumer)

-----------------------------------------------------------------------------

\* The two threads use their queue as a WalkerQueue: what is between them only
\* ever changes by one of its operations, a push of the next file among them.
QueueSpec == WQ!Spec

\* The consumer sees the files in the order they were accepted, each once and
\* none skipped: what is between the two threads is exactly the next run of
\* files after the last one popped.
InOrder ==
    /\ consumed + Len(queue) = pushed
    /\ \A i \in 1..Len(queue) : queue[i] = consumed + i

\* A file offered and not accepted was refused for good: the walk has been
\* told to stop, and no later file was accepted.
DropsOnlyWhenStopped == pushed < offered => cancel \/ shutdown

\* Unless a Stop or an I/O error got in the way, a walk is called complete only
\* when every file has been processed: the test of walkDone and the queue does
\* not miss files still in the walker's hands or in the queue.
CompleteMeansAll ==
    walkCompleted /\ ~cancel /\ ~walkError /\ reach = NFiles => consumed = NFiles

\* No file is lost between the two threads: skipped, dropped without a stop, or
\* left behind by a walk that is called complete.
NoFileLost == InOrder /\ DropsOnlyWhenStopped /\ CompleteMeansAll

\* Every file of this model exists, so deletion detection may remove no row.
KeepsExisting == rows = Files

Ended == cpc = "ended" /\ wpc = "ended"

\* A Stop ends the scan, paused or not, with a full queue or an empty one: the
\* walker waiting for room and the consumer waiting for the walker's thread
\* never wait for each other.
StopEnds == cancel ~> Ended

\* Without a Stop, and unless it stays paused for ever, the walk ends by itself.
WalkEnds == <>[](~pause) => <>Ended
=============================================================================
