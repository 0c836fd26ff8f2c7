# Formal models of MediaSimilarityFinder

TLA+ specifications of MediaSimilarityFinder: the scan, which walks a folder, fingerprints every image
and video, and keeps an index of similar pairs which later scans extend instead of recomputing; what works beside
the scan (watchdog, choice of the device, folder monitor); what the analysis computes; the supervisor that keeps
the process running which scans, and the conversation between the window and that process; the window's
lists and thumbnails; and what the program keeps on disk. Paths below are relative to
`src/src_unpacked/`; "engine" is `src/media_search_engine.cpp`, "worker" is `src/scan_worker.cpp`, "pipeline" is
`src/scan_pipeline.cpp`, "session" is `src/backend_session.cpp`, "window" is `gui/mainwindow.cpp`.

Contents: [the system](#the-system), [the models](#the-models), [the runs](#the-runs),
[the proofs](#the-proofs), [disagreements with the documentation](#where-code-and-documentation-disagree),
[limits](#limits-of-the-models), [not modelled](#not-modelled), [the plan](#the-plan).

## The system

A GUI process starts a backend process and drives it with lines of JSON on its standard input and output. The backend owns one
scan worker at a time; a scan is one engine object, one SQLite connection, a walker thread and
short-lived pools of decoding and verification threads. Everything a later scan relies on is in the
folder's SQLite index.

| Part | State it keeps | Operations | Interacts by | What is hard | What makes it correct | Module |
|---|---|---|---|---|---|---|
| Walker queue (`walker_queue.cpp`) | bounded queue, shutdown flag | push, tryPop, waitForData, shutdown | mutex and condition variable between two threads; reads the scan's cancel flag | full queue against stop and join | FIFO, bounded, no item lost unless a stop or shutdown was requested | WalkerQueue |
| Directory walk (`scanner.cpp`, engine 1212-1303) | iterator, batch, walkDone/walkError/walkAbort | enumerate, hash a batch, offer, end | callbacks into the engine, queue to the consumer | two threads that stop, pause, throw and join; errors of the iterator | everything seen before the walk is called complete; always ends | ScanWalk |
| Scan and index (worker, engine, `database.cpp`) | file rows, pairs, baseline, crash marker, frontier, open transaction | scan in three modes, checkpoint, final pass, every exit | the worker is called back by the engine for each match and changed file, and saves pairs through the engine's connection | kills, stops, failing statements, exceptions, files changing underneath; decisions taken from state an earlier scan left | what a later scan skips has been done; nothing found is lost; no outdated verdict | ScanIndex |
| Final pass (pipeline) | candidate indexes, windows of groups, pending video pairs | analyze, addAndMatch, onSlice | onMatch and onSlice callbacks; asks stop() | a stop inside a window of parallel workers; merged output; a pass resumed in the middle | each pair that is due is reported once, in the order one thread would | AnalyzePass, ScanIndex |
| Candidate index (`candidate_index.cpp`) | hashes filed under slices | add, query, enumerate pairs in ranges | called by the pipeline from several workers | slice radius, ranges, files with several hashes | exact within the distance, no pair twice | CandidateIndex |
| Stall watchdog (`stall_watchdog.h`) | last activity, episode, unit | noteActivity, beginUnit, check | polled by the engine | clock against progress | never cancels long work, sees a hung video | StallWatchdog |
| Scheduler (`scheduler.cpp`) | averages of samples, last decision, clocks | decide, maybeReevaluate, reset | engine, before each batch | swinging load; old samples | no flapping; follows a load that stays | Scheduler |
| Profile and calibration (`profile.cpp`, `calibration.cpp`) | one file per machine, deviation tracker | load, classify, calibrate, feed, save | beginning and end of a scan; two processes | stale or foreign measurements, failed saves | a rate in use is of this machine and young | Profile |
| Folder monitor (`monitor.cpp`) | delay queue, retry counts | watch, enqueue, loop, pause, start, stop | kernel notices; writes the index | order of notices; reads of the directory that are issued twice; a watcher that ends without a word; a file that changes while it is examined | the index follows the disk | Monitor |
| Video fingerprints and decoding (`video_fingerprint.cpp`, `video_decoder.cpp`) | LRU in memory, rows in the index | build, buildFull, framesAt | threads of scan and analysis | files rewritten during a decode of minutes; lost frames; the GPU's failures | a print is of the file as it was during the call, under the policy in force | VideoCache, VideoSweep |
| Image verification (`image_verify.cpp`) | LRU of decoded images | verifyImagePair | threads of the final pass | two threads that miss the same image | the map leads to living nodes | VerifyCache |
| Supervisor (`gui/backend_supervisor.cpp`) | process state, timers, restart count | start, stop, ready, health, lines, exits, escalation | QProcess signals, timers, calls and signals of the window | timers racing exits and answers | one live backend at most, bounded restarts, no stuck state | BackendSupervisor |
| Session and IPC (`backend_session.cpp`, `backend_ipc.cpp`, `backend_main.cpp`) | scan worker and its thread, threads of a load and of an adoption, flags for what is busy | start, pause, resume, stop, load, re-verify, adopt, forget, shutdown | JSON lines read by a thread of their own; queued signals of the worker and of the other threads | a command beside a scan's last signals, handlers that block the event loop, flags read for threads that go on | matches precede the end of their scan; one writer of the index; flags are those of the running scan | BackendSession |
| Test Mode (session) | scratch index, what is pending | test scan, compare, adopt | a box of the window, a thread of its own | the session's folder and scope read when the thread runs | the baseline stays true, the adoption within its scope | TestAdoption |
| Scan control of the window | scanning, loading, paused, what was lost, open boxes | start, load, pause, stop, adopt, auto-resume | supervisor's signals, which name no job | answers that arrive late, losses of the backend in between | an answer is taken for the right job; whatever was started ends for the window | ScanControl |
| Results views of the window | union-find, groups, rows, marks | add matches, refresh, fill, tabs, mark, delete | ticks and deferred chunks on the event loop | a fill that is superseded; rows that hold indexes | the list is the classes of the matches, the rows are the list | ResultsView |
| Thumbnails (`thumbnail_store.cpp`, session, window) | pending requests, two LRUs, rows | request, fetch, store, drop | lines between the processes, the index | refused requests, a lost backend | no placeholder for ever, no request that is waited for in vain | ThumbService |
| Index manager and janitor (`index_manager.cpp`, `index_janitor.cpp`) | a directory and a record per root | resolve, updateLastScan, sweep | two threads, the file system | sweep and resolve side by side, kills | a young index is never swept | IndexStore |
| Telemetry (`benchmark.cpp`) | flags, samples, sampler thread | start, add, sample, abort, finalize | worker and engine | a recorder begun twice, ends on every path | a record is of its run, its verdict stands | Telemetry |
| Benchmark journal and session (`benchmark_journal.cpp`, `benchmark_session.cpp`, ...) | append-only lines, a lock, a summary | append, close, replay, recover | console runner | torn tails, sessions one after another | what is replayed is what happened | BenchmarkJournal |
| Benchmark mining (`benchmark_data_*.cpp`) | none | ingest, group, aggregate, compare | reads journals | missing identities and durations | every run accounted for; a candidate has numbers | BenchmarkMining |
| Sampling planners, image decoding, fingerprints, GPU, command line, logging, system information | widgets, arguments, arithmetic | - | - | codecs, rounding, presentation | - | [not modelled](#not-modelled) |

The places in this code that are hard to test are listed as `hazards` in `PROJECT.json`, each at its
line and with the properties aimed at it.

## The models

### WalkerQueue

`queue`, `shutdown` and the `cancel` flag that `push` reads. One action per operation that changes
state; a mutex makes each of them one step. Both waits of the class are bounded (100 ms in `push`,
the caller's timeout in `waitForData`) and try again, so a missed notification costs time and nothing
else: waiting is simply the action not being enabled. It serves as the abstract specification that
ScanWalk is shown to implement.

### ScanWalk

One walk: the walker thread in `Scanner::scan_stream` (`wpc`), the consumer loop of
`MediaSearchEngine::scan` (`cpc`), the queue between them (`INSTANCE WalkerQueue`), and the stop and
pause flags another thread sets. Files are 1..NFiles in enumeration order.

| Action | Code |
|---|---|
| Enumerate, StopEnumerating, EnumError | the loop of `scan_stream` (scanner 128-152), the iterator's error codes |
| OfferAccepted, OfferRefused, Flushed | `flushBatch` and `onFile` (scanner 84-127, engine 1242-1263) |
| WalkerThrows, WalkerDone, WalkerCloses | end of the walker's thread (engine 1266-1267, two separate steps) |
| PollStop, Take, TakeNothing, ProcessFile, StopTest, DoneTest | one turn of the consumer loop, split wherever another thread may step in between (engine 1274-1287) |
| Leave, Close, Join, Forget | after the loop: abort flag, queue shutdown, join, deletion detection (engine 1292-1339) |
| RequestStop, TogglePause | `ScanWorker::cancel`, `pause`, `resume` |

### ScanIndex

The index of one folder over several scans. `db` is what is durable, `view` what the scan's
connection reads; they differ only inside the scan's transaction (`tx`), which `checkpoint()` commits
piecemeal and a killed process never commits. An index is `[rows, pairs, baseline, dirty, frontier]`:

* `rows`: absent, skeleton (admitted, fingerprint 0), indexed with the fingerprint of a version, failed;
* `pairs`: a stored match with the versions it was found for, because the whole set is replaced at
  every save and a pair is kept or dropped together with its verdict;
* `baseline` (meta key `match_baseline`), `dirty` (`scan_dirty`), `frontier` (`analyze_frontier`).

| Actions | Code |
|---|---|
| StartScan, OpenFails, QuickLoad | worker 81-199, `cleanupMissingOnDisk`, BEGIN (engine 469) |
| SkipFile, AdmitFile, WalkEnds | `processOne` with the batch or range it fills (engine 1150-1209, 1285-1286) |
| SettleImage, HarvestVideo, DrainImages, DrainVideos, Drained | `processImageBatch`, `processVideoRange`, the drain after the loop (engine 943-1149, 1304-1326) |
| FinishWalk, DbFails | deletion detection, final commit, where a Sequential pass starts; the rollback on a failed statement (engine 1327-1415) |
| EmitMatch, EndSlice, MarkSlice, EndSlices, EndPass | the final pass: `included`, windows, `onSlice`, `stopCheck` (pipeline 195-208, 420-598, engine 1416-1484) |
| ClearFrontier, StampBaseline | engine 1490-1509 |
| FinalPersist, Report, Invalidate, SettledExit | worker 276-451; SettledExit is the destructor that clears the marker |
| Throw, Unwind, HandlerInvalidates, HandlerSaves | an exception leaving the engine: unwinding runs SettledExit before the handler (worker 452-505) |
| RequestStop, Kill, Edit, Delete, Return | the environment |

The two modules split the scan between them: ScanWalk has the threads and no contents, ScanIndex has
the contents and takes the walk as a sequence of files. ScanWalk justifies that: files arrive in order,
none is skipped (InOrder), and a walk that is called complete has seen all of them (CompleteMeansAll)
except in the cases its violation run and the limits below name.

### BackendSupervisor

The GUI's `BackendSupervisor` (`gui/backend_supervisor.cpp`) over one life of the GUI. Its slots all run on the
GUI's event loop, so each is one step; what races is the backend process, three timers and the user. The
variables are the members of the class (`proc_`'s state is `process`, `now - spawnMs_` and `now - lastHealthMs_`
are `sinceSpawn` and `sinceEvent`); `doomed`, `told` and `spawns` are history or environment.

| Action | Code |
|---|---|
| EnsureRunning, StartScan, RestartForConfigChange, Shutdown | the slots the window calls (64-136, 176-196, 763-771) |
| Spawn (of several actions) | `spawn()` with the synchronous failure of `start()`, which runs `onProcessError` inside it (316-365) |
| Exit | `onFinished`, `enterUnexpectedExit`, `scheduleRestart` (717-787) |
| Ready, ScanOver, Event, Malformed | `handleLine`, `dispatchEvent`, `handleMalformed` (465-692) |
| RestartTimeout, EscalationOver, EscalationTimeout, HealthTick | the slots of the three timers (789-870) |
| Tick | time passes |

Time is counted in periods of the health timer (1 s). A timer counts down to 0 and may fire then or later, since the
event loop may be busy; two timers that are due fire in either order. The process is the environment: it may exit, be
silent, or write at any time. `terminate()` alone makes it do nothing (it posts a close message to a console
programme); `kill()` makes its exit certain, unless MayHang lets it fail. The third member of the escalation,
`killExhausted`, is what the code keeps for that case.

`MCBackendSupervisor` gives the waits before a restart, `MCWindow` runs it.

### BackendSession

The backend process: `BackendServer` (`src/backend_main.cpp`), which reads commands, and `BackendSession`, which carries
them out. Handlers run one after another on the event loop, in the order of its queue (`inbox`); the reader thread posts
each line of standard input (`pipe`) there, and the worker, a load's thread and an adoption's thread post their signals.
A handler that waits for a thread (`teardownWorker`, `stopLoad`) blocks the loop: its action is enabled when that thread is over.
Scans and loads share one numbering, which the code does not have: it is how the properties can tell whose answer is whose. Load and
Re-verify run alike and are one kind of job.

| Action | Code |
|---|---|
| ReadLine | `BackendServer::readLoop` (backend_main 130-143) |
| FindMatch, WorkerReports, WorkerFinishes, WorkerStops, WorkerFails | what `ScanWorker::run` emits and in which order (worker 239-248, 376-505) |
| LoadAnswers, LoadEnds | `runLoadIndex`, `runReverifyIndex`, and the end of their thread (session 553-651) |
| ApplyEnds | `runApplyTestResult` (session 815-859) |
| HandleStartScan, HandleLoad, HandleApply | `startScan`, `loadIndex` and `reverifyIndex`, `applyTestResult`, with the waiting they begin with |
| HandlePause, HandleResume, HandleCancel | direct writes of the worker's flags; a pause also drains what the worker has found |
| HandleMatches, HandleResults, HandleFinished, HandleCancelled, HandleFailed | `onMatchesArrived`, `onResults`, `onFinished` (a stopped scan's and a complete one's, which in Test Mode compares the two indexes), `onFailed`, each with its drain |
| HandleLoadAnswer | a load's `results` or `failed`, passed on by backend_main 518-575 |
| HandleLoadOver, HandleDelete, HandleApplyOver | the slots of `QThread::finished`, with the deletion of whatever thread `loadThread_` then points to |
| Exit (of several actions) | the process ends |

### ScanControl

The window and the supervisor in front of that process. They share a thread and exchange lines with the backend through
`pipe` and `out`. An event says what happened, not to which job; the window goes by its own flags. The life cycle of
the process is BackendSupervisor's subject; here it is reduced to what the conversation depends on: a process exits, or is told to
terminate and goes on for a while, and comes back.

| Action | Code (`gui/mainwindow.cpp` unless named) |
|---|---|
| StartScan, LoadIndex, Reload | `startScan`, `beginScan` (1741-1837); `loadIndex`, `reverifyIndex` (2653-2735); the single-shot timers of `scanFinished` and `scanFailed` |
| TogglePauseScan, CancelScan, AnswerTestDiff | 1838-1868, the box of `onTestModeDiff` (2774-2781) |
| Dispatch with OnMatches, OnResults, OnFinished, OnFailed, OnTestDiff | `dispatchEvent` of the supervisor and the slot it ends in |
| NoticeExit, WatchdogLoss | `enterUnexpectedExit`, `terminateAndRespawn` (backend_supervisor 740-757, 813-825) with `scanFailed` |
| Return | READY of a new backend: `onBackendConnection` (5504-5535) and the resumption of a lost scan |
| Die | the environment |

`overlapped` is a history variable: it becomes true when a scan is asked for while the window waits for a load, when a load is asked for while the
thread of the one before has not been seen to end, or when either is asked for beside an adoption. The window allows that (see
[limits](#limits-of-the-models)); properties that do not survive it are stated for behaviours without it.

What a behaviour of ScanIndex is about is its `setting`, chosen in the first state: the files of the folder, the modes and scopes its scans may have, how often the
disk changes, and which mishaps may happen (`may`: stops, failing saves or statements, exceptions, early failures, kills, files that come back). The
properties name the settings they hold in (`Abrupt`, `Faulty`, `WholeFolder`, `Without`), so that one module, one run and one theorem speak of all of them.
`MCScanIndex` gives TLC what versions look like (`Diverging`) and the settings (`ThreeSettings`, `Restarts`, `Stops`).

### AnalyzePass

One run of `ScanPipeline::analyze`. What the indexes find for two files and what the verification says of them is data, chosen
once (`data`): the index of the videos holds the anchors of their frames too, also in a full pass, so it brings together videos that are far apart by their
full fingerprints. `near` are the pairs of videos that match at once, `gated` those that wait for the temporal comparison and match if they are in `good`; a pair in neither is dropped
(`Said`, `Given`). Groups of equal hashes are single files.

| Action | Code (pipeline) |
|---|---|
| OpenWindow, Claim, Judge, Abandon | `consumeImageParallel`: the window of a slice, the workers' shared counter, a group's candidates, LocalCancel (420-487) |
| EmitNext, CloseWindow | the merge in the order of the groups, match by match, then `onSlice` and the stop (488-506) |
| OpenVideoWindow, CloseVideoWindow, Incomplete | the windows of the videos and where the pass stops (560-580) |
| Seed, Process, FinishPass | what the crop indexes alone find (580-591), `process` (343-391), `consumeWindowed`'s and the targeted pass's end (392-408, 530-598) |
| FlushNext | `flushVideo`, pair by pair: called by `process` when enough video pairs wait (`flushing`), and at the end of a window of videos, in full passes as in targeted ones, and of the pass (244-342) |
| RequestStop, Cancel, SeeStop | the stop asked for by the engine's `stopCheck`, seen at any poll |

### CandidateIndex

`CandidateIndex` as operators over one variable, its entries. `Query` and `Emitted` say which entries the code looks at, slice by
slice and range by range; they are measured by `Within`, which compares all. AddHash and Clear fill it as `indexFile` does.

### VideoCache

The two caches of `VideoFingerprintEngine`, with several threads inside `build()` and `buildFull()` and files that are rewritten
meanwhile. A version stands for size, time and quick hash; an entry is filed under the size and time read at the beginning and
the hash read at the end, as in the code.

| Action | Code (`src/video_fingerprint.cpp`) |
|---|---|
| Begin, LookupMemory, LoadRow, KeepRow | `build`, `memoryLookup`, `loadPersistent` (137-209, 400-424, 738-750) |
| Decode, DecodeFails | the decode and what `buildFull` adds (569-665) |
| StoreMemory, SaveRow, SaveFails | `memoryStore` with its trim, `savePersistent` (210-237, 614-625, 751-771) |
| EditVideo | another program |

### VideoSweep

One call of `VideoDecoder::framesAt` and what `build()` does before and after it: the targets are the union of two plans, each takes
the first frame at or after it, and the samples are dealt back by position.

| Action | Code (`src/video_decoder.cpp` unless named) |
|---|---|
| Frame, UntimedFrame, LoseFrame | the receive loop (264-313) |
| EndOfFile, ReadError, DrainRefused, Drained | the end of the stream and the drain (318-346) |
| DownloadFails, Reopen, ReopenFails, EmitFails | a hardware frame that does not come down, `reopenSoftware` (80-85, 239-253, 303-308; `video_fingerprint.cpp` 537-548) |
| Stop, StopSeen, Complete, Check | stops, the completeness test with its slack (347-373), `framesAt96Plus32` (415-437) and the split of the samples (`video_fingerprint.cpp` 549-567) |

### VerifyCache

`verifyBuffersFor` by several threads: the list of nodes and the map from a key to a node are the cache; Stat, Hit or Miss,
DecodeImage and Store are the steps between which the lock is free, Evict is part of Store. Rewrite is another program.

### StallWatchdog

`StallWatchdog` and the consumer that asks it. It has no thread, so what matters is who asks when: Poll in the consumer's loop, RangeItem between
two looks at a range's futures, AnalyzePoll before a pair, and nobody during an image batch (BatchItem). Time is counted in thresholds.
Judge is `check()`, TakeUp begins a unit with `beginUnit`.

### Scheduler

Decide and Reevaluate are `CpuGpuScheduler::decide` and `maybeReevaluate` at the start of a scan and before each batch; Throttled is
`effectivePair`'s verdict with its two edges and the band between them; SchedulerTick and LoadChanges are the clock and the sampler. The GPU's
availability is a level; that a share or a thread count moved, which publishes a decision as well, is a choice of the step.

### Profile

The profile file and the engines that use it. `reuse` tells whether an engine runs one scan, as in the program, or many, which the
class allows: the deviation tracker has work to do only then.

| Action | Code |
|---|---|
| BeginProfiledScan, Calibrate | engine 509-583, `ProfileStore::load`, `classify`, `initialEstimate`, `Calibrator::run`, `save` |
| EndUnfed, EndFed, Recalibrate | the end of a scan: `finishScan` 651-702, `DeviationTracker::feed` |
| KillScan, DayPasses, ChangeGpu | the environment |

### Monitor

MediaMonitor on Windows: `notices` is the kernel's buffer, `watcher` the thread that reads it, `requests` how many earlier reads are still out, `pending` the delay queue
with one entry per path, `hand` what the loop thread is working on, with what it has read of the file. `missed` is a history variable: the files of which a change was never queued.

| Action | Code (`src/monitor.cpp`) |
|---|---|
| Change, LoseNotices | a file is written or deleted; the buffer overflows (210-219) |
| WatcherStarts, WatcherEnds | the thread opens the directory, without which nothing is noticed; it returns when that, the event or a read fails, and nobody hears of it (190-236) |
| ReissueRead | after 250 ms without a notice the loop reads again, with the buffer, event and OVERLAPPED of the read that is out (203-209) |
| ReadNotice | a notice is queued by `enqueuePath` or `enqueueRemoval`; an overflow lists the directory as far as the first error (116-155, 196-233) |
| LoseRead, TearRead | a read that is out is answered where nobody waits for it, or overwrites the buffer while it is parsed (203-236) |
| TakeItem, PutBack, RemovePath, Defer, Decode, DecodeFails, UpsertOrCompare, LeaveItem | `loop` (245-338): take a due item, put it back while paused, remove, wait for a stable file or give up, examine, store |
| SetPaused, StopMonitor, StartMonitor | 109-114, 157-189 |

### ThumbService

Art is the version of the file it was made from. The window's side: RequestThumb (`fileThumb`), ThumbReady (`onThumbReady` with the eviction),
RefillRows, ConnectionLost and ConnectionBack (`onBackendConnection`). The backend's: LoadRoot (a load tells it the folder, `rooted`), TakeRequest (`requestThumb` and `ensureOpen`: a miss at once without a folder;
else the database is opened again, which empties the memory, session 419-462), ServeMemory, DrawArt, DrawFails and StoreArt (`ThumbnailStore::fetch`, 141-233). The table of kept thumbnails is never read
or written, since nothing sets `dbOpen_`; what is in memory is found only if the database could not be opened again. Around them: EditFile, a scan that analyses files and keeps their art
(StartThumbScan, AnalyseFile, FinishThumbScan), and ThumbBackendDies.

### ResultsView

`parent` is the union-find, `best` and `kindOf` what is known of a file's percentage and kind, `groups` and `noneOrder` what `rebuildGroups` makes of them, `listRows` the rows of each tab and `job` a fill that goes on in
later turns of the event loop.

| Action | Code (window) |
|---|---|
| OnMatchesBatch, RefreshStreaming, OnResults | 2825-2946, 2352-2474, with `rebuildGroups` (3082-3188) |
| Chain, Members, Ordered, GroupRoots, ListOrder (of RebuildAndFill) | `findRoot` (2818-2824), the buckets of `rebuildGroups`, the sort inside a group, the groups of two or more, the order of the list |
| FillPair (of several actions), ContinueFill | 3463-3586, 3655-3689: a list that only grew is extended, any other is filled anew, large ones in chunks |
| ActivateTab, MarkGroup, CheckRow | 3690-3739, 3381-3411, 3241-3298 |
| DeleteSelected, DeleteDone | 4795-4835, 4918-4944 |
| BeginScan | 1753-1800: percentages and kinds are forgotten, classes and groups stay |
| TabOf (of RebuildAndFill) | a file without a kind counts as an image (3106) |

### TestAdoption

What a test scan, the question and an adoption do to the indexes; BackendSession has who may run beside whom. `testSession` is the session's
memory (folder, scratch directory, scope, pending), which ApplyRuns reads when its thread runs (session 815-860) and Adopted carries out
(`adoptIndexDatabase`, 119-268). StartIndexScan, IndexScanEnds, IndexScanStops, StartLoad, LoadRuns and AnswerBox are the handlers.

### IndexStore

`IndexManager::resolve` by two threads, which nothing serialises, split at its file-system calls: Look, Choose, WriteRecord, RenameRecord
(`src/index_manager.cpp` 111-191), then OpenIndex, EndScan (`updateLastScan`) or ThumbServed. StartScan carries the janitor's sweep
(`src/index_janitor.cpp` 54-139). A directory's age goes by what is created, renamed or deleted in it: SQLite makes its write-ahead files with the first connection to a database and deletes them
with the last (`wal`, WithOpen, CloseSide with WithClosed); those a killed process leaves are used again, and opening over them touches nothing. Kill, NextDay and RootMoves are the environment.

### Telemetry

`TelemetryRecorder` along the paths of a scan worker: BeginRevalidation, RevalidationCancelled, RevalidationDone, BeginScan, Add, FinishScan,
ApplyDisplayed, Throw, and SampleOnce of the sampler's thread. Counters are reduced to the families of metrics the record calls measured; `Unreset` are those that `start()` leaves, the counters of the sampling plans among them.

### BenchmarkJournal

A record is a line, inserted as text (InsertText) and newline (InsertNewline) with a flush after each; Crash cuts anywhere. OpenSession,
RunCase, AskCancel, Finish and Close are the phases of `BenchmarkRunner` and `BenchmarkSession`, Abandon is the destructor of a session that is still open, which records its run as cancelled (`src/benchmark_session.cpp` 10-19); `ReplayOf`, `Committed` and `Terminal` are
`replayJournal`; RecoveryReads and RecoveryWrites rebuild the summary beside a session that goes on.

### BenchmarkMining

A pure computation over an archive of journals: Exclusions and Analysable are the ingestion, ScopeKey, BuildKey and ModeKey the hierarchy, RunCell and its
siblings the populations, Opportunities and EvaluateComparison the search for comparable pairs, ResolveSide and CompareStatistic the numbers.
`Nth` is the sorted vector of `SampleAccumulator`, read at one place: the k-th number is the one with fewer than k below it. LeaveJournal adds a run to the archive, Mine makes the report.

### The composing modules

Parts that share variables are composed in full: ScanWalk instantiates WalkerQueue, ScanControl extends BackendSession. Parts that run on
the same machine without a common variable are run together, in a module that takes one of them at a time (`part`), since their steps commute:
`MCScanThreads` (ScanWalk, StallWatchdog, Scheduler, Monitor), `MCWindow` (BackendSupervisor, ThumbService, ResultsView), `MCRecords`
(BenchmarkJournal, BenchmarkMining, IndexStore, TestAdoption, Telemetry, Profile), and `MCAnalysis` (CandidateIndex, AnalyzePass, VideoCache, VideoSweep,
VerifyCache). A property of one part holds in the first state of the others; a liveness property asks for its part.

## The runs

| Run | Instance | Shows |
|---|---|---|
| scan_threads | walk: 4 files, queue of 2, batches of 2, stop, pause, exceptions, failures, iterator errors; watchdog: 3 units of 2 files; scheduler: 2 modes, levels 0-3 and unknown, windows of 2; monitor: 2 files, 2 changes, 1 retry, and once each an overflow, a wait that times out and reads again, a pause and a stop; about 306 000 states | ThreadsTypeOK, NoFileLost, IndexFollowsDisk; QueueSpec (refinement); SwitchesHoldStill; ScanWalkEnds, WatchdogTrue, FollowsLoad, EveryItemSettles (liveness) |
| window | supervisor: 3 restarts with waits of 1, 2 and 4 periods, grace, wait after kill(), READY and health timeouts of 2, starts that fail, processes that survive kill(), garbled lines; thumbnails: 2 files, room for 1 everywhere, one edit, scan, death and failure; lists: 5 files, 3 of them images, chunks of 1, 3 streamed matches, 2 scans, 1 delete; about 207 000 states | WindowTypeOK, Custody, NeverAlone, RequestsTracked, ListsTrue; BackendReturns, ThumbsHeal, FillEnds (liveness) |
| scan_faults | 4 files, two of them videos, image batches and video ranges of 2, slices of 1, 3 scans, 2 changes of the disk, in three settings. Changes: 2 images, Sequential and Hybrid, ignored paths and scans of one kind, stops, failing statements, early failures, files that return. Deaths: all files and modes, 1 kill, exceptions that leave the transaction open. Faults: all files, Live and Hybrid, stops, failing saves and statements, exceptions, files that return. About 7 930 000 states | TypeOK, BaselineHolds, FrontierHolds, Durability, VerdictsHold; PairsKept |
| scan_control | 2 jobs that find 1 match each, 1 pause or stop on its way at a time, 1 loss; about 1 360 000 states | TypeOK, NothingLost, Agreed, IndexHeld, PauseReaches |
| scan_control_live | the same without matches; about 305 000 states | ScanReturns (liveness) |
| records | journal: 2 runs of 2 files in 2 modes, 1 crash, 1 recovery, sessions that are abandoned; mining: archives of 2 runs; index store: 2 roots, 2 names each, 2 directories at one time, 1 day, 1 kill, 1 unplugged root; adoption: 2 folders with 3 files and 1, 2 scans, 1 load, 2 versions; telemetry: 2 scans; profile: 2 engines, 1 GPU, 2 levels, 1 day, 2 swaps; about 2 280 000 states | RecordsTypeOK, JournalTrue, YoungIndexKept, ReportSound, ProfileTrue; AdoptionTrue, RecordTrue |
| analysis | candidates: hashes of 2 slices of 2 bits, radius 1, limit 3, 3 entries of 2 files; pass: 3 files, of which none, two or all are videos, 2 workers, windows of 2, flushes of 2, any pairs that match at once, wait or are dropped; prints: 2 videos, 2 threads, 2 versions, room for 1, 2 policies; sweep: 5 frames, 2 held back, slack 1; buffers: 2 images, 2 threads, room for 2, 2 editions; about 2 500 000 states | AnalysisTypeOK, PairsExact, CachesTrue, SweepTrue |
| scan_walk_unreachable | 3 files, only an iterator error | KeepsExisting is violated |
| scan_index_marker | 2 images, Live, stops, 1 kill | BaselineSound is violated |
| scan_index_frontier | 2 images, Sequential, stops | FrontierSound is violated |
| supervisor_startup | the supervisor without any of the three failures | EscalationEnds is violated |
| scan_control_load | as scan_control_live | LoadAnswered is violated |

What the properties say. A name in bold is what a run checks; where it is a conjunction of named parts, they follow it.

The walk and the index:

* **NoFileLost** - InOrder: what lies between the threads is exactly the next run of files after the last one popped;
  DropsOnlyWhenStopped: a file offered and not accepted means a stop or a shutdown; CompleteMeansAll: the test of `walkDone` and the empty
  queue misses nothing, unless a stop, an iterator error or an exception came first.
* **QueueSpec** - the walk uses what is between its threads as a WalkerQueue.
* **ScanWalkEnds** - StopEnds, WalkEnds: a stop ends the scan, paused or not, queue full or not; without one, and
  unless paused for ever, the scan ends by itself.
* **BaselineHolds** (BaselineSound, in Abrupt and Faulty settings with whole-folder scans) - between scans, a baseline with no marker beside it is the truth: every similar pair
  of indexed files is stored. Live and Hybrid scans never look at the other pairs again.
* **FrontierHolds** (FrontierSound, in Abrupt settings with whole-folder scans) - the groups below the frontier need no second visit.
* **Durability** - MarkerHeld: from its setting to SettledExit the marker is durable at every step; CrashFrontier: the files under analysis
  have durable skeletons; TxDiscipline: outside the transaction the connection sees what is durable.
* **VerdictsHold** (NoStaleVerdict, without kills, failing saves and exceptions) - a trusted index holds no verdict on a fingerprint that is no longer there.
* **PairsKept** (KeepsPairs, without early failures and returning files) - no step, in whatever exit, drops the durable pair of two unchanged files.

Beside the scan:

* **WatchdogTrue** - LongWorkKept: no verdict of the detector ever cancels a scan; HungRangeSeen: a video that hangs is reported.
* **SwitchesHoldStill** - within a scan the GPU is given up and taken back at the mode's edges only, and two switches are a hold apart.
* **FollowsLoad** - a scan that goes on follows a load that stays, however the shares move meanwhile.
* **IndexFollowsDisk** - once the monitor has nothing left to do for a file, the index holds what is on the disk, whatever order changes, retries and
  a long examination came in; files reported as given up are excepted, and files of which a change was never queued: by an overflow whose listing did not name them, by a read that was lost or torn,
  by a watcher that had not begun or had ended, or by a stop (`missed`).
* **EveryItemSettles** - no path stays in the delay queue for ever.

What the analysis computes:

* **PairsExact** - EnumerationSound, QueryExact: the candidates are exactly what is within the distance, and no pair of files is visited twice
  by whatever ranges (for a file with several hashes, no more is claimed); PassExact: a pass reports no pair twice and none that is not due, and all of them
  unless it is stopped; OrderKept: in the order of one thread.
* **CachesTrue** - PrintTrue: a call gets the fingerprint of a version its file had during the call, sampled under the policy in force;
  MapLeadsToNodes, BuffersTrue: the cache of images never leads to an evicted node or another image's, and a pair is scored on editions its images had meanwhile.
* **SweepTrue** - SamplesExact: the anchors' targets, lost frames, the drain and the fallback to software leave each sample of the plan its own frame;
  CleanServed: a sound stream is not refused.

The supervisor, the session and the window:

* **Custody** - ReadyIsProven: a backend counts as ready only if the process that runs now has answered HELLO; ScanHasBackend: a scan the GUI waits for is in
  the hands of a ready backend, and each way to lose the backend ends it.
* **NeverAlone** - NeverStranded: without a process, a restart is on its way or the state is FAILED; EscalationOwned: an armed escalation is meant for the
  running process, never for its predecessor; FailedIsEscalated: in FAILED, a live process is being escalated, or `kill()` was in vain.
* **BackendReturns** - HungReplaced: a backend that hung after READY is gone in the end, or the state changes; Recovers: a backend that is gone is replaced, or FAILED is reported.
* **NothingLost** - a match that the scan at hand has found waits in the worker, is on its way or is shown, and no end of the
  scan overtakes it.
* **Agreed** - AnswersMatch: what the window will take for the end of its scan, or for the answer of its load, is that scan's or that
  load's, with losses, resumptions and silent reloads in between; ScanAgreed: the window has a scan exactly if the supervisor owes it an end.
* **IndexHeld** - OneWriter: a scan, a load (which drops the rows of missing files) and an adoption never write the index together;
  ScanHoldsIndex: unless jobs overlap, the session knows of each scan that runs, and no late signal of the scan before it clears its flag.
* **PauseReaches** - once the commands on their way have been handled, the worker of the window's scan is paused exactly if the window says so,
  unless the scan has been or is about to be stopped; also for a scan whose START_SCAN has not been read yet.
* **ScanReturns** - ScanEnds, StopWorks: a scan ends for the window, by itself unless it is left paused, and after a stop in any case.
* **ListsTrue** - GroupsAreClasses: while no file was taken out, the groups are the classes the matches make; PaneComplete: when no fill is under way
  the open tab has a row for every group of its kind, once, in order, whatever fills, chunks, tabs and rebuilds superseded each other, also when a scan forgets kinds and percentages and ends early. The tab of a group is the one `rebuildGroups` gives it. A class is more than files that
  each have a match: `Linked` says that no group falls into two parts which no match joins.
* **FillEnds** - the rows catch up with what was streamed, unless the user keeps changing the tab.
* **RequestsTracked** - each thumbnail request the window waits for is on its way, worked on or answered, exactly once, while the backend lives.
* **ThumbsHeal** (PlaceholdersHeal) - no placeholder stays for ever, once the backend knows a folder for good: one that was started anew answers misses until the next scan or load.

What is kept:

* **JournalTrue** - ReplayExact: as long as nothing was appended to a cut line, exactly the cases whose commit was written are committed, each with all
  modes of its own run; TerminalTrue: a run recorded as finished has finished, one recorded as cancelled was asked to stop or was abandoned, and no summary claims more than the journal holds.
* **ReportSound** - EveryRunAccounted: every run found is accepted or excluded for a named reason; CandidatesHaveNumbers: both sides of a
  candidate lead back to the population it was judged on, and every statistic can be compared.
* **YoungIndexKept** - what a scan has stored is not swept before its time, whatever resolves, kills and sweeps met: for a scan that renewed the record, and for any other that found no write-ahead files of a
  killed one in the directory (see [disagreements](#where-code-and-documentation-disagree) for the rest).
* **AdoptionTrue** - MainBaselineTrue: the main index's baseline tells the truth through scopes, cancels and adoptions; AdoptInScope: an adoption
  changes nothing outside its scope.
* **RecordTrue** - RecordIsOfItsRun: a finished record has no sample and no measured family of an earlier run, and no thread that could still change it;
  VerdictStands: its verdict is one and stays.
* **ProfileTrue** - EstimateSound: the rate a scan starts from was measured on the GPU the machine has, no longer ago than a profile is trusted, whatever the
  other process wrote; TrackerFires: an engine that runs many scans answers a run of deviating ones.

**Bounds.** Three scans are what the interesting stories need: one to fill the index, one that is
interrupted, one that trusts what the first two left; after a third scan the state is again one an earlier
scan could have left. Four files give two pairs' worth of images and videos, a batch of two that fills or is drained
and ranges of one and two. Two images suffice where one pair with two verdicts is the story. Two versions of a
file are before and after. Slices of one file (1000 in the code) and a queue of two (4096) make the limits
happen. The supervisor's times keep the order that matters: the grace before `kill()` is longer than a health period (3 s
against 1 s), and the waits before a restart are shorter than, equal to and longer than the wait after `kill()`
(2, 5 and 10 s against 5 s), so that every order of the timers happens. The elapsed times stop counting past their timeout, where they make no
further difference. One kill and two changes of the disk can hit any step. Two jobs are a scan and the scan or load after it, two loads, or a scan and its
resumption: each kind of late signal can meet the next job. One pause, resume or stop on its way at a time leaves every order of
flags, scans and ends; one loss can hit any step, and losses beyond one only bring back the initial state with fewer jobs left. In
scan_control_live matches are left out, which no step towards an end depends on. Counts and clocks that only pace commits and
saves are left to chance: such a step may happen. Each cfg or setting keeps out the faults that break a property
for a reason named under [limits](#limits-of-the-models), so that the others are really checked.

In the other parts a limit of the code (2000 pending requests, 3000 and 64 cached pictures, lists filled in chunks, 10 minutes, a window of samples) becomes the smallest number
at which it is met and exceeded: caches hold one or two entries and are asked for two files by two threads, so that every eviction meets every other thread's step; lists of
five files are filled one row at a time, so that each chunk meets each other event. Two changes of a file in the monitor are a removal and a
re-creation, or a change during an examination and one after it. Two sessions on one journal are a session and the one that appends after its crash. Two names
of one root are what a collision needs, and two directories at one time an index to be swept beside one in use, or both directories of a root whose record was lost when another root is scanned. Hashes of two slices of two bits with radius 1 and limit 3 keep what the code relies on (4 slices of 16 bits, radius 2,
limit 8: a pair within the limit is within the radius on one slice), at its very edge, and three entries of two files give a file two hashes. Three files make pairs that overlap, two
workers and windows of two make a group that outlives its window's first worker. Two levels of throughput are within and beyond the tolerance.

**Fairness.** Of the walk, `FairSpec`'s part assumes weak fairness of `WalkerRuns` and of `Consumer`, two operating-system
threads whose waits are all bounded (100 ms, 50 ms and 80 ms polls): a thread that can take a step for ever
takes it. Nothing is assumed of stop, pause or resume (WalkEnds asks that a pause ends), nor of the
exception and the iterator error of the walker, which would otherwise free a walker that waits for room
for ever. Taking a thread's steps together under one condition is enough, because they exclude each other,
except where a failure of the consumer is possible, which only brings the end nearer. The supervisor's `FairSpec` says that time passes (Tick), that the event loop gets to each timer slot
that is due, and that a process which `kill()` has hit exits. Nothing is assumed of the user, of the
backend's lines, or of an exit for any other reason; Recovers asks in addition that the user stops changing the
decoding setting, since each change renews the wait. `ScanControl` assumes weak fairness of the threads and event loops of both processes:
the reader, the handlers, the threads of loads and adoptions, the supervisor's reading and its notice of an exit, and a worker that is
not paused (a stopped one also wakes from a pause). Nothing is assumed of the user, of matches, of failures, of the death of a process or of
a new one; ScanEnds and StopWorks hold when a lost backend never comes back. LoadAnswered, which is violated, even asks that the backend is
available again and again. `ScanIndex` has no liveness property: its steps are those of one thread.

The watchdog: the consumer polls and time passes; a video may hang for ever. The scheduler: time passes and a scan that goes on comes to its next batch. The monitor: the
watcher reads while it is reading (nothing is assumed of its start, and it may end), the loop finishes with its item, and each queued path is taken again and again (the queue is ordered by due time, and a path that
is put back is due later than those that wait): strong fairness of TakeItem, because a pause disables it. Thumbnails: the store finishes what it has begun, answers and the
loss of the backend are events of the window's loop, a lost backend comes back (what the supervisor's Recovers says, unless it reports FAILED), and the tick of the window visits
each visible row that has no picture (`thumbCatchUpVisible`): strong fairness of RequestThumb, because the limit of pending requests disables it for a while. Nothing is
assumed of scans, edits or failures. The lists: chunk and tick are timers of the event loop.

**Deadlock** is checked in scan_faults and in the runs of ScanWalk, ScanIndex and BackendSupervisor that expect a violation; `Over` and `Done` mark the intended ends. ScanControl
really may stop (an idle user in front of an idle or lost backend), and so may most parts of the composing modules (a benchmark that is over, an index without a scan, an empty
queue, an analysis that has its result): their runs leave the check out. That walker and consumer never wait for each other is then said by ScanWalkEnds.

## The proofs

Eight modules prove, for every value of the constants that satisfies `WalkAssumption`, `IndexAssumption`, `SupervisorAssumption`, `SessionAssumption`, `TelemetryAssumption`,
`SchedulerAssumption`, `ProfileAssumption`, `ThumbAssumption`, `ViewAssumption`, `MiningAssumption`, `StoreAssumption`, `AdoptionAssumption`, `MonitorAssumption`, `CandidateAssumption`, `PassAssumption`, `VideoAssumption`, `VerifyAssumption`, `SweepAssumption`
or `JournalAssumption` (positive capacities and batch sizes, scopes within the files, folders without common files, times that are natural numbers, at least one wait before a restart,
lower edges below upper ones, a longest hold, a policy of two repetitions or more, a limit below the number of slices times one more than the radius (8 < 4 * 3 in the code), at least one worker, a case with at least one mode and none twice, as `parseModeList` of `src/command_line.cpp` ensures, matches between two different files of one kind, journals in which every case and mode has a status and a number, and so on).
`ThreadsProofs` has the walk, the watchdog, the scheduler and the monitor, `WindowProofs` (on top of `BackendSupervisorProofs`) the window, `RecordsProofs` what is kept,
`AnalysisProofs` what the analysis computes, `ScanIndexProofs` and `ScanControlProofs` the module they name, and `RecursionLemmas` the two facts about recursion that the others share:

* **ScanWalk**: `NothingIsLost` (the property NoFileLost), `TypeCorrect`, `FilesInOrder`, `DropsMeanStop`, `CompletionIsSound`, `QueueImplemented`
  (every step of the walk is a step of WalkerQueue or leaves it alone), `QueueBounded`, and
  `NothingForgotten`: without stops and iterator errors no row of an existing file is forgotten.
  None of the invariants is inductive alone. CompleteMeansAll needs that `walkDone` implies that
  the walker has offered everything it enumerated and enumerated everything it can reach, that an offered file
  was pushed unless refused, and InOrder, which turns an empty queue into "all pushed files consumed"; the
  strengthening `IInv` in `ThreadsProofs` says exactly this, location by location.
* **ScanIndex**: every property of its run, for any number of files, versions, scans and kills, any batch, range and slice size, any sameness of versions (`Look`) and any set of settings:
  `TypeCorrect` (TypeOK), `KillLeavesARecord` (Durability, from `MarkerIsHeld`, `WritesAreDurable`, `CrashFrontierDurable`), `VerdictsAreFresh` (VerdictsHold), `NoPairIsLost` (PairsKept),
  `FrontierIsSound` (FrontierHolds) and `BaselineIsSound` (BaselineHolds). The last four each have an invariant of their own, which builds on those before it. All were checked by TLC in the settings of
  scan_faults before they were proved.
  * `IInv`, for types and durability: TypeOK with where the transaction must and may be open (`TxOpen`, `TxScope`: an exception after the walk leaves it open until the handler's connection closes, and
    without them nothing says that a write after the walk is durable at once); that the marker is set in `db` and in `view` (`Marked`: MarkerHeld alone is not kept by a commit, nor by a rollback);
    and that files wait for their analysis only inside the transaction, in one place each, with skeletons in `view` (`UnitInWalk`, `LoadFresh`, `Kinds`, `Skeletons`): so the commit that
    precedes an analysis makes exactly these durable.
  * `Order`: what the walk has found is behind it, a file that waits for its analysis is changed and in no pair emitted so far. A scan analyses no file twice, so no pair it has emitted is outdated by itself.
  * `VerdictInv`: stored pairs may be outdated for changed files only (`PairsFresh`), what the worker holds for none (`StoredFresh`, `EmittedFresh`), and all this of `db` as of `view`, because a rollback may come
    before the save; `SameVerdicts` says that the rollback brings no other fingerprint back, `FailedEmpty` that only a scan that has loaded nothing reaches the handler there.
  * `PairInv`: the worker has every stored pair of unchanged files ready for its next save (`Traced`), a commit loses none (`Carried`), and a walk that counts as complete has seen each file that is still
    there (`SeenBehind`, `WalkedAll`), so deletion detection takes no pair of a present file along.
  * `AbruptInv`: with nothing but deaths, no scan is stopped or incomplete, and an exception keeps the marker in `db`.
  * `FrontierInv`: a frontier whose key matches the rows again was set for these very rows. `Past` says why: a row never returns to an earlier version, since the disk does not. So the groups a frontier
    claims are compared by the frontier's own files (`DoneIn`), whatever became of the index, and the pairs below the slice are stored or about to be (`SliceDone`). That a group's rank is the same in
    the key and in the rows is a fact about cardinalities (`RankIn`, `RankOf`).
  * `BaselineInv`: while a scan builds on the stored pairs, every alike pair of unchanged files is stored and in the worker's hands (`Based`); two changed images were compared when the second was
    analysed (`LiveDone`); hence an unstopped pass ends with all pairs (`Passed`; for Sequential by way of FrontierInv), and the baseline survives each of the steps to idle only with them
    (`Kept`). `Settled` and `FullIs` are what makes the faults harmless: without kills the marker is never found set, so a full pass is one with no baseline to lose.

  Steps enter these proofs by their shape: `Shapes` says that every step starts afresh, loads, admits a file, settles one, saves pairs, forgets files, goes back to what is durable, or leaves rows and pairs alone, and each invariant is then
  shown to be kept by each shape rather than by each of the 32 actions. The step lemmas of `IInv` (StepType, StepTransactions, StepMarked, StepSkeletons) go by action.
* **BackendSupervisor**: `SupervisorCustody` and `SupervisorNeverAlone` (the properties Custody and NeverAlone), `SupervisorTypes` and one theorem for each of the five invariants, all from
  `SupervisorSafe`. Their conjunction `Safety` is inductive together with TypeOK as it stands: every slot that takes a process away,
  or starts one, re-establishes all five. No property speaks of the length of a time, so the proof holds for timers that fire at any moment.
  What `scheduleRestart` and `spawn` do, whoever calls them, are the lemmas ScheduleFacts, SpawnFacts and SpawnSafe.
* **ScanControl**: `ScanIsAgreed`, for every number of jobs, matches and losses. ScanAgreed is not inductive: a FAILED that is taken for a load's
  would leave the window's scan running while the supervisor has forgotten it. That cannot happen without an overlap because `OneJob` holds: the window
  waits for a scan or for a load, not for both, unless jobs were made to overlap. Then each slot that ends the
  supervisor's interest also ends the window's, and `beginScan` starts both. `ControlTypes` (the property TypeOK) needs two more facts to be kept: `NamesJob`, which commands and
  signals name a job that was asked for (a handler of another signal reads none), and `WorkerTypes`, that a worker which has begun or found anything has a job. One lemma per
  thread step, handler, user step and fate; those on Post and Drained say what each of them leaves in the two queues.

  `WindowAgrees`, `IndexIsHeld` and `MatchesArrive` (the properties Agreed, IndexHeld and NothingLost) speak of the contents of the three queues. Next has some forty disjuncts and each of these
  properties sees only a few messages, so that `Shapes` first shows that every step posts, reads or takes one message that matters, writes or hears one line, asks for a job, loses all of it, or thins the
  queues (`Shape`). `ControlInv` is then kept shape by shape:
  * `Exclusive`: without an overlap there is one token of a job in the whole system: it is asked for in the pipe, waits in the inbox, runs, or its end is out. `NotUp` says that a process that has exited holds none.
  * `Named` and `InOrder`: what is under way belongs to the job the window waits for, and nothing of a job is behind its end; so what is read as its end or its answer is that.
  * `Adopt`, `Loads` and `Holds`: no job beside an adoption or behind one, each load that runs is the one the session waits for before it starts the next job, and a scan that runs is known to
    the session with no end of another before it in the inbox.
  * `Numbered`, `Apart` and `EachOnce` (`JobsInv`) hold with overlaps as well: no number is used twice, a job is a scan or a load for good, and its request is in one place. With them
    `Lossless` says of each line that ends the scan that what is told up to it is all it found; DrainTells is the one lemma on Drained it needs.

  `PauseIsTrue` (the property PauseReaches) needs none of the shapes. What a flag of the worker will be is a matter of the last message that touches it, in the pipe, then in the event queue, then of the
  flag itself (`Then`); `HeadTells` and `JoinTells` say what taking and posting a message does to that, so that handling and reading a line change nothing of it, whoever posts in between. A
  START_SCAN on its way clears both flags: a command that finds no worker, or the worker of the scan before, is then of no account. `Served` adds that a scan the window waits for has a backend that
  was not given up, since its loss ends the scan.

* **Telemetry**: `RecordIsTrue` (the property RecordTrue). That a record is of its run is not inductive: `RecordInv` adds that a sampler that runs is this run's, that the worker
  is where the record says it is (in the middle of a scan the record is started), and that a run has no verdict before its end and one after it. Starting, Finalizing and Aborting are the lemmas
  on the three operations every path is made of; the verdict's standing is an action property from the same invariant.
* **Scheduler**: `SwitchesAreHeld` (the property SwitchesHoldStill). `SwitchInv` says that a scan with a GPU uses it exactly when the published decision is not throttled, and that the
  clock of switches is never behind the clock of publications: the code holds publications, and the property is about switches.
* **Profile**: `ProfileIsTrue` (the property ProfileTrue), for any number of engines, GPUs and levels. `ProfileInv` says that the file tells of its rate where and when it was measured, that
  the rates an engine holds fit the machine and the day its scan began, and, of an engine that runs many scans, that the run of deviating scans is no longer than the
  tracker counts. The first two hold of engines that run one scan each: a recalibration after a failed save could write a new GPU's rate under the old identity (`~reuse`).
* **IndexStore**: `YoungIsKept` (the property YoungIndexKept), for any number of roots, directories and resolvers. The sweep knows what the directory says of itself, the property is about what a scan
  has stored. `StoredIsTouched` joins the two: a directory with something young in it that its scan has renewed, or opened without the files of a killed one (`fresh`), is there, holds the root's rows and was touched no earlier
  than they were stored; so the sweep, which takes what has not been touched for `StaleDays`, leaves it. `InUse` adds that the directory a scan is using is there and holds its root's rows, which the renewal of the record needs. Nothing is claimed of the record's
  own date, which a scan that was stopped or killed does not renew.
* **TestAdoption**: `AdoptionIsTrue` (the property AdoptionTrue, an invariant with an action property). `AdoptInv` says that the session knows the scan that runs (`ScanIsSessions`), and that what waits for the
  user's answer, or is being adopted and was not overtaken by a scan, is the complete scratch index of the folder the user was asked about (`PendingIsComplete`, `ApplyIsComplete`). That adoption leaves
  what is outside of the test scan's scope alone is ApplyInScope: its rows are those of the main index by then (`ScratchInScope`).
* **Monitor**: `MonitorFollows` (the property IndexFollowsDisk), for any set of files and order of changes, overflows, pauses and stops. For a file that is there, a notice or an overflow that makes the watcher
  look is on its way (`HasThere`), or the file is queued, in hand with its content of now, or in the index (`ReadyThere`); for one that is gone, word of it is on its way, queued or acted on (`HasGone`,
  `ReadyGone`). `Recovered` is needed in between: notices of one file that say "gone" are followed by one that makes the watcher look, if the file is there again. What a stopped monitor leaves in
  its queue, and what it never hears of, is what the property excepts: each of LoseRead, TearRead, WatcherEnds and a listing cut short adds the files it is about to `missed`, and a torn read may queue anything for them.
* **StallWatchdog**: `LongWorkIsKept` (LongWorkKept, the half of WatchdogTrue that is an invariant), for any size of batches and ranges. `check` answers "cancel" to the second question
  in a silence of a batch of images nothing of which has completed. LongWorkKept is not inductive: nothing in it says why that question is never put. `SpareInv` adds that nobody asks while a batch is worked
  off, and that outside of it a unit of images has something completed.
* **Types of the threads**: `ThreadsAreTyped` (the property ThreadsTypeOK) for walk, scheduler and monitor, from their invariants above; a file of the monitor has no more versions than the disk has had changes
  (`MonitorCounted`), and a window of samples is cut back as it is filled (`SchedulerCounted`).
* **CandidateIndex and AnalyzePass**: `PairsAreExact` (the property PairsExact), for any hashes, files, workers, sizes of windows and flushes, and whatever the pass is given. Of the index: two hashes within the limit
  that differed in more than the radius in every slice would have more than the limit of differing bits, picked apart slice by slice (`SlicesSuffice`); since the index is filled file by file (`ByFile`), the entries
  of a file are a stretch that begins at its group, and no range cuts it, so that a pair is emitted at most at one position (`EnumerationIsSound`). Of the pass: PassExact speaks of what was emitted, so `PassInv`
  adds where everything else is. Each group below the counter is in the hands of one worker, or its matches are in its segment or emitted (`WindowShared`, `NoneMissed`), so when all workers have left
  without a stop the window is complete. What is to come is not yet emitted: images before the window, then videos by rank, then pairs not in `seen`, and the pairs of videos that wait, in a full pass those of the window (`EmittedOnce`). That the crop passes may
  skip an index which has covered as many pairs as there are files to pair is `CropsAre`, by counting the pairs of a set (`PairsCounted`). `AnalysisIsTyped` (the property AnalysisTypeOK) adds that the counter
  passes the end of a window once for each worker that has left (`NextCounted`).
* **VideoCache and VerifyCache**: `CachesAreTrue` (the property CachesTrue), for any set of files and threads and any capacity. Of a fingerprint `VideoInv` says that it is of a version between the two stamps it is
  filed under, in memory, in the rows and in every call that has not returned: a rewrite between the stat and the quick hash makes these differ, and then the entry serves neither version. Of the list of
  buffers `VerifyInv` says that its nodes have distinct addresses and that the map leads to the node with the key asked for: so evicting one node removes no other's key, and
  a buffer shows an edition its image had since the stamp in its key.
* **VideoSweep**: `SweepIsTrue` (the property SweepTrue). While all frames have their times every sample is the first frame received for its target and no frame has reached a target that has no sample yet
  (`OutTrue`); as long as nothing befalls the sweep it has received every frame so far (`CleanSoFar`). A plan's targets are a part of the joint targets, and PlacesOfPart shows that the
  first samples of the joint sweep contain the plan's own, in its order: a fact about places in finite sets of numbers, proved by counting (places in the part and places among the joint targets are in bijection).
* **BenchmarkJournal**: `JournalIsTrue` (the property JournalTrue), for any number of runs, cases and modes, crashes and rebuilt summaries. `JournalInv` says of each line that it was given to one run, stands once and waits
  no more (`LinesGiven`), that what a run still has to write is the rest of a case or one record (`Waiting`), that the records of a case that was run are in the journal or wait (`CasesKept`), that a commit stands behind its
  modes and an end behind everything of its run (`ModesFirst`, `EndsLast`). The reader drops lines whose id came before: ids determine records, so it drops none (AllIsKept). Then bijections count: committed
  cases with the lines that commit them, modes of a case with their lines (CommitsCounted, ModesCounted). A summary stays true to a journal that only grows at its end (ReplayGrows). All this holds as long as nothing was appended to
  a cut line (`glued`), of which nothing is claimed.
* **Types of the records**: `RecordsAreTyped` (the property RecordsTypeOK), from the invariants above and that a record with a sample belongs to a run that was started (`TelemetryTyped`).
* **ThumbService**: `RequestsAreTracked` (the property RequestsTracked), for any number of rows, pending requests and losses. It counts where a request is, and is not kept alone: a new request might take
  an id that an old answer still carries. `ExchangeInv` adds that the window waits for all the store has before it, that a lost backend has nothing before it and a dead one leaves
  no request behind, and that ids differ. `FreshIdIsNew` shows by counting that an id which nobody uses always exists; `CountAppend` and `CountTail` say what joining and leaving a queue does to the count.
  `ThumbsAreTyped` has the types and the limits: the memory list, the pending requests and the window's cache never outgrow theirs, and no picture is of a version its file has not had.
  For these `ThumbInv` adds that every picture, stored, in the hands of the store or on its way, is of a version its file has had (`Dated`, `Stored`, `Addressed`): a list moved, cut or added to keeps that (`MemMovedDated`,
  `MemAddDated`), and the eviction makes room before the next picture is entered (`EvictedIs`).
* **ResultsView**: `ListsAreTrue`, and `WindowListsAreTrue` for the window with all its parts (the property ListsTrue), for any set of files, matches and sizes of chunks. It is about loops, so its lemmas are inductions. A union-find
  is a forest: there are heights that grow from each path to its parent (`Forest`), so the climb of `findRoot` stays where it has arrived (`RootKeeps`), ends at a root within as many steps as there are paths
  (`RootIs`), and joining two roots or shortening a chain changes the roots only as it should (`ShortCut`, `JoinedIs`, `CompressedIs`). `Grown` then says of the tree what GroupsAreClasses says of the groups: matched
  files have one root, and a set of files which no match leaves is a union of trees. That is the converse, no two files in a tree without a chain of matches between them, in a form that needs no chains.
  Of `rebuildGroups`, `OrderedIs`, `PickedIs` and `ListOrderIs` say that the sorting, the selection and the order of the list neither lose nor double anything.
  Of the rows, `PaneAt` says that the open tab shows the list with its signatures or a fill is under way, and then the rows are the first groups of the list and the fill holds exactly the rest of it (`FillHolds`): each change of the
  list comes with a new fill, and one that extends the rows finds them to be the beginning of the new list (`FillPairIs`, `ContinueIs`). Marks change the check boxes and no root (`MarkIs`).
* **Types of the window**: `WindowIsTyped` (the property WindowTypeOK), from the invariants of supervisor, thumbnails and lists.
* **BenchmarkMining**: `ReportIsSound` (the property ReportSound), for any finite journals. A candidate is judged by counts the sides carry, while the numbers come from a population that is looked up again by key: `Names` says that each of the five passes
  names the population it counted (`RunSideIs`, `ModeSideIs`, `CaseSideIs`, `ModeCaseSideIs`), and `OpportunitiesOpen` that each opportunity pairs two such sides of one scope. What a population admits has a
  duration (`CellsMeasured`), and a population that is not empty has every statistic: the k-th shortest of n durations exists for each k up to n (`NthIs`), the sum is a number by induction (`SumIs`), and the ranks the median and
  the 95th percentile ask for lie between 1 and n (`StatisticIs`). A report stays true because no run is ingested after it (`MiningInv`, `CellsStay`).

Only model-checked: everything temporal under fairness, which is outside the prover's reach, that is ScanWalkEnds, HungRangeSeen, FollowsLoad, EveryItemSettles, BackendReturns, ThumbsHeal,
FillEnds and ScanReturns. Every invariant and every action property of a passing run is proved.

Loops are recursive functions over the numbers up to a bound. A recursive function is a CHOOSE, which says nothing until a function that solves its equations is known to exist, and the
library's theorems on recursion and induction take an operator as a parameter, which the provers cannot instantiate. `RecursionLemmas` replaces them by facts about functions and sets: from the well-foundedness of `<`
(`NatLessThanWellFounded`, `WFMin`) it gets the least number of a set, and from that `Recursion` (a step function has a solution) and `Induction`. What remains out of reach are definitions of the
libraries that are themselves recursive operators or folds (SelectSeq, SortSeq and the like), which is why ResultsView picks and sorts by functions of its own and BenchmarkMining takes the k-th number by counting.
Elsewhere a proof that needs the least, the greatest or the k-th element of a set counts too: a number's place in a finite set is how many elements are not above it, and `FS_BoundedSetOfNaturals`, `FS_Subset` and bijections do the rest
(`AtPlaceIs`, `MaxIs`).

## Where code and documentation disagree

1. **The crash marker is lost by a stopped scan** (scan_index_marker). `database.cpp` 449-452: a surviving key
   "means the previous process died mid-scan, so the next A/AB run must full-verify regardless of
   match_baseline". The next run reads it, replaces it by its own, and clears its own on every settled
   exit. If that run is stopped before its full pass and has itself changed no file, the baseline stays: the
   scan after it trusts a set the killed scan left incomplete.
2. **A stop inside a slice advances the frontier** (scan_index_frontier). Engine 1491-1492: "An interrupted pass keeps it
   so the next scan resumes from the last checkpointed slice". The workers of a window give up their groups on a stop
   (pipeline 483), `onSlice` is called for the window anyway (504), and the resumed pass skips them.
3. **An unreachable root counts as a complete walk** (scan_walk_unreachable). Engine 109: "an offline drive must never wipe the
   index". An error of the iterator ends the loop as the end of the tree does, and deletion detection
   forgets every file that was not seen.
4. **A start that hangs is never killed** (supervisor_startup). `gui/backend_supervisor.h` 15-16: "terminate() → 3s
   grace → kill() → 5s verify". While the state is Starting and READY is overdue, each health tick (1 s) calls
   `terminateAndRespawn` again, which sets the stage back and starts the grace anew: `kill()` is never reached, and `terminate()`
   has no effect on a console programme (`docs/build-history/0.9.4.115.en.md`). The end-to-end test of a backend without READY sets a grace
   of 500 ms, which is below the tick.
5. **A load is not answered when the backend is lost** (scan_control_load). `gui/mainwindow.cpp` 2690-2691: "One press per load: disable the button and show a
   NON-modal notice, so the window stays movable while the index is read. onResults clears both", and the acceptance runbook's S-5 "UI recovers on
   stop/restart/backend loss". The supervisor reports a loss by `failed()` only for a scan, and `onBackendConnection` leaves the load's state alone: `loading_`
   stays set, the notice open and the Load button disabled, and further loads are refused. A scan that fails later is taken for the load's failure.

Stated in the modules and refuted by TLC, but not among the runs:

* **The stored pair wins** (EmittedWins of ScanIndex). Worker 509: "Emitted pairs win on a duplicate key (a
  re-verified pair carries its current percentage)". `currentMatchSet` puts the stored pairs first and drops
  later ones with the same key. ScanIndex_marker.cfg with one change of the disk in its setting shows it.
* **A leftover restart timer spawns past the budget** (BoundedRestart of BackendSupervisor). `gui/backend_supervisor.h` 21: "Bounded
  restart (default 3 attempts, 2s/5s/10s backoff) then FAILED". `spawn()` does not stop the restart timer. If the window is shown while a
  restart is pending, the spawn is immediate; if that backend exits with the budget used up, the state is FAILED,
  and the timer that was left spawns another. The constants of BackendSupervisor_startup.cfg show it.
* **No phantoms** (NoPhantom of Monitor). `docs/build-history/0.9.4.116.en.md` 32: "An externally deleted file can no longer linger as a phantom member through any path (rescan / Load /
  scan start / monitor)". After an overflow of the kernel's buffer the directory is listed (`src/monitor.cpp` 197-219), and a listing names no file that is gone; and a removal
  that is queued while the loop defers the same path is overwritten (298-318): the retries that follow run out and are reported, the row stays.
* **A scan that ends early** (GroupsKeepTheirTab of ResultsView). `docs/build-history/0.9.4.151.en.md` 29: "Cancelled, failed, and failure-only scans leave the view consistent with the stored pair set". `startScan`
  clears percentages, kinds and flags (window 1790) and keeps the classes; a scan that fails or is cancelled before it has streamed the stored pairs again (2197, 2305) builds the groups from both, and a file without a kind
  counts as an image (3106): groups of videos are listed under images, with 0%. MCWindow.cfg shows it.
* **Live scans refresh** (LiveScanRefreshes of IndexStore). `src/index_janitor.h` 13-14: "the directory itself was last modified at least 7 days ago (metadata rewrites use atomic rename, so any live scan refreshes
  it)". The record is renewed by completed scans only, and opening the databases touches the directory only if it makes their write-ahead files (`src/database.cpp` 70-73), which a killed scan leaves behind. Two scans of a root that are killed,
  days apart, and a root that is then unplugged: the sweep takes what the second one has stored. MCRecords.cfg with MaxKills = 2 shows it.
* **The store reopens** (MemoryAbsorbs of ThumbService). `src/thumbnail_store.h` 48: "Safe to call per scan; reopens only when the database path changes." `ensureOpen` is called for each request (session 425)
  and returns early only if `dbOpen_` is set (`src/thumbnail_store.cpp` 40), which nothing does: each request closes and opens the database and empties the memory, and `diskGet` and `diskPut` (82-100) return at once. MCWindow.cfg shows it.
* **Torn tails** (TornTailDiscarded of BenchmarkJournal). `src/benchmark_journal.h` 133-137: "A final line without a terminating newline is a truncated write and is discarded". The next session
  appends to it, and the line that results loses the session's first record, or makes the file unreadable. Also SkipIsCancel: a cancel that only skips modes leaves a run that is recorded as finished.
* **Fresh thumbnails** (FreshOnRequest of ThumbService). `docs/build-history/0.9.4.140.en.md` 16: "A changed file yields fresh art on a new request". The memory of the last analysis is asked
  first (`src/thumbnail_store.cpp` 179) and knows the file as it was then.
* **Rows by index** (RowsPointRight of ResultsView). Window 3472-3476: any structural change "fails the prefix check and falls back to a full rebuild". A row holds the index of
  its group in the list of both kinds, and the check compares root, count and best percentage of the groups of one kind: a group of the other kind that is listed before
  them shifts the indexes and leaves the rows. Also ReferenceSpared: "Checking a group marks every file except the reference
  image" (3383-3385), but the marks stay when a match
  that streams in later joins two groups and makes a marked file the reference, until a group has no unmarked file left.
* **What is adopted** (AdoptedIsDiffed of TestAdoption). Session 106-108: "The main index is either updated for the completed test-scan scope or left untouched". The folder is the session's at the time
  the thread runs; a scan or load of another folder in between changes it.
* **Any silence** (AnySilenceSeen of StallWatchdog). Engine 871: "Diagnose any 10-minute completion silence". Nobody asks while an image batch runs or a pair is judged.
* **Disk samples** (DiskMeasuredIsReal of Telemetry). `src/benchmark.h` 380-381: "the samples taken while it was open stay measured"; the record calls them measured when the query was opened, also
  if no sample was taken while it was open.
* **Legacy builds** (ModesShareBinary of BenchmarkMining). `src/benchmark_data_comparison.h` says of Legacy builds that two are not assumed to be the same binary; a comparison of two modes within one takes them for one.
* **Drift** (DriftSeen of Profile). `src/media_search_engine.h` 279 and `docs/build-history/0.9.4.11.en.md` promise a recalibration after repeated deviations; the tracker is a member of the engine and each scan makes
  its own (session 292), so it never counts past one.
* **Unknown load** (UnknownReleases of Scheduler). `src/scheduler.cpp` 143-151: within the band the last verdict is kept, and an unknown load is in the band: a sampler that loses the device leaves a throttled
  GPU unused for the rest of the scan.
* **Exact enumeration** (EnumerationExact of CandidateIndex). `src/candidate_index.h` 11-16: "so this is exact: no false negatives at any D<=8". An entry the file's first hash looked at and found too far is not looked at
  again for its mirrored hash (`src/candidate_index.cpp` 92-107).
* **Crops of videos** (FullHasCrops, CropsOfPrint of VideoCache). Pipeline 370: "crop_temporal_score still catches true cropped duplicates". `build()` stores a row without crops, which then answers `buildFull()`; and an entry
  that is stored again keeps the crops of its earlier version (`src/video_fingerprint.cpp` 623, 631, 751-763).
* **Gaps** (GapFails of VideoSweep). `src/video_decoder.cpp` 354-356: "decoder errors leave missing targets far beyond the slack, so it still fails". True at the end only: targets in a gap take the first frame behind it.
* **Resident images** (ResidentFound of VerifyCache). `src/image_verify.cpp` 31-33: "lets a file reused across pairs stay resident". Two threads that miss together insert two nodes; the eviction of the older erases the
  entry of the younger.

Smaller ones that the model shows and no property forbids: a backend past the limit of malformed lines is declared Down but lives on, although the header (107)
says the limit "restarts the faulty backend"; an escalation timer that fires after the exit spawns at once, which cuts the third wait (10 s) to
the wait after `kill()` (5 s); READY that arrives during the grace announces a backend that is killed seconds later; the notice that `cancelScan` opens is closed by `scanFinished` and `onResults` (comments at
`gui/mainwindow.cpp` 1866 and 2171) but not by `scanFailed`, so it outlives a stopped scan that fails; a scan the user has stopped is resumed when its backend is
lost before it ends.

## Limits of the models

What a run leaves out because the property does not survive it. Each of these is a behaviour of the code
that turning the constant on shows:

* `MayCancel` in ScanWalk violates KeepsExisting: a stop requested after the consumer's stop test, while the walker
  still pushes, drops files of a walk that is then called complete (engine 1285-1286).
* In ScanIndex the settings below are outside the regime of a property (`Abrupt` and the like), which `MCScanIndex` can be given to see it fail:
  * scopes that leave out a kind or ignored paths violate BaselineSound: the scan stamps the baseline for the whole folder (engine 1501-1509);
  * "saveFail" with "kill" violates FrontierSound: the slice checkpoint's result is not looked at before the frontier advances (worker 269, engine 1426-1427);
  * "throw" with "kill" violates BaselineSound: unwinding clears the marker before the handler drops the baseline;
  * "throwOpen" with "stop" violates BaselineSound as "kill" with "stop" does (disagreement 1): the exception leaves the transaction open, its abandonment brings the marker back, and a
    later scan that is stopped and finds no file changed clears it;
  * "return" with "kill" in all modes violates BaselineSound: a file that vanishes and returns makes an old frontier key match again, and the resumed pass skips pairs that the deletion removed;
  * "failEarly" violates NoPairLost and BaselineSound: the handler of an exception thrown before the stored pairs are loaded saves an empty set (worker 474), although the comment there is about
    partial results.
* A BEGIN that fails returns a report whose `completed` is still its default `true`, so the worker reports success.

Abstractions: a version stands for size, time and quick hash together, and fast rescan's shortcut is therefore not
visible; the verdict on two fingerprints is a constant, the same in every pass; groups of equal image
hashes are single files; the index is only used by one engine version, so the revalidation of stored pairs
after an upgrade and the sampling-generation stamp are not modelled; pausing is in ScanWalk and ScanControl; thumbnails
and telemetry are in ThumbService and Telemetry, file_trace is not modelled. Pairs of a vanished file that a running scan
writes back stay, without a row, until the next scan's `cleanupMissingOnDisk`, and NoStaleVerdict says so.

In BackendSupervisor: payloads, sequence numbers and the nonce are left out, HELLO_ACK and READY are one line (Ready); `scanning` is the
supervisor's own flag; the job object, the re-sent monitor configuration and the window's modal dialogs (which run the same event
loop) are not modelled; after `shutdown()` only the exit of the process is left.

In BackendSession and ScanControl: `overlapped` stands for requests the window lets through. A scan can be started while a load is out by the analyze menu
(`gui/mainwindow.cpp` 4397) and after a file operation (4935), because `beginScan` looks at `scanning_` only; its failure is then taken for the
load's. Requests beside an adoption are let through as well, and write the index beside it. A load that is asked for as soon as the answer
of the one before has arrived, while that one's thread has not ended, may have its thread deleted by the slot of the first one (session 565-567), which ends the process if it runs. Properties that carry `~overlapped` say nothing of these. ScanHoldsIndex carries it
since the proof was tried: with four jobs, a load's failure taken for the scan's lets the next scan begin, and the late `finished` of the first clears the flag of the second. Yes in the Test Mode box names no scan: the session
adopts the result that is pending when the command arrives. What a dying process has written may be read before its exit is noticed, or lost; both
are in the model. Left out: SHUTDOWN (which waits for the worker without bound), FORGET_PATHS (refused beside a scan but not beside a load or an adoption), the
monitor (an adoption is refused while it runs), thumbnails and metadata, the pages of one answer, malformed lines, the modal message boxes and their nested event loops, and
the texts that depend on `backendRestarting_`.

Of the parts beside the core:

* ScanIndex: VerdictsHold is stated of settings without kills, failing saves and exceptions (a stale verdict then survives: the next scan does not find the file changed any more),
  and PairsKept of those without a failure before the stored pairs are loaded and without files that come back.
* Monitor: examining a file is one version read and one stored; the comparison with other folders, the resource guard and the polling of other systems are left out. `reported` is what it has told the user, `missed`
  the files of which it never heard something, and nobody is told of those: a read that is issued while another is out can lose a notice or mix two, without an overflow, and a watcher that cannot open its directory or is refused a read
  ends silently while the monitor counts as running. How often the kernel lets that happen is not known to the model; a torn buffer is taken to yield at most one path. One directory is watched.
* StallWatchdog: a pair of the final pass and an image batch are one step; the ladder's messages are one verdict.
* Scheduler: the shares of CPU and GPU, thread counts and rates are left out, so the property is about the use of the GPU only.
* Profile: rates are levels, Exact and Soft matches one class. A machine without a GPU whose profile is stale calibrates in every scan and never saves (engine 558); an incomplete first calibration
  replaces a complete profile; an unreadable file counts as missing. None of these makes a rate in use wrong.
* AnalyzePass: groups of equal hashes are single files, and a file's number stands for the place its group's search finds it at; the order in which the crop indexes and the queries of a targeted pass bring
  their pairs is left open. That an index found a pair by the full hashes, by an anchor or by both is not told apart: which pairs it finds, which match at once (`near`), which wait for the temporal comparison (`gated`) and which pass it
  (`good`) are data, so the numbers of `bestFull`, `anchorSim`, the duration gate and the temporal score are not in the model, and the temporal comparison is one step per pair; the early `return` of `addAndMatch` on a crop hit of a video
  (pipeline 127), which drops its other candidates, belongs to the live path and is left out.
* CandidateIndex: for a file with several hashes only soundness is claimed. Beyond the limit the enumeration compares all and may report a pair once for each pair of hashes; the window always asks for 8.
* VideoCache: a rewrite that keeps size, time and the hashed prefix is not told apart from no rewrite, as in the code; what anchors a row holds is left out.
* VideoSweep: a frame's time is exact or missing; a frame without a time is given one, and SamplesExact says nothing of such a stream.
* VerifyCache: the score is left out; a pair whose decode fails falls back to the verdict on the hashes (`src/image_verify.cpp` 243).
* ThumbService: one size of picture per row, budgets in pictures and not in bytes. A database that cannot be opened is a failure of MaxFails. An undecodable file is asked for again at every tick.
* ResultsView: sorting, filters, previews, the rebuild that the start of a scan makes at once under some sorts (1704-1706), the silent reload after a scan (2262-2275) and the grid's own rows are left out (grid and tree are filled by the same job). Taking files out of the view leaves the classes to the next results:
  pruning the root of a class splits it, and a match that streams in afterwards brings a deleted file back, which is why GroupsAreClasses speaks of views nothing was taken out of.
* TestAdoption: an index is rows, pairs and baseline; folders whose adoption went to another folder's index (`astray`) are not spoken of.
* IndexStore: folder ids of different roots differ; two resolvers of a new root may both find the first name taken by a directory without a record and make another, so that a later resolve leads to a directory the scan did not use; the loads, which open the
  index as well, are left out, and of what touches a directory only the creation, renaming and deletion of the record and of SQLite's files; a failure in the middle of `remove_all` and old layouts are left out; the day is the unit of time.
* Telemetry: amounts are left out, a family is measured or not.
* BenchmarkJournal: `glued` excuses the behaviours in which a session appended to a cut line. An abandoned session is closed by its destructor at once: what else an exception leaves half done is left out. That two processes write their summaries through one temporary name is left out.
* BenchmarkMining: resource figures and texts are left out.

## Not modelled

* **Sampling planners, image decoding, fingerprints, crop and structure signatures, temporal anchors, similarity percentages, GPU kernels**: arithmetic on pixels and durations without state that outlives a call. Where
  the protocol depends on them, their result is data of the model (Look in ScanIndex, the plans of VideoSweep, `data` of AnalyzePass).
* **Incremental scanner**: not on the path of a scan any more; its decisions are ScanIndex's.
* **Command line, console output, system information, logging, process capture, file metadata**: input and output.
* **Other dialogs of the window** (settings, benchmark window, comparison window, previews): presentation. **Job object, installer**: the operating system's.
* SHUTDOWN, FORGET_PATHS and policy commands of the session; schema migration and file_trace of the database.

## The plan

1. *Done*: WalkerQueue, ScanWalk and its proofs; ScanIndex and its first proofs.
2. *Done*: BackendSupervisor and the proofs of its safety properties.
3. *Done*: BackendSession and ScanControl, and the proofs of their types and that window and supervisor agree on the running scan.
4. *Done*: what works beside the scan (StallWatchdog, Scheduler, Profile, Monitor), with the proofs of SwitchesHoldStill, ProfileTrue and IndexFollowsDisk.
5. *Done*: what the analysis computes (CandidateIndex, AnalyzePass, VideoCache, VideoSweep, VerifyCache), with the proofs of PairsExact, CachesTrue, SweepTrue and their types.
6. *Done*: the rest of the window (ResultsView, ThumbService with the proof of RequestsTracked) and of what is kept (IndexStore, TestAdoption, Telemetry, BenchmarkJournal, BenchmarkMining), with the proofs of YoungIndexKept,
   AdoptionTrue, RecordTrue and JournalTrue and of their types.
7. *Done*: the proofs of NoPairLost, NoStaleVerdict, BaselineSound and FrontierSound for ScanIndex, and of NothingLost, Agreed and IndexHeld for ScanControl.
8. *Done*: the proofs of ListsTrue, ReportSound and the types of the window, and with them of every invariant and action property that a passing run checks.
9. Extensions: SHUTDOWN and FORGET_PATHS in BackendSession; in ScanIndex the sampling-generation stamp and the revalidation after an engine upgrade; the anchors of VideoCache; loads in IndexStore.
