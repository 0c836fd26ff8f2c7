----------------------------- MODULE Telemetry -----------------------------
(***************************************************************************)
(* The telemetry recorder of a scan (benchmark.cpp, TelemetryRecorder): one  *)
(* recorder per engine, started twice by a scan worker - for the              *)
(* revalidation of stored pairs and again by MediaSearchEngine::scan - with a *)
(* sampler thread that reads the machine every 250 ms, and finalized once.    *)
(*                                                                         *)
(* Counters are abstracted to what the record says of them: which families    *)
(* of metrics it calls "measured".  A measured zero and "never measured" must *)
(* never share one representation (benchmark.h:18).                          *)
(***************************************************************************)
EXTENDS Naturals, FiniteSets

CONSTANT MaxScans       \* bound: scans the engine of one worker is asked for

ASSUME TelemetryAssumption == MaxScans \in Nat

\* The families of metrics the scan thread and its pools add to, each with its
\* own recorded flag or counter: addImage and addVideo, a timed GPU batch, the
\* walker queue, a stage time, the analyze split, its pair verifications.
Families == {"image", "video", "gpu batch", "walker", "stage", "analyze", "verify"}

\* What start() leaves: what finishScan and applyDisplayedResultStats set, and
\* the counters of the sampling plans.
Unreset == {"kinds", "displayed", "plans"}

Terminals == {"completed", "cancelled", "failed"}

VARIABLES
  detail,     \* the detailed log is on: a sampler is wanted
  wpc,        \* the scan worker
  runNo,      \* runs started by this recorder
  status,     \* started_/finished_: "none", "started", "finished"
  flags,      \* recorded flags and nonzero counters
  added,      \* history: what this run really added
  sampler,    \* the sampler thread: 0, or the run that started it
  sampled,    \* samples_: who took each and whether the disk query was open
  samplerOn,  \* samplerStarted_
  query,      \* diskQuery_ is open
  diskSeen,   \* diskWasAvailable_
  outcome     \* completed_, cancelled_, failed_ of the record

telemetryVars == <<detail, wpc, runNo, status, flags, added, sampler, sampled,
                   samplerOn, query, diskSeen, outcome>>

TelemetryTypeOK ==
  /\ detail \in BOOLEAN
  /\ wpc \in {"idle", "revalidating", "loading", "scanning", "finished"}
  /\ runNo \in Nat
  /\ status \in {"none", "started", "finished"}
  /\ flags \subseteq Families \cup Unreset
  /\ added \subseteq Families \cup Unreset
  /\ sampler \in 0 .. runNo
  /\ sampled \subseteq [by : 1 .. runNo, disk : BOOLEAN]
  /\ {samplerOn, query, diskSeen} \subseteq BOOLEAN
  /\ outcome \subseteq Terminals

TelemetryInit ==
  /\ detail \in BOOLEAN
  /\ wpc = "idle"
  /\ runNo = 0
  /\ status = "none"
  /\ flags = {} /\ added = {}
  /\ sampler = 0
  /\ sampled = {}
  /\ samplerOn = FALSE
  /\ query = FALSE
  /\ diskSeen = FALSE
  /\ outcome = {}

(***************************************************************************)
(* start(): stops a sampler, clears the run and opens the disk counters,     *)
(* which may be unavailable; startSampler() stops a sampler first - and       *)
(* stopSampler() closes the disk counters.                                   *)
(***************************************************************************)
Start(withSampler) ==
  /\ runNo' = runNo + 1
  /\ status' = "started"
  /\ flags' = flags \cap Unreset
  /\ added' = {}
  /\ sampled' = {}
  /\ outcome' = {}
  /\ \E available \in BOOLEAN :
       /\ diskSeen' = available
       /\ query' = (available /\ ~withSampler)
  /\ samplerOn' = withSampler
  /\ sampler' = IF withSampler THEN runNo' ELSE 0

(***************************************************************************)
(* finalize(): the sampler is joined (and the counters closed) before the    *)
(* one baseline sample a run without samples gets; the verdict is written     *)
(* once.  abortUnfinished() is the same for a run nobody finished.           *)
(***************************************************************************)
FinalizedWith(terminals) ==
  /\ sampler' = 0
  /\ query' = FALSE
  /\ sampled' = IF sampled = {} THEN {[by |-> runNo, disk |-> FALSE]} ELSE sampled
  /\ status' = "finished"
  /\ outcome' = outcome \cup terminals
  /\ UNCHANGED <<runNo, samplerOn, diskSeen>>

\* A mutant: a finished run can be aborted.
AbortAlways ==
  /\ FinalizedWith({"cancelled"})
  /\ UNCHANGED <<flags, added>>

AbortUnfinished ==
  IF status = "started"
    THEN /\ FinalizedWith({"cancelled"})
         /\ UNCHANGED <<flags, added>>
    ELSE UNCHANGED <<runNo, status, flags, added, sampler, sampled, samplerOn,
                     query, diskSeen, outcome>>

(***************************************************************************)
(* The scan worker (ScanWorker::run) and the engine's scan.                  *)
(***************************************************************************)
BeginRevalidation ==
  /\ wpc = "idle"
  /\ runNo + 2 <= 2 * MaxScans
  /\ Start(detail)
  /\ wpc' = "revalidating"
  /\ UNCHANGED detail

\* revalidateMatches says cancelled: the aborted record is the record.
RevalidationCancelled ==
  /\ wpc = "revalidating"
  /\ AbortUnfinished
  /\ wpc' = "idle"
  /\ UNCHANGED detail

RevalidationDone ==
  /\ wpc = "revalidating"
  /\ wpc' = "loading"
  /\ UNCHANGED <<detail, runNo, status, flags, added, sampler, sampled, samplerOn,
                 query, diskSeen, outcome>>

BeginScan ==
  /\ wpc = "loading"
  /\ Start(detail)
  /\ wpc' = "scanning"
  /\ UNCHANGED detail

\* An addX call, from the consumer or a pool thread; pair verifications are
\* counted by the analyze split, plans as each video is sampled.
Add(f) ==
  /\ wpc = "scanning"
  /\ flags' = flags \cup {f}
  /\ added' = added \cup {f}
  /\ UNCHANGED <<detail, wpc, runNo, status, sampler, sampled, samplerOn, query,
                 diskSeen, outcome>>

\* finishScan: the reason first, then the summaries, then finalize.
FinishScan(terminal) ==
  /\ wpc = "scanning"
  /\ FinalizedWith({terminal})
  /\ flags' = flags \cup {"kinds"}
  /\ added' = added \cup {"kinds"}
  /\ wpc' = "finished"
  /\ UNCHANGED detail

\* applyDisplayedResultStats, just before the record is read.
ApplyDisplayed ==
  /\ wpc = "finished"
  /\ flags' = flags \cup {"displayed", "kinds"}
  /\ added' = added \cup {"displayed", "kinds"}
  /\ wpc' = "idle"
  /\ UNCHANGED <<detail, runNo, status, sampler, sampled, samplerOn, query,
                 diskSeen, outcome>>

\* The handlers of ScanWorker::run: an exception anywhere aborts the run.
Throw ==
  /\ wpc # "idle"
  /\ AbortUnfinished
  /\ wpc' = "idle"
  /\ UNCHANGED detail

(***************************************************************************)
(* The sampler thread.                                                      *)
(***************************************************************************)
SampleOnce ==
  /\ sampler # 0
  /\ sampled' = sampled \cup {[by |-> sampler, disk |-> query]}
  /\ UNCHANGED <<detail, wpc, runNo, status, flags, added, sampler, samplerOn,
                 query, diskSeen, outcome>>

TelemetryNext ==
  \/ BeginRevalidation \/ RevalidationCancelled \/ RevalidationDone
  \/ BeginScan \/ ApplyDisplayed \/ Throw \/ SampleOnce
  \/ \E f \in Families \cup {"plans"} : Add(f)
  \/ \E t \in Terminals : FinishScan(t)

TelemetrySpec == TelemetryInit /\ [][TelemetryNext]_telemetryVars

(***************************************************************************)
(* What toJson() says is "measured".                                        *)
(***************************************************************************)
MeasuredFamilies ==
  (flags \ {"verify", "displayed"})
    \cup (IF {"analyze", "verify"} \subseteq flags THEN {"verify"} ELSE {})
MeasuredSamples == samplerOn
MeasuredDisk == diskSeen

(***************************************************************************)
(* Properties.                                                              *)
(***************************************************************************)

\* A record is about its own run: no sample of an earlier run's sampler is in
\* it, nothing it calls measured was left over from the revalidation (or an
\* earlier scan), a sampled record has a sample, and a finished record has no
\* thread that could still change it.
RecordIsOfItsRun ==
  /\ \A s \in sampled : s.by = runNo
  /\ MeasuredFamilies \cap Families \subseteq added
  /\ (status = "finished" /\ MeasuredSamples) => sampled # {}
  /\ status = "finished" => sampler = 0

\* The verdict of a finished run is one verdict, and stays until the next run
\* starts: an exception after the end of the scan must not turn it into a
\* cancelled one (abortUnfinished in the handlers of ScanWorker::run).
VerdictStands ==
  [][(status = "finished" /\ runNo' = runNo)
        => outcome' = outcome /\ Cardinality(outcome) = 1]_telemetryVars

\* "the samples taken while it was open stay measured" (benchmark.h:380): disk
\* figures called measured come from at least one sample with the query open.
DiskMeasuredIsReal ==
  (status = "finished" /\ MeasuredSamples /\ MeasuredDisk) => \E s \in sampled : s.disk

\* A scan's record is of that scan, and its verdict final.
RecordTrue == []RecordIsOfItsRun /\ VerdictStands
=============================================================================
