------------------------------- MODULE ScanIndex -------------------------------
(***************************************************************************)
(* The match index of one folder and the scans that maintain it.            *)
(*                                                                         *)
(* A scan (ScanWorker::run around MediaSearchEngine::scan) brings the file  *)
(* rows of the index up to date with the disk, finds the similar pairs, and *)
(* replaces the stored pairs.  Three meta keys let later scans do less:     *)
(*   match_baseline    the stored pairs are complete: a Live or Hybrid scan *)
(*                     verifies only pairs that touch a changed file;       *)
(*   scan_dirty        a scan is under way; found at the next start, the    *)
(*                     process was killed and one full pass is due;         *)
(*   analyze_frontier  how far an interrupted Sequential pass got.          *)
(*                                                                         *)
(* db is the durable index, view what the scan's connection reads: they     *)
(* differ only inside the scan's transaction, which checkpoints commit      *)
(* piecemeal and a killed process never commits.                            *)
(*                                                                         *)
(* The files are 1..NFiles in path order, the order the walk meets them and *)
(* Database::all() returns them.  A version stands for a file's size, time  *)
(* and quick hash; Look says what it looks like, 0 if it cannot be decoded. *)
(* Counts that only pace commits and saves (500 analysed, 1000 scanned, 5   *)
(* seconds since the last save) are left open: such a step may happen.      *)
(***************************************************************************)
EXTENDS Naturals, FiniteSets

CONSTANTS
    NFiles, Videos,     \* the files, and those that are videos
    MaxVer, Look,       \* versions a file goes through; Look[f][v]
    GpuBatch, Workers,  \* images per batch, videos per range
    SliceFiles,         \* kAnalyzeSliceFiles: image groups per Sequential slice
    MaxScans, MaxKills, \* bounds on what happens
    Settings            \* folders, users and mishaps a behaviour may be about

Files    == 1..NFiles
Images   == Files \ Videos
Versions == 1..MaxVer

Modes  == {"Sequential", "Live", "Hybrid"}
Scopes == [ignored : SUBSET Files,      \* ignored paths
           skipped : SUBSET Files]      \* files of a kind the user did not ask for

\* What may happen besides scans: a stop; a failing saveMatches; another failing
\* statement of the scan's transaction; an exception while no transaction is open,
\* or one that leaves it open; run() failing before it has loaded the stored
\* pairs; a kill; and a deleted file that comes back as it was.
Mishaps == {"stop", "saveFail", "dbFail", "throw", "throwOpen", "failEarly", "kill", "return"}

Setting == [folder : SUBSET Files, modes : SUBSET Modes, scopes : SUBSET Scopes,
            edits : Nat, may : SUBSET Mishaps]

ASSUME IndexAssumption ==
    /\ NFiles \in Nat /\ MaxVer \in Nat \ {0}
    /\ Videos \subseteq Files
    /\ Look \in [Files -> [Versions -> Nat]]
    /\ {GpuBatch, Workers, SliceFiles} \subseteq Nat \ {0}
    /\ {MaxScans, MaxKills} \subseteq Nat
    /\ Settings \subseteq Setting

VARIABLES
    setting,                     \* what the behaviour is about; never changes
    disk, present, edits,        \* version of each file; files on disk; budget
    db, view, tx,                \* the index; the connection's view; tx open?
    pc,                          \* where the scan is
    mode, scope, full,           \* how it runs; full is baselineFullPass
    stored, emitted, changed,    \* ScanWorker: storedPairs_, pairs given to
                                 \*   onMatch, changedFiles_
    at, seen,                    \* next file of the walk; seen
    batch, range,                \* imageBatch; videos awaiting their range
    unit,                        \* the analysis under way
    cancel,                      \* ScanControl::cancel
    walkCompleted, completed,    \* what the engine makes of the scan
    slice,                       \* leading image groups verified
    scans, kills                 \* budgets

diskVars == <<setting, disk, present, edits>>
dbVars   == <<db, view, tx>>
control  == <<mode, scope, full, cancel>>
found    == <<stored, emitted, changed>>
walkVars == <<at, seen, batch, range, unit>>
verdicts == <<walkCompleted, completed, slice>>
budgets  == <<scans, kills>>
vars == <<diskVars, dbVars, pc, control, found, walkVars, verdicts, budgets>>

-----------------------------------------------------------------------------
(* Rows, verdicts and pairs.                                                 *)

\* A row of the files table: none; admitted but not analysed; with the
\* fingerprint of version fp; analysed in vain (analysis_failed).
Row == {r \in [state : {"absent", "skeleton", "indexed", "failed"},
                ver : 0..MaxVer, fp : 0..MaxVer] : r.state = "indexed" => r.fp # 0}

NoRow         == [state |-> "absent", ver |-> 0, fp |-> 0]
Skeleton(v)   == [state |-> "skeleton", ver |-> v, fp |-> 0]
Indexed(v, u) == [state |-> "indexed", ver |-> v, fp |-> u]
Failed(v)     == [state |-> "failed", ver |-> v, fp |-> 0]

HasFp(r, f) == r[f].state = "indexed"

\* The verdict on two fingerprints is the same in every pass.
Similar(f, u, g, v) ==
    /\ (f \in Videos) <=> (g \in Videos)
    /\ Look[f][u] = Look[g][v]

\* A match is the two files with the versions it was found for, so that
\* wholesale replacement keeps or drops a pair together with its verdict.
Match(f, u, g, v) == {<<f, u>>, <<g, v>>}
Key(m)  == {x[1] : x \in m}
Keys(M) == {Key(m) : m \in M}
Matches == {Match(f, u, g, v) : f, g \in Files, u, v \in Versions}

\* The similar pairs of the rows r among the files of S.
PairsAmong(r, S) ==
    LET P == {p \in S \X S : /\ p[1] < p[2] /\ HasFp(r, p[1]) /\ HasFp(r, p[2])
                             /\ Similar(p[1], r[p[1]].fp, p[2], r[p[2]].fp)}
    IN  {Match(p[1], r[p[1]].fp, p[2], r[p[2]].fp) : p \in P}

\* Mutants of CurrentMatchSet: what is stored is dropped, or kept come what may.
EmittedOnly(E)   == E
StoredAndMore(E) == stored \cup {m \in E : Key(m) \notin Keys(stored)}

\* currentMatchSet() once E has been emitted: the stored pairs no re-analysed
\* file is part of, then the emitted ones; the first pair of a key stays.
CurrentMatchSet(E) ==
    LET kept == {m \in stored : Key(m) \cap changed = {}}
    IN  kept \cup {m \in E : Key(m) \notin Keys(kept)}

InScope == Files \ (scope.ignored \cup scope.skipped)

\* The images of the pass in index order, each its own group; a pair belongs
\* to the group of its first image.
ImageGroups(r) == {f \in Images \cap InScope : HasFp(r, f)}
Rank(r, f)     == Cardinality({g \in ImageGroups(r) : g < f})
GroupOf(r, m)  == Rank(r, CHOOSE f \in Key(m) : \A g \in Key(m) : f <= g)

\* frontierKey: the files of the pass with everything the key hashes.
NoFrontier     == [files |-> {}, done |-> 0]
FrontierKey(r) == {<<f, r[f].ver, r[f].fp>> : f \in {g \in InScope : HasFp(r, g)}}

-----------------------------------------------------------------------------
(* The connection.                                                           *)

Index == [rows : [Files -> Row], pairs : SUBSET Matches,
          baseline : BOOLEAN, dirty : BOOLEAN,
          frontier : [files : SUBSET (Files \X (0..MaxVer) \X (0..MaxVer)), done : 0..NFiles]]

\* forgetRows: files that are gone take their pairs with them.
Forgetting(v, gone) ==
    [v EXCEPT !.rows = [f \in Files |-> IF f \in gone THEN NoRow ELSE @[f]],
              !.pairs = {m \in @ : Key(m) \cap gone = {}}]

\* A statement outside a transaction is durable at once.
Write(v) ==
    /\ view' = v
    /\ db' = IF tx THEN db ELSE v
    /\ UNCHANGED tx

\* The statement, and then perhaps a checkpoint(): COMMIT and BEGIN again.
WriteMayCommit(v) ==
    /\ view' = v
    /\ db' \in {db, v}
    /\ UNCHANGED tx

\* The statement, and then certainly a checkpoint().
WriteAndCommit(v) ==
    /\ view' = v
    /\ db' = v
    /\ UNCHANGED tx

Rollback ==
    /\ view' = db
    /\ db' = db
    /\ tx' = FALSE

\* Mutant of Persist: the save fails and nobody notices.
PersistNothing(E) == UNCHANGED dbVars

\* persistMatchesSnapshot() after E: in a savepoint when a transaction is open.
Persist(E) == Write([view EXCEPT !.pairs = CurrentMatchSet(E)])

\* onMatch for a pass that has emitted E so far: the save is paced by the
\* clock, and its result is not looked at.
MayPersist(E) == Persist(E) \/ UNCHANGED dbVars

-----------------------------------------------------------------------------

UnderWay == {"load", "walk", "drain", "finish", "slices", "sliceMark", "pass",
             "passEnd", "stamp", "persist", "report", "invalidate", "settle", "unwind"}

TypeOK ==
    /\ setting \in Settings
    /\ disk \in [Files -> Versions] /\ present \subseteq setting.folder
    /\ db \in Index /\ view \in Index /\ tx \in BOOLEAN
    /\ pc \in {"idle", "handler", "handlerSave"} \cup UnderWay
    /\ mode \in setting.modes /\ scope \in setting.scopes
    /\ {full, cancel, walkCompleted, completed} \subseteq BOOLEAN
    /\ {stored, emitted} \subseteq SUBSET Matches
    /\ {changed, seen, batch, range} \subseteq SUBSET Files
    /\ at \in 1..(NFiles + 1) /\ slice \in 0..NFiles
    /\ unit \in {"none", "images", "videos"}
    /\ edits \in 0..setting.edits /\ scans \in 0..MaxScans /\ kills \in 0..MaxKills

EmptyIndex == [rows |-> [f \in Files |-> NoRow], pairs |-> {},
               baseline |-> FALSE, dirty |-> FALSE, frontier |-> NoFrontier]

Init ==
    /\ setting \in Settings
    /\ disk = [f \in Files |-> 1] /\ present = setting.folder /\ edits = 0
    /\ db = EmptyIndex /\ view = EmptyIndex /\ tx = FALSE
    /\ pc = "idle" /\ mode \in setting.modes /\ scope \in setting.scopes
    /\ full = FALSE /\ cancel = FALSE
    /\ stored = {} /\ emitted = {} /\ changed = {}
    /\ at = 1 /\ seen = {} /\ batch = {} /\ range = {} /\ unit = "none"
    /\ walkCompleted = FALSE /\ completed = TRUE /\ slice = 0
    /\ scans = 0 /\ kills = 0

\* Every scan has a worker object, a ScanControl and an engine of its own.
FreshWorker ==
    /\ cancel' = FALSE
    /\ stored' = {} /\ emitted' = {} /\ changed' = {}
    /\ at' = 1 /\ seen' = {} /\ batch' = {} /\ range' = {} /\ unit' = "none"
    /\ walkCompleted' = FALSE /\ completed' = TRUE /\ slice' = 0

GoTo(label) == pc' = label
May(mishap) == mishap \in setting.may

-----------------------------------------------------------------------------
(* ScanWorker::run up to the engine.                                         *)

\* Mutant of FullPassDue: the marker an earlier scan left is not looked at.
BaselineMissing == ~view.baseline

\* baselineFullPass: a Live or Hybrid scan cannot build on the stored pairs.
FullPassDue == ~view.baseline \/ view.dirty

\* openIndexForRoot, the marker left by an earlier scan, and the own marker.
StartScan ==
    /\ pc = "idle" /\ scans < MaxScans
    /\ mode' \in setting.modes /\ scope' \in setting.scopes
    /\ full' = (mode' # "Sequential" /\ FullPassDue)
    /\ Write([view EXCEPT !.dirty = TRUE])
    /\ FreshWorker
    /\ scans' = scans + 1
    /\ GoTo("load")
    /\ UNCHANGED <<diskVars, kills>>

\* The index opens, its video cache does not: run() throws before it has
\* installed the guard that settles the marker, or loaded anything.
OpenFails ==
    /\ May("failEarly")
    /\ pc = "idle" /\ scans < MaxScans
    /\ FreshWorker
    /\ scans' = scans + 1
    /\ GoTo("handler")
    /\ UNCHANGED <<diskVars, dbVars, mode, scope, full, kills>>

\* cleanupMissingOnDisk, the quick load, and the engine's BEGIN.
QuickLoad ==
    /\ pc = "load"
    /\ LET v == Forgetting(view, (UNION Keys(view.pairs)) \ present)
       IN  /\ view' = v /\ db' = v
           /\ stored' = v.pairs
    /\ \/ tx' = TRUE /\ GoTo("walk")
       \/ May("dbFail") /\ tx' = FALSE /\ GoTo("persist")   \* BEGIN fails: an empty report
    /\ UNCHANGED <<diskVars, control, emitted, changed, walkVars, verdicts, budgets>>

-----------------------------------------------------------------------------
(* The walk and the analysis (MediaSearchEngine::scan up to its commit).     *)

\* Mutant of NextFile: one file too many.
WalkPastEnd ==
    /\ pc = "walk" /\ unit = "none"
    /\ at <= NFiles + 1
    /\ at' = at + 1

\* The walk meets file at, if it is there, and processOne looks at it.
NextFile ==
    /\ pc = "walk" /\ unit = "none"
    /\ at <= NFiles
    /\ at' = at + 1

Unchanged(f) ==
    /\ view.rows[f].state \in {"indexed", "failed"}
    /\ view.rows[f].ver = disk[f]

SkipFile ==
    /\ NextFile
    /\ at \notin present \/ at \notin InScope \/ Unchanged(at)
    /\ seen' = IF at \in present THEN seen \cup {at} ELSE seen
    /\ WriteMayCommit(view)
    /\ UNCHANGED <<diskVars, pc, control, found, batch, range, unit, verdicts, budgets>>

\* A new or changed file: the old row is replaced by a skeleton.  The file that
\* fills a batch or a range starts its analysis, which commits first.
AdmitFile ==
    /\ NextFile
    /\ at \in present \cap InScope /\ ~Unchanged(at)
    /\ seen' = seen \cup {at}
    /\ changed' = changed \cup {at}
    /\ IF at \in Videos THEN range' = range \cup {at} /\ batch' = batch
                        ELSE batch' = batch \cup {at} /\ range' = range
    /\ unit' = IF Cardinality(batch') >= GpuBatch THEN "images"
               ELSE IF Cardinality(range') >= Workers THEN "videos" ELSE "none"
    /\ LET v == [view EXCEPT !.rows[at] = Skeleton(disk[at])]
       IN  IF unit' = "none" THEN WriteMayCommit(v) ELSE WriteAndCommit(v)
    /\ UNCHANGED <<diskVars, pc, control, stored, emitted, verdicts, budgets>>

\* The loop of the consumer ends at the end of the walk or by a stop.
WalkEnds ==
    /\ pc = "walk" /\ unit = "none"
    /\ \/ at > NFiles /\ ~cancel /\ walkCompleted' = TRUE
       \/ cancel /\ walkCompleted' = FALSE
    /\ GoTo("drain")
    /\ UNCHANGED <<diskVars, dbVars, control, found, walkVars, completed, slice, budgets>>

\* What is left of the image batch is analysed even after a stop.
DrainImages ==
    /\ pc = "drain" /\ unit = "none"
    /\ batch # {}
    /\ unit' = "images"
    /\ WriteAndCommit(view)
    /\ UNCHANGED <<diskVars, pc, control, found, at, seen, batch, range, verdicts, budgets>>

\* A last range of videos is not started after a stop.
DrainVideos ==
    /\ pc = "drain" /\ unit = "none"
    /\ batch = {} /\ range # {}
    /\ ~cancel
    /\ unit' = "videos"
    /\ WriteAndCommit(view)
    /\ UNCHANGED <<diskVars, pc, control, found, at, seen, batch, range, verdicts, budgets>>

Drained ==
    /\ pc = "drain" /\ unit = "none"
    /\ batch = {}
    /\ range = {} \/ cancel
    /\ GoTo("finish")
    /\ UNCHANGED <<diskVars, dbVars, control, found, walkVars, verdicts, budgets>>

\* The decoder reads the file now; size, time and hash are those of the walk.
Analysed(f) ==
    IF f \in present /\ Look[f][disk[f]] # 0
    THEN Indexed(view.rows[f].ver, disk[f])
    ELSE Failed(view.rows[f].ver)

\* liveStreamActive, and the files the live pipe holds once f is settled: the
\* changed files with a fingerprint.
LivePairs(r, f) ==
    IF mode = "Sequential" \/ full THEN {}
    ELSE {m \in PairsAmong(r, changed) : f \in Key(m)}

\* One result of an image batch or video range: the row, the live matches and
\* perhaps a save of the pairs.  A video may be found similar only by the
\* temporal check, which is left to the final pass.
Settle(f) ==
    LET r == [view.rows EXCEPT ![f] = Analysed(f)]
    IN  /\ \E E \in IF f \in Videos THEN SUBSET LivePairs(r, f) ELSE {LivePairs(r, f)} :
            /\ emitted' = emitted \cup E
            /\ \E P \in {view.pairs}
                       \cup {CurrentMatchSet(emitted \cup D) : D \in (SUBSET E) \ {{}}} :
                LET v == [view EXCEPT !.rows = r, !.pairs = P]
                IN  IF unit' = "none" THEN WriteMayCommit(v) ELSE Write(v)

SettleImage ==
    /\ unit = "images"
    /\ \E f \in batch :
        /\ batch' = batch \ {f}
        /\ unit' = IF batch' = {} THEN "none" ELSE unit
        /\ Settle(f)
    /\ UNCHANGED <<diskVars, pc, control, stored, changed, at, seen, range, verdicts, budgets>>

\* The range is left when its last video is harvested; a stop seen by then
\* ends the walk.
HarvestVideo ==
    /\ unit = "videos"
    /\ \E f \in range :
        /\ range' = range \ {f}
        /\ unit' = IF range' = {} THEN "none" ELSE unit
        /\ \/ Settle(f)
           \/ /\ cancel      \* the build was aborted: the skeleton stays
              /\ Write(view)
              /\ UNCHANGED emitted
    /\ GoTo(IF unit' = "none" /\ cancel THEN "drain" ELSE pc)
    /\ UNCHANGED <<diskVars, control, stored, changed, at, seen, batch, verdicts, budgets>>

\* Deletion detection, and the commit that ends the scan's transaction.  The
\* final pass of a Sequential scan starts at the frontier, if it is its own.
FinishWalk ==
    /\ pc = "finish"
    /\ LET gone == IF walkCompleted
                   THEN {f \in Files : view.rows[f] # NoRow /\ f \notin seen \cup scope.ignored}
                   ELSE {}
           v == Forgetting(view, gone)
       IN  /\ view' = v /\ db' = v /\ tx' = FALSE
           /\ slice' = IF mode = "Sequential" /\ v.frontier.files = FrontierKey(v.rows)
                       THEN v.frontier.done ELSE 0
    /\ GoTo(IF mode = "Sequential" THEN "slices" ELSE "pass")
    /\ UNCHANGED <<diskVars, control, found, walkVars, walkCompleted, completed, budgets>>

\* A statement or commit of the transaction fails: all since the last
\* checkpoint is rolled back and the engine reports an incomplete scan.
DbFails ==
    /\ May("dbFail")
    /\ pc \in {"walk", "drain", "finish"}
    /\ Rollback
    /\ completed' = FALSE
    /\ unit' = "none"
    /\ GoTo("persist")
    /\ UNCHANGED <<diskVars, control, found, at, seen, batch, range, walkCompleted, slice, budgets>>

-----------------------------------------------------------------------------
(* The final pass.  It runs after a stop too, and is then left early.        *)

\* The pairs of the current slice that have not been emitted.
SliceTodo ==
    {m \in PairsAmong(view.rows, ImageGroups(view.rows)) \ emitted :
        GroupOf(view.rows, m) \in slice..(slice + SliceFiles - 1)}

\* included(): which pairs the unsliced pass verifies.
Included(m) ==
    \/ full
    \/ Key(m) \subseteq Videos /\ Key(m) \cap changed # {}
    \/ Key(m) \subseteq Images /\
         IF mode = "Hybrid" THEN Cardinality(Key(m) \cap changed) = 1
                            ELSE Key(m) \cap changed # {}

PassTodo ==
    {m \in PairsAmong(view.rows, InScope) \ emitted :
        IF mode = "Sequential" THEN Key(m) \subseteq Videos ELSE Included(m)}

EmitMatch ==
    /\ \/ pc = "slices" /\ \E m \in SliceTodo : emitted' = emitted \cup {m}
       \/ pc = "pass" /\ \E m \in PassTodo : emitted' = emitted \cup {m}
    /\ MayPersist(emitted')
    /\ UNCHANGED <<diskVars, pc, control, stored, changed, walkVars, verdicts, budgets>>

\* The end of a slice: all its pairs verified, or given up by its workers
\* after a stop.  onSlice saves the pairs and ignores the outcome ...
EndSlice ==
    /\ pc = "slices"
    /\ slice < Cardinality(ImageGroups(view.rows))
    /\ SliceTodo = {} \/ cancel
    /\ slice' = IF slice + SliceFiles < Cardinality(ImageGroups(view.rows))
                THEN slice + SliceFiles ELSE Cardinality(ImageGroups(view.rows))
    /\ Persist(emitted) \/ (May("saveFail") /\ UNCHANGED dbVars)
    /\ GoTo("sliceMark")
    /\ UNCHANGED <<diskVars, control, found, walkVars, walkCompleted, completed, budgets>>

\* ... and then advances the frontier.
MarkSlice ==
    /\ pc = "sliceMark"
    /\ Write([view EXCEPT !.frontier = [files |-> FrontierKey(view.rows), done |-> slice]])
    /\ GoTo(IF cancel THEN "passEnd" ELSE "slices")
    /\ UNCHANGED <<diskVars, control, found, walkVars, verdicts, budgets>>

EndSlices ==
    /\ pc = "slices"
    /\ slice >= Cardinality(ImageGroups(view.rows))
    /\ GoTo("pass")
    /\ UNCHANGED <<diskVars, dbVars, control, found, walkVars, verdicts, budgets>>

EndPass ==
    /\ pc = "pass"
    /\ PassTodo = {} \/ cancel
    /\ GoTo("passEnd")
    /\ UNCHANGED <<diskVars, dbVars, control, found, walkVars, verdicts, budgets>>

\* A Sequential pass that was not stopped needs no frontier.
ClearFrontier ==
    /\ pc = "passEnd"
    /\ Write(IF mode = "Sequential" /\ ~cancel THEN [view EXCEPT !.frontier = NoFrontier] ELSE view)
    /\ GoTo("stamp")
    /\ UNCHANGED <<diskVars, control, found, walkVars, verdicts, budgets>>

\* Mutant of StampBaseline: the marker is cleared with the stamp.
StampAndSettle ==
    /\ pc = "stamp"
    /\ completed' = ~cancel
    /\ Write(IF cancel THEN view ELSE [view EXCEPT !.baseline = TRUE, !.dirty = FALSE])
    /\ GoTo("persist")
    /\ UNCHANGED <<diskVars, control, found, walkVars, walkCompleted, slice, budgets>>

StampBaseline ==
    /\ pc = "stamp"
    /\ completed' = ~cancel
    /\ Write(IF cancel THEN view ELSE [view EXCEPT !.baseline = TRUE])
    /\ GoTo("persist")
    /\ UNCHANGED <<diskVars, control, found, walkVars, walkCompleted, slice, budgets>>

-----------------------------------------------------------------------------
(* ScanWorker::run after the engine.                                         *)

FinalPersist ==
    /\ pc = "persist"
    /\ \/ Persist(emitted) /\ GoTo("report")
       \/ May("saveFail") /\ UNCHANGED dbVars /\ GoTo("invalidate")
    /\ UNCHANGED <<diskVars, control, found, walkVars, verdicts, budgets>>

\* The scan did not get to the end of what it had found to do.
LeftIncomplete == (cancel \/ ~completed) /\ changed # {}

\* Results, or a stop or failure: these drop the baseline if files changed.
Report ==
    /\ pc = "report"
    /\ GoTo(IF LeftIncomplete THEN "invalidate" ELSE "settle")
    /\ UNCHANGED <<diskVars, dbVars, control, found, walkVars, verdicts, budgets>>

Invalidate ==
    /\ pc = "invalidate"
    /\ Write([view EXCEPT !.baseline = FALSE])
    /\ GoTo("settle")
    /\ UNCHANGED <<diskVars, control, found, walkVars, verdicts, budgets>>

\* SettledExit: the destructor clears the marker on every way out of run().
SettledExit ==
    /\ pc = "settle"
    /\ Write([view EXCEPT !.dirty = FALSE])
    /\ GoTo("idle")
    /\ UNCHANGED <<diskVars, control, found, walkVars, verdicts, budgets>>

-----------------------------------------------------------------------------
(* Exceptions.  One that leaves the consumer loop is rethrown after a        *)
(* rollback; a later one leaves the transaction open.                        *)

Throw ==
    /\ \/ May("throw") /\ pc \in {"walk", "slices", "pass"}
       \/ May("throwOpen") /\ pc \in {"drain", "finish"}
       \/ May("failEarly") /\ pc = "load"
    /\ IF pc = "walk" THEN Rollback ELSE UNCHANGED dbVars
    /\ unit' = "none"
    /\ GoTo("unwind")
    /\ UNCHANGED <<diskVars, control, found, at, seen, batch, range, verdicts, budgets>>

\* Unwinding runs SettledExit's destructor before the handler.
Unwind ==
    /\ pc = "unwind"
    /\ Write([view EXCEPT !.dirty = FALSE])
    /\ GoTo("handler")
    /\ UNCHANGED <<diskVars, control, found, walkVars, verdicts, budgets>>

HandlerInvalidates ==
    /\ pc = "handler"
    /\ Write(IF changed = {} THEN view ELSE [view EXCEPT !.baseline = FALSE])
    /\ GoTo("handlerSave")
    /\ UNCHANGED <<diskVars, control, found, walkVars, verdicts, budgets>>

\* The handler saves what it has, and closing the connection abandons a
\* transaction that is still open.
HandlerSaves ==
    /\ pc = "handlerSave"
    /\ LET v == [view EXCEPT !.pairs = CurrentMatchSet(emitted)]
       IN  db' \in (IF tx THEN {db} ELSE {v}) \cup (IF May("saveFail") THEN {db} ELSE {})
    /\ view' = db' /\ tx' = FALSE
    /\ GoTo("idle")
    /\ UNCHANGED <<diskVars, control, found, walkVars, verdicts, budgets>>

-----------------------------------------------------------------------------
(* Everything around the scan.                                               *)

RequestStop ==
    /\ May("stop")
    /\ pc # "idle" /\ ~cancel
    /\ cancel' = TRUE
    /\ UNCHANGED <<diskVars, dbVars, pc, mode, scope, full, found, walkVars, verdicts, budgets>>

\* The process dies: what was not committed is gone, nothing else runs.
Kill ==
    /\ May("kill")
    /\ pc # "idle" /\ kills < MaxKills
    /\ kills' = kills + 1
    /\ Rollback
    /\ FreshWorker
    /\ GoTo("idle")
    /\ UNCHANGED <<diskVars, mode, scope, full, scans>>

Edit(f) ==
    /\ f \in present /\ disk[f] < MaxVer
    /\ disk' = [disk EXCEPT ![f] = @ + 1]
    /\ UNCHANGED present

Delete(f) ==
    /\ f \in present
    /\ present' = present \ {f}
    /\ UNCHANGED disk

Return(f) ==
    /\ May("return") /\ f \in setting.folder \ present
    /\ present' = present \cup {f}
    /\ UNCHANGED disk

DiskChanges ==
    /\ edits < setting.edits
    /\ edits' = edits + 1
    /\ \E f \in Files : Edit(f) \/ Delete(f) \/ Return(f)
    /\ UNCHANGED <<setting, dbVars, pc, control, found, walkVars, verdicts, budgets>>

Done ==
    /\ pc = "idle" /\ scans = MaxScans
    /\ UNCHANGED vars

Next ==
    \/ StartScan \/ OpenFails \/ QuickLoad
    \/ SkipFile \/ AdmitFile \/ WalkEnds
    \/ DrainImages \/ DrainVideos \/ Drained \/ SettleImage \/ HarvestVideo
    \/ FinishWalk \/ DbFails
    \/ EmitMatch \/ EndSlice \/ MarkSlice \/ EndSlices \/ EndPass
    \/ ClearFrontier \/ StampBaseline
    \/ FinalPersist \/ Report \/ Invalidate \/ SettledExit
    \/ Throw \/ Unwind \/ HandlerInvalidates \/ HandlerSaves
    \/ RequestStop \/ Kill \/ DiskChanges \/ Done

Spec == Init /\ [][Next]_vars

-----------------------------------------------------------------------------
(* What the index promises between scans and to a process that is killed.    *)

\* A baseline that no marker puts in doubt is the truth: every similar pair of
\* the indexed files is stored.  Live and Hybrid scans rely on it for all the
\* pairs they do not verify, so a pair missing here is never found again.
BaselineSound ==
    pc = "idle" /\ db.baseline /\ ~db.dirty =>
        Keys(PairsAmong(db.rows, Files)) \subseteq Keys(db.pairs)

\* While a scan is under way the durable index says so, whatever transaction
\* is open, so that a process that dies there is noticed at the next start.
MarkerHeld == pc \in UnderWay => db.dirty

\* A process that dies while it analyses leaves durable skeletons of the files
\* it was analysing or was about to: they show how far it got, and the next scan
\* goes back to them.
CrashFrontier ==
    unit # "none" => \A f \in batch \cup range : db.rows[f].state = "skeleton"

\* A trusted baseline holds no outdated verdict either: every stored pair was
\* found for the fingerprints its analysed files have now.  (A file that
\* vanished during the scan keeps its pairs, without a row, until the next
\* scan's cleanupMissingOnDisk; a skeleton is analysed by the next scan.)
NoStaleVerdict ==
    pc = "idle" /\ db.baseline /\ ~db.dirty =>
        \A m \in db.pairs : \A x \in m :
            db.rows[x[1]].state \in {"indexed", "failed"} => db.rows[x[1]].fp = x[2]

\* The groups below the frontier need no second visit: when the index still is
\* the one the frontier was set for, their pairs are stored.
FrontierSound ==
    pc = "idle" /\ db.frontier.files = FrontierKey(db.rows) =>
        \A m \in PairsAmong(db.rows, ImageGroups(db.rows)) :
            GroupOf(db.rows, m) < db.frontier.done => Key(m) \in Keys(db.pairs)

\* When the results are reported, every pair this scan verified is stored with the verdict this
\* scan reached, as a comment on currentMatchSet says.  The code keeps the stored one: with the
\* constants of ScanIndex_marker.cfg and a change of the disk, TLC finds it violated.
EmittedWins == pc = "report" => emitted \subseteq view.pairs

\* The connection sees more than is durable only inside its transaction: what
\* is written after the walk (pairs, frontier, baseline, marker) is not lost.
TxDiscipline == ~tx => view = db

\* Nothing a scan may need again is lost with the process: the marker is durable
\* before the work, the skeletons before the analysis, the rest when it is seen.
Durability == MarkerHeld /\ CrashFrontier /\ TxDiscipline

\* No step of a scan, however the scan ends, loses the durable pair of two files
\* that are on disk and that this scan has not found changed.
KeepsPairs ==
    \A m \in db.pairs : Key(m) \subseteq present \ changed => Key(m) \in Keys(db'.pairs)
NoPairLost == [][KeepsPairs]_vars

-----------------------------------------------------------------------------
(* Where these promises hold.  README.md says what breaks them elsewhere.    *)

Without(mishaps) == setting.may \cap mishaps = {}
AtMost(mishaps)  == setting.may \subseteq mishaps
WholeFolder      == \A s \in setting.scopes : s.ignored = {} /\ s.skipped = {}

\* The process may die, or an exception may take the open transaction with it.
Abrupt == AtMost({"kill", "throwOpen"})

\* Scans of a user who never asks for Sequential may be stopped or fail.
Faulty == AtMost({"stop", "saveFail", "dbFail", "throw", "return"}) /\ "Sequential" \notin setting.modes

\* Scans of the whole folder leave a baseline that is true: in any mode if the
\* process dies, and without Sequential if they are stopped or fail.
BaselineHolds == WholeFolder /\ (Abrupt \/ Faulty) => BaselineSound

\* The groups below a frontier that is still valid are done with, however often
\* the scan that set it died.
FrontierHolds == WholeFolder /\ Abrupt => FrontierSound

\* No verdict on a fingerprint that is gone is trusted, unless the scan that
\* would have dropped it was killed, failed to save or lost its transaction: the
\* next one does not find the file changed any more.
VerdictsHold == Without({"kill", "saveFail", "throw", "throwOpen"}) => NoStaleVerdict

\* No pair is lost, unless the scan fails before it has read the stored ones or
\* a file that was deleted comes back.
PairsKept == [][Without({"failEarly", "return"}) => KeepsPairs]_vars
=============================================================================
