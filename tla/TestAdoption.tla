------------------------------ MODULE TestAdoption ------------------------------
(***************************************************************************)
(* Test mode: a scan that writes to a scratch index, the comparison of that  *)
(* index with the main one, and its adoption when the user says yes.         *)
(*                                                                         *)
(* The question is a box that leaves the window usable, the adoption runs on *)
(* a thread of its own, and what it adopts, and for which folder, it reads   *)
(* from the session when it gets there.                                     *)
(***************************************************************************)
EXTENDS Naturals, FiniteSets

CONSTANTS Folders, FilesOf,    \* folders, and the files of each
          TestScopes,          \* sets of files a scan leaves out: ignored, or of a kind not scanned
          MaxVersion, MaxIndexScans, MaxIndexLoads   \* bounds

IndexFiles == UNION {FilesOf[r] : r \in Folders}

ASSUME AdoptionAssumption ==
    /\ FilesOf \in [Folders -> SUBSET IndexFiles]
    /\ \A r, s \in Folders : r # s => FilesOf[r] \cap FilesOf[s] = {}
    /\ TestScopes \subseteq SUBSET IndexFiles /\ {} \in TestScopes
    /\ {MaxVersion, MaxIndexScans, MaxIndexLoads} \subseteq Nat

VARIABLES
    onDisk,       \* the version of each file
    mainIndex,    \* of each folder: rows (0: none), pairs, baseline
    scratchIndex, \* that of the last test scan, with its folder
    testSession,      \* lastRoot_, whether testScratchDir_ is set, scope, testModePending_
    scanJob, loadJob, applyJob,   \* what runs
    diffBox,      \* the folder the question on the screen is about
    astray,       \* history: folders that got a scratch index nobody had compared
    adoptLeft     \* what remains of the bounds

adoptVars == <<onDisk, mainIndex, scratchIndex, testSession, scanJob, loadJob, applyJob, diffBox, astray, adoptLeft>>

NoFolder == "no folder"
NoJob    == [folder |-> NoFolder]
PairsIn(s) == {p \in SUBSET s : Cardinality(p) = 2}

\* Two files are alike when their versions are of the same kind.
Alike(rows, p) == \A f, g \in p : rows[f] # 0 /\ rows[g] # 0 /\ rows[f] % 2 = rows[g] % 2
AlikePairs(rows) == {p \in PairsIn(IndexFiles) : Alike(rows, p)}

EmptyIndex == [rows |-> [f \in IndexFiles |-> 0], pairs |-> {}, baseline |-> FALSE]

\* What a completed scan leaves in an empty or an up to date index.
ScannedIndex(r, out) ==
    LET rows == [f \in IndexFiles |-> IF f \in FilesOf[r] \ out THEN onDisk[f] ELSE 0]
    IN  [rows |-> rows, pairs |-> AlikePairs(rows), baseline |-> TRUE]

AdoptInit ==
    /\ onDisk = [f \in IndexFiles |-> 1]
    /\ mainIndex = [r \in Folders |-> ScannedIndex(r, {})]
    /\ scratchIndex = [folder |-> NoFolder, index |-> EmptyIndex]
    /\ testSession = [root |-> NoFolder, test |-> FALSE, out |-> {}, pending |-> FALSE]
    /\ scanJob = NoJob /\ loadJob = NoJob /\ applyJob = NoJob
    /\ diffBox = NoFolder /\ astray = {}
    /\ adoptLeft = [scans |-> MaxIndexScans, loads |-> MaxIndexLoads]

EditFile(f) ==
    /\ onDisk[f] < MaxVersion
    /\ onDisk' = [onDisk EXCEPT ![f] = @ + 1]
    /\ UNCHANGED <<mainIndex, scratchIndex, testSession, scanJob, loadJob, applyJob, diffBox, astray, adoptLeft>>

-----------------------------------------------------------------------------
(* The session.                                                              *)

\* startScan: a load is waited for, an adoption is not.
StartIndexScan(r, test, out) ==
    /\ scanJob = NoJob /\ loadJob = NoJob /\ adoptLeft.scans > 0
    /\ adoptLeft' = [adoptLeft EXCEPT !.scans = @ - 1]
    /\ scanJob' = [folder |-> r, test |-> test, out |-> out]
    /\ testSession' = [root |-> r, test |-> test, out |-> out, pending |-> FALSE]
    /\ scratchIndex' = IF test THEN [folder |-> r, index |-> EmptyIndex] ELSE scratchIndex
    /\ applyJob' = IF applyJob = NoJob THEN NoJob ELSE [applyJob EXCEPT !.overtaken = TRUE]
    /\ UNCHANGED <<onDisk, mainIndex, loadJob, diffBox, astray>>

\* publishTestDiff: rows and pairs that differ, outside the scope nothing is
\* called removed.
Differs(main, scratch, out) ==
    \/ \E f \in IndexFiles : scratch.rows[f] # 0 /\ main.rows[f] # scratch.rows[f]
    \/ \E f \in IndexFiles \ out : main.rows[f] # 0 /\ scratch.rows[f] = 0
    \/ main.pairs # scratch.pairs

\* A completed scan.  A test scan is compared with the main index.
IndexScanEnds ==
    /\ scanJob # NoJob
    /\ scanJob' = NoJob
    /\ LET done == ScannedIndex(scanJob.folder, scanJob.out)
           differs == Differs(mainIndex[scanJob.folder], done, scanJob.out)
       IN  IF scanJob.test
           THEN /\ scratchIndex' = [scratchIndex EXCEPT !.index = done]
                /\ testSession' = [testSession EXCEPT !.pending = differs]
                /\ diffBox' = IF differs THEN scanJob.folder ELSE diffBox
                /\ UNCHANGED <<mainIndex, astray>>
           ELSE /\ mainIndex' = [mainIndex EXCEPT ![scanJob.folder] = done]
                /\ astray' = astray \ {scanJob.folder}
                /\ UNCHANGED <<scratchIndex, testSession, diffBox>>
    /\ UNCHANGED <<onDisk, loadJob, applyJob, adoptLeft>>

\* A cancelled one: some rows are new, the completeness of the pairs is gone.
IndexScanStops ==
    /\ scanJob # NoJob
    /\ scanJob' = NoJob
    /\ \E new \in SUBSET (FilesOf[scanJob.folder] \ scanJob.out) :
        LET Stopped(ix) == [ix EXCEPT !.baseline = FALSE,
                !.rows = [f \in IndexFiles |-> IF f \in new THEN onDisk[f] ELSE ix.rows[f]]]
        IN  IF scanJob.test
            THEN scratchIndex' = [scratchIndex EXCEPT !.index = Stopped(@)] /\ UNCHANGED mainIndex
            ELSE mainIndex' = [mainIndex EXCEPT ![scanJob.folder] = Stopped(@)] /\ UNCHANGED scratchIndex
    /\ UNCHANGED <<onDisk, testSession, loadJob, applyJob, diffBox, astray, adoptLeft>>

\* loadIndex, and runLoadIndex on its thread, which names the folder.
StartLoad(r) ==
    /\ loadJob = NoJob /\ scanJob = NoJob /\ adoptLeft.loads > 0
    /\ adoptLeft' = [adoptLeft EXCEPT !.loads = @ - 1]
    /\ loadJob' = [folder |-> r]
    /\ UNCHANGED <<onDisk, mainIndex, scratchIndex, testSession, scanJob, applyJob, diffBox, astray>>
LoadRuns ==
    /\ loadJob # NoJob
    /\ loadJob' = NoJob
    /\ testSession' = [testSession EXCEPT !.root = loadJob.folder]
    /\ UNCHANGED <<onDisk, mainIndex, scratchIndex, scanJob, applyJob, diffBox, astray, adoptLeft>>

-----------------------------------------------------------------------------
(* The question and the adoption.                                            *)

\* The user closes the box; yes asks for the adoption, which is refused while
\* something runs or nothing is pending.
AnswerBox(yes) ==
    /\ diffBox # NoFolder
    /\ diffBox' = NoFolder
    /\ applyJob' = IF /\ yes /\ scanJob = NoJob /\ loadJob = NoJob /\ applyJob = NoJob
                      /\ testSession.pending
                   THEN [folder |-> diffBox, overtaken |-> FALSE] ELSE applyJob
    /\ UNCHANGED <<onDisk, mainIndex, scratchIndex, testSession, scanJob, loadJob, astray, adoptLeft>>

\* A mutant: a pair that touches the scope is replaced.
AdoptedTouching(main, scratch, out) ==
    LET inside == {f \in IndexFiles \ out : main.rows[f] # 0 \/ scratch.rows[f] # 0}
    IN  [rows |-> [f \in IndexFiles |-> IF f \in inside THEN scratch.rows[f] ELSE main.rows[f]],
         pairs |-> {p \in main.pairs : p \cap inside = {}} \cup scratch.pairs,
         baseline |-> out = {} /\ (scratch.baseline \/ main.baseline)]

\* adoptIndexDatabase: what is in scope and gone is dropped with its pairs, the
\* pairs inside the scope are replaced, every row of the scratch is taken over.
\* The meta keys follow when the scope is the whole folder; else the baseline goes.
Adopted(main, scratch, out) ==
    LET removed == {f \in IndexFiles \ out : main.rows[f] # 0 /\ scratch.rows[f] = 0}
        scoped  == {f \in IndexFiles \ out : main.rows[f] # 0 \/ scratch.rows[f] # 0}
    IN  [rows |-> [f \in IndexFiles |-> IF f \in removed THEN 0
                        ELSE IF scratch.rows[f] # 0 THEN scratch.rows[f] ELSE main.rows[f]],
         pairs |-> {p \in main.pairs : p \cap removed = {} /\ ~(p \subseteq scoped)}
                   \cup scratch.pairs,
         baseline |-> out = {} /\ (scratch.baseline \/ main.baseline)]

ScratchOf(r) == IF scratchIndex.folder = r THEN scratchIndex.index ELSE EmptyIndex

\* runApplyTestResult: the folder and the scope are those the session has now.
\* One transaction: it is done, or fails and nothing is.
ApplyRuns ==
    /\ applyJob # NoJob
    /\ applyJob' = NoJob
    /\ \E ok \in BOOLEAN :
        IF ok /\ testSession.test
        THEN /\ mainIndex' = [mainIndex EXCEPT ![testSession.root] =
                                Adopted(@, ScratchOf(testSession.root), testSession.out)]
             /\ testSession' = [testSession EXCEPT !.pending = FALSE]
             /\ astray' = IF testSession.root # applyJob.folder \/ applyJob.overtaken
                          THEN astray \cup {testSession.root} ELSE astray
        ELSE UNCHANGED <<mainIndex, testSession, astray>>
    /\ UNCHANGED <<onDisk, scratchIndex, scanJob, loadJob, diffBox, adoptLeft>>

AdoptNext ==
    \/ \E f \in IndexFiles : EditFile(f)
    \/ \E r \in Folders, test \in BOOLEAN, out \in TestScopes :
            (test \/ out = {}) /\ StartIndexScan(r, test, out)
    \/ IndexScanEnds \/ IndexScanStops
    \/ \E r \in Folders : StartLoad(r)
    \/ LoadRuns \/ (\E yes \in BOOLEAN : AnswerBox(yes)) \/ ApplyRuns

AdoptSpec == AdoptInit /\ [][AdoptNext]_adoptVars

-----------------------------------------------------------------------------

\* The baseline tells the truth, whatever scopes, cancels and adoptions did: the
\* stored pairs are those of the stored rows.
MainBaselineTrue ==
    \A r \in Folders \ astray : mainIndex[r].baseline => mainIndex[r].pairs = AlikePairs(mainIndex[r].rows)

\* "Only in-scope rows are replaced, out-of-scope rows are preserved": an
\* adoption changes no row out of its scope, and loses no pair with a file out
\* of its scope unless the other file is gone.
AdoptInScope ==
    [][ApplyRuns => \A r \in Folders :
            /\ \A f \in testSession.out : mainIndex'[r].rows[f] = mainIndex[r].rows[f]
            /\ \A p \in mainIndex[r].pairs \ mainIndex'[r].pairs :
                    p \subseteq IndexFiles \ testSession.out \/ \E f \in p : mainIndex'[r].rows[f] = 0
            /\ mainIndex'[r] # mainIndex[r] => r = testSession.root]_adoptVars

\* "The main index is either updated for the completed test-scan scope or left
\* untouched": what is adopted is what the user was asked about.
AdoptedIsDiffed ==
    [][ApplyRuns => \A r \in Folders :
            mainIndex'[r] # mainIndex[r] => r = applyJob.folder]_adoptVars

\* The main index is what scans and adoptions made of it, and an adoption
\* stays within the scope of its test scan.
AdoptionTrue == []MainBaselineTrue /\ AdoptInScope
=================================================================================
