----------------------------- MODULE ScanIndexProofs -----------------------------
(***************************************************************************)
(* ScanIndex for every number of files, every order of events and every     *)
(* choice of settings, in five parts: the types with what a process that may *)
(* be killed at any step finds again; verdicts; pairs; the frontier; and the *)
(* baseline.  The first invariant, IInv, carries the others: each adds its   *)
(* own to it, and speaks of the behaviours its promise is made for.          *)
(***************************************************************************)
EXTENDS ScanIndex, FiniteSetTheorems, TLAPS

\* The engine's transaction is open from its BEGIN to its final commit; an
\* exception may leave it open until the handler closes the connection.
TxOpen  == pc \in {"walk", "drain", "finish"} => tx
TxScope == tx => pc \in {"walk", "drain", "finish", "unwind", "handler", "handlerSave"}

\* Files are analysed in that transaction only, none before the walk.
UnitInWalk == unit # "none" => pc \in {"walk", "drain"}
LoadFresh  == pc = "load" => batch = {} /\ range = {}

\* A file waits in the image batch or for its video range, not in both: when it
\* is settled it waits no more.
Kinds == batch \cap Videos = {} /\ range \subseteq Videos

Transactions == TxOpen /\ TxScope /\ UnitInWalk /\ LoadFresh /\ Kinds /\ TxDiscipline

\* The marker is set in what is durable and in what is going to be: neither a
\* commit nor a rollback can take it away.
Marked == pc \in UnderWay => db.dirty /\ view.dirty

\* The rows of the files that wait are skeletons for the connection, so that the
\* commit before their analysis makes the skeletons durable.
Skeletons ==
    pc \in {"walk", "drain"} => \A f \in batch \cup range : view.rows[f].state = "skeleton"

\* The inductive invariant.
IInv == TypeOK /\ Transactions /\ Marked /\ Skeletons /\ CrashFrontier

-----------------------------------------------------------------------------
(* What the operators return.                                                *)

\* The rows a scan writes are rows.
LEMMA RowTypes ==
    /\ NoRow \in Row
    /\ \A v \in Versions : Skeleton(v) \in Row
    /\ \A v \in 0..MaxVer : Failed(v) \in Row
    /\ \A v \in 0..MaxVer, u \in Versions : Indexed(v, u) \in Row
BY IndexAssumption DEF Row, NoRow, Skeleton, Failed, Indexed, Versions

\* So is what an analysis makes of a file, whether it succeeds, fails or finds the file gone.
LEMMA AnalysedType ==
    ASSUME view \in Index, disk \in [Files -> Versions], NEW f \in Files
    PROVE  Analysed(f) \in Row
<1>1. view.rows[f].ver \in 0..MaxVer
  BY DEF Index, Row
<1>2. disk[f] \in Versions
  OBVIOUS
<1> QED
  BY <1>1, <1>2, RowTypes DEF Analysed

\* The alike pairs among some files are matches.
LEMMA PairsType ==
    ASSUME NEW r \in [Files -> Row], NEW S \in SUBSET Files
    PROVE  PairsAmong(r, S) \subseteq Matches
<1> SUFFICES ASSUME NEW m \in PairsAmong(r, S) PROVE m \in Matches
  OBVIOUS
<1>1. PICK p \in S \X S : /\ HasFp(r, p[1]) /\ HasFp(r, p[2])
                          /\ m = Match(p[1], r[p[1]].fp, p[2], r[p[2]].fp)
  BY DEF PairsAmong
<1>2. p[1] \in Files /\ p[2] \in Files
  OBVIOUS
<1>3. ASSUME NEW f \in Files, HasFp(r, f) PROVE r[f].fp \in Versions
  <2>1. r[f] \in Row /\ r[f].fp # 0
    BY <1>3 DEF HasFp, Row
  <2>2. r[f].fp \in 0..MaxVer
    BY <2>1 DEF Row
  <2> QED
    BY <2>1, <2>2, IndexAssumption DEF Versions
<1> QED
  BY <1>1, <1>2, <1>3 DEF Matches

\* currentMatchSet returns matches.
LEMMA CurrentMatchSetType ==
    ASSUME stored \subseteq Matches, NEW E \in SUBSET Matches
    PROVE  CurrentMatchSet(E) \subseteq Matches
BY DEF CurrentMatchSet

\* The key of a frontier names files with their versions and fingerprints.
LEMMA FrontierKeyType ==
    ASSUME NEW r \in [Files -> Row]
    PROVE  FrontierKey(r) \in SUBSET (Files \X (0..MaxVer) \X (0..MaxVer))
BY DEF FrontierKey, InScope, Row

\* There are no more groups of images than files.
LEMMA GroupsType ==
    ASSUME NEW r PROVE Cardinality(ImageGroups(r)) \in 0..NFiles
<1>1. IsFiniteSet(Files) /\ Cardinality(Files) = NFiles
  <2>1. /\ IsFiniteSet(1..NFiles)
        /\ Cardinality(1..NFiles) = IF 1 > NFiles THEN 0 ELSE NFiles - 1 + 1
    <3>1. NFiles \in Int /\ 1 \in Int
      BY IndexAssumption
    <3> QED
      BY <3>1, FS_Interval
  <2>2. NFiles \in Nat
    BY IndexAssumption
  <2> QED
    BY <2>1, <2>2 DEF Files
<1>2. ImageGroups(r) \subseteq Files
  BY DEF ImageGroups, Images
<1>3. IsFiniteSet(ImageGroups(r)) /\ Cardinality(ImageGroups(r)) <= Cardinality(Files)
  BY <1>1, <1>2, FS_Subset
<1> QED
  BY <1>1, <1>3, FS_CardinalityType

-----------------------------------------------------------------------------
(* Types.                                                                    *)

DbType == db \in Index /\ view \in Index /\ tx \in BOOLEAN

\* An index stays one when one of its fields is given a value of that field.
LEMMA UpdateType ==
    ASSUME NEW v \in Index
    PROVE  /\ \A b \in BOOLEAN : [v EXCEPT !.dirty = b] \in Index
           /\ \A b \in BOOLEAN : [v EXCEPT !.baseline = b] \in Index
           /\ \A P \in SUBSET Matches : [v EXCEPT !.pairs = P] \in Index
           /\ \A r \in [Files -> Row], P \in SUBSET Matches :
                [v EXCEPT !.rows = r, !.pairs = P] \in Index
           /\ \A f \in Files, x \in Row : [v EXCEPT !.rows[f] = x] \in Index
BY DEF Index

\* So it does when a frontier is set or cleared.
LEMMA FrontierUpdateType ==
    ASSUME NEW v \in Index, NEW r \in [Files -> Row], NEW n \in 0..NFiles
    PROVE  /\ [v EXCEPT !.frontier = [files |-> FrontierKey(r), done |-> n]] \in Index
           /\ [v EXCEPT !.frontier = NoFrontier] \in Index
<1>1. [files |-> FrontierKey(r), done |-> n]
        \in [files : SUBSET (Files \X (0..MaxVer) \X (0..MaxVer)), done : 0..NFiles]
  BY FrontierKeyType
<1>2. NoFrontier
        \in [files : SUBSET (Files \X (0..MaxVer) \X (0..MaxVer)), done : 0..NFiles]
  BY IndexAssumption DEF NoFrontier
<1> QED
  BY <1>1, <1>2 DEF Index

\* So it does when files are forgotten.
LEMMA ForgetType ==
    ASSUME NEW v \in Index, NEW gone
    PROVE  Forgetting(v, gone) \in Index
<1> DEFINE r == [f \in Files |-> IF f \in gone THEN NoRow ELSE v.rows[f]]
           P == {m \in v.pairs : Key(m) \cap gone = {}}
<1>1. r \in [Files -> Row] /\ P \in SUBSET Matches
  BY RowTypes DEF Index
<1>2. [v EXCEPT !.rows = r, !.pairs = P] \in Index
  BY <1>1, UpdateType
<1> QED
  BY <1>2 DEF Forgetting

\* Forgetting files leaves the meta keys alone.
LEMMA ForgetKeeps ==
    ASSUME NEW v \in Index, NEW gone
    PROVE  Forgetting(v, gone).dirty = v.dirty
BY DEF Forgetting, Index

\* A write, committed or not, leaves both sides indices.
LEMMA WriteType ==
    ASSUME DbType, NEW v \in Index,
           Write(v) \/ WriteMayCommit(v) \/ WriteAndCommit(v)
    PROVE  DbType'
BY DEF DbType, Write, WriteMayCommit, WriteAndCommit

\* So does a save, which may fail.
LEMMA PersistType ==
    ASSUME TypeOK, NEW E \in SUBSET Matches, Persist(E) \/ MayPersist(E)
    PROVE  DbType'
<1>1. CurrentMatchSet(E) \in SUBSET Matches
  BY CurrentMatchSetType DEF TypeOK
<1>2. [view EXCEPT !.pairs = CurrentMatchSet(E)] \in Index
  BY <1>1, UpdateType DEF TypeOK
<1>3. CASE Persist(E)
  BY <1>2, <1>3, WriteType DEF Persist, TypeOK, DbType
<1>4. CASE UNCHANGED dbVars
  BY <1>4 DEF dbVars, TypeOK, DbType
<1> QED
  BY <1>3, <1>4 DEF MayPersist

\* So does the settling of a file, and what it emits are matches.
LEMMA SettleType ==
    ASSUME TypeOK, NEW f \in Files, Settle(f)
    PROVE  DbType' /\ emitted' \in SUBSET Matches
<1> DEFINE r == [view.rows EXCEPT ![f] = Analysed(f)]
<1>1. view \in Index /\ db \in Index /\ view.rows \in [Files -> Row] /\ emitted \in SUBSET Matches
  BY DEF TypeOK, Index
<1>2. r \in [Files -> Row]
  BY <1>1, AnalysedType DEF TypeOK
<1>3. LivePairs(r, f) \in SUBSET Matches
  <2>1. changed \in SUBSET Files
    BY DEF TypeOK
  <2>2. PairsAmong(r, changed) \subseteq Matches
    BY <1>2, <2>1, PairsType
  <2> QED
    BY <2>2 DEF LivePairs
<1> HIDE DEF r
<1>4. PICK E \in SUBSET LivePairs(r, f) :
         /\ emitted' = emitted \cup E
         /\ \E P \in {view.pairs} \cup {CurrentMatchSet(emitted \cup D) : D \in (SUBSET E) \ {{}}} :
              LET v == [view EXCEPT !.rows = r, !.pairs = P]
              IN  IF unit' = "none" THEN WriteMayCommit(v) ELSE Write(v)
  BY DEF Settle, r
<1>5. PICK P \in {view.pairs} \cup {CurrentMatchSet(emitted \cup D) : D \in (SUBSET E) \ {{}}} :
         LET v == [view EXCEPT !.rows = r, !.pairs = P]
         IN  IF unit' = "none" THEN WriteMayCommit(v) ELSE Write(v)
  BY <1>4
<1>6. P \in SUBSET Matches
  <2>1. view.pairs \in SUBSET Matches
    BY <1>1 DEF Index
  <2>2. ASSUME NEW D \in SUBSET E PROVE CurrentMatchSet(emitted \cup D) \in SUBSET Matches
    <3>1. emitted \cup D \in SUBSET Matches
      BY <1>1, <1>3
    <3> QED
      BY <3>1, CurrentMatchSetType DEF TypeOK
  <2> QED
    BY <1>5, <2>1, <2>2
<1>7. [view EXCEPT !.rows = r, !.pairs = P] \in Index
  BY <1>1, <1>2, <1>6, UpdateType
<1>8. DbType'
  BY <1>5, <1>7, WriteType DEF DbType, TypeOK
<1> QED
  BY <1>1, <1>3, <1>4, <1>8

\* What the final pass emits are matches.
LEMMA EmitType == TypeOK /\ EmitMatch => emitted' \in SUBSET Matches
<1> SUFFICES ASSUME TypeOK, EmitMatch PROVE emitted' \in SUBSET Matches
  OBVIOUS
<1>1. view.rows \in [Files -> Row] /\ emitted \in SUBSET Matches
  BY DEF TypeOK, Index
<1>2. PairsAmong(view.rows, ImageGroups(view.rows)) \subseteq Matches
  BY <1>1, PairsType DEF ImageGroups, Images
<1>3. PairsAmong(view.rows, InScope) \subseteq Matches
  BY <1>1, PairsType DEF InScope
<1> QED
  BY <1>1, <1>2, <1>3 DEF EmitMatch, SliceTodo, PassTodo

\* Each step keeps the types of the index.
LEMMA StepDbType == TypeOK /\ [Next]_vars => DbType'
<1> SUFFICES ASSUME TypeOK, [Next]_vars PROVE DbType'
  OBVIOUS
<1>1. DbType /\ view.rows \in [Files -> Row] /\ emitted \in SUBSET Matches /\ slice \in 0..NFiles
  BY DEF TypeOK, DbType, Index
<1>2. view \in Index
  BY DEF TypeOK
<1>3. CASE StartScan \/ SettledExit \/ Unwind
  <2>1. \A b \in BOOLEAN : [view EXCEPT !.dirty = b] \in Index
    BY <1>2, UpdateType
  <2> QED
    BY <1>1, <1>3, <2>1, WriteType DEF StartScan, SettledExit, Unwind
<1>4. CASE StampBaseline \/ Invalidate \/ HandlerInvalidates
  <2>1. \A b \in BOOLEAN : [view EXCEPT !.baseline = b] \in Index
    BY <1>2, UpdateType
  <2> QED
    BY <1>1, <1>2, <1>4, <2>1, WriteType DEF StampBaseline, Invalidate, HandlerInvalidates
<1>5. CASE QuickLoad
  BY <1>2, <1>5, ForgetType DEF QuickLoad, DbType
<1>6. CASE FinishWalk
  BY <1>2, <1>6, ForgetType DEF FinishWalk, DbType
<1>7. CASE AdmitFile
  <2>1. at \in Files /\ disk[at] \in Versions
    BY <1>7 DEF AdmitFile, TypeOK, InScope
  <2>2. [view EXCEPT !.rows[at] = Skeleton(disk[at])] \in Index
    BY <1>2, <2>1, UpdateType, RowTypes
  <2> QED
    BY <1>1, <1>7, <2>2, WriteType DEF AdmitFile
<1>8. CASE SkipFile \/ DrainImages \/ DrainVideos
  BY <1>1, <1>2, <1>8, WriteType DEF SkipFile, DrainImages, DrainVideos
<1>9. CASE SettleImage
  <2>1. PICK f \in batch : Settle(f)
    BY <1>9 DEF SettleImage
  <2> QED
    BY <2>1, SettleType DEF TypeOK
<1>10. CASE HarvestVideo
  <2>1. PICK f \in range : Settle(f) \/ Write(view)
    BY <1>10 DEF HarvestVideo
  <2> QED
    BY <1>1, <1>2, <2>1, SettleType, WriteType DEF TypeOK
<1>11. CASE DbFails \/ Throw \/ Kill
  BY <1>1, <1>11 DEF DbFails, Throw, Kill, Rollback, DbType, dbVars
<1>12. CASE EmitMatch
  BY <1>12, EmitType, PersistType DEF EmitMatch
<1>13. CASE EndSlice \/ FinalPersist
  BY <1>1, <1>13, PersistType DEF EndSlice, FinalPersist, dbVars, DbType
<1>14. CASE MarkSlice \/ ClearFrontier
  <2>1. /\ [view EXCEPT !.frontier = [files |-> FrontierKey(view.rows), done |-> slice]] \in Index
        /\ [view EXCEPT !.frontier = NoFrontier] \in Index
    BY <1>1, <1>2, FrontierUpdateType
  <2> QED
    BY <1>1, <1>2, <1>14, <2>1, WriteType DEF MarkSlice, ClearFrontier
<1>15. CASE HandlerSaves
  <2>1. CurrentMatchSet(emitted) \in SUBSET Matches
    BY <1>1, CurrentMatchSetType DEF TypeOK
  <2>2. [view EXCEPT !.pairs = CurrentMatchSet(emitted)] \in Index
    BY <1>2, <2>1, UpdateType
  <2> QED
    BY <1>1, <1>15, <2>2 DEF HandlerSaves, DbType
<1>16. CASE \/ OpenFails \/ WalkEnds \/ Drained \/ EndSlices \/ EndPass \/ Report
            \/ RequestStop \/ DiskChanges \/ UNCHANGED vars
  BY <1>1, <1>16 DEF OpenFails, WalkEnds, Drained, EndSlices, EndPass, Report, RequestStop,
                     DiskChanges, vars, dbVars, DbType
<1> QED
  BY <1>3, <1>4, <1>5, <1>6, <1>7, <1>8, <1>9, <1>10, <1>11, <1>12, <1>13, <1>14, <1>15, <1>16
     DEF Next, Done

\* The rest of the type invariant.
RestType ==
    /\ setting \in Settings
    /\ disk \in [Files -> Versions] /\ present \subseteq setting.folder
    /\ pc \in {"idle", "handler", "handlerSave"} \cup UnderWay
    /\ mode \in setting.modes /\ scope \in setting.scopes
    /\ {full, cancel, walkCompleted, completed} \subseteq BOOLEAN
    /\ {stored, emitted} \subseteq SUBSET Matches
    /\ {changed, seen, batch, range} \subseteq SUBSET Files
    /\ at \in 1..(NFiles + 1) /\ slice \in 0..NFiles
    /\ unit \in {"none", "images", "videos"}
    /\ edits \in 0..setting.edits /\ scans \in 0..MaxScans /\ kills \in 0..MaxKills

\* The fields of a setting.
LEMMA SettingType ==
    ASSUME setting \in Settings
    PROVE  /\ setting.folder \subseteq Files /\ setting.modes \subseteq Modes
           /\ setting.scopes \subseteq Scopes /\ setting.edits \in Nat
BY IndexAssumption DEF Setting

\* The types are those of the index and those of the scan.
LEMMA TypeParts == TypeOK <=> DbType /\ RestType
BY DEF TypeOK, DbType, RestType

\* A scan begins with values of the right types.
LEMMA FreshType == FreshWorker => /\ {cancel', walkCompleted', completed'} \subseteq BOOLEAN
                                  /\ {stored', emitted'} \subseteq SUBSET Matches
                                  /\ {changed', seen', batch', range'} \subseteq SUBSET Files
                                  /\ at' \in 1..(NFiles + 1) /\ slice' \in 0..NFiles
                                  /\ unit' \in {"none", "images", "videos"}
<1> SUFFICES ASSUME FreshWorker PROVE /\ {cancel', walkCompleted', completed'} \subseteq BOOLEAN
                                      /\ {stored', emitted'} \subseteq SUBSET Matches
                                      /\ {changed', seen', batch', range'} \subseteq SUBSET Files
                                      /\ at' \in 1..(NFiles + 1) /\ slice' \in 0..NFiles
                                      /\ unit' \in {"none", "images", "videos"}
  OBVIOUS
<1>1. cancel' = FALSE /\ walkCompleted' = FALSE /\ completed' = TRUE
  BY DEF FreshWorker
<1>2. /\ stored' = {} /\ emitted' = {} /\ changed' = {} /\ seen' = {} /\ batch' = {} /\ range' = {}
      /\ at' = 1 /\ slice' = 0 /\ unit' = "none"
  BY DEF FreshWorker
<1>3. NFiles \in Nat
  BY IndexAssumption
<1>4. {cancel', walkCompleted', completed'} \subseteq BOOLEAN
  BY <1>1
<1>5. /\ {stored', emitted'} \subseteq SUBSET Matches
      /\ {changed', seen', batch', range'} \subseteq SUBSET Files
  BY <1>2
<1>6. at' \in 1..(NFiles + 1) /\ slice' \in 0..NFiles /\ unit' \in {"none", "images", "videos"}
  BY <1>2, <1>3
<1> QED
  BY <1>4, <1>5, <1>6

\* Each step keeps the types of the scan.
LEMMA StepRestType == TypeOK /\ [Next]_vars => RestType'
<1> SUFFICES ASSUME TypeOK, [Next]_vars PROVE RestType'
  OBVIOUS
<1> USE DEF RestType, UnderWay,
            vars, diskVars, dbVars, control, found, walkVars, verdicts, budgets
<1>0. /\ TypeOK /\ DbType /\ RestType
      /\ NFiles \in Nat /\ MaxVer \in Nat /\ MaxScans \in Nat
      /\ setting.edits \in Nat /\ MaxKills \in Nat /\ setting.folder \subseteq Files
  BY TypeParts, IndexAssumption, SettingType DEF TypeOK
<1>1. CASE StartScan
  <2>1. scans' \in 0..MaxScans
    BY <1>1, <1>0 DEF StartScan
  <2>2. full' \in BOOLEAN
    BY <1>1, <1>0 DEF StartScan
  <2> QED
    BY <1>1, <1>0, <2>1, <2>2, FreshType DEF StartScan, GoTo, diskVars
<1>2. CASE OpenFails
  <2>1. scans' \in 0..MaxScans
    BY <1>2, <1>0 DEF OpenFails
  <2>2. full' \in BOOLEAN
    BY <1>2, <1>0 DEF OpenFails
  <2> QED
    BY <1>2, <1>0, <2>1, <2>2, FreshType DEF OpenFails, GoTo, diskVars
<1>3. CASE QuickLoad
  <2>1. stored' \in SUBSET Matches
    <3>1. stored' = view'.pairs
      BY <1>3 DEF QuickLoad
    <3>2. view'.pairs \in SUBSET Matches
      BY StepDbType DEF DbType, Index
    <3> QED
      BY <3>1, <3>2
  <2> QED
    BY <1>3, <1>0, <2>1 DEF QuickLoad, GoTo
<1>a. ASSUME NextFile PROVE at \in Files /\ at' \in 1..(NFiles + 1)
  <2>1. at \in 1..(NFiles + 1)
    BY <1>0
  <2> QED
    BY <1>0, <1>a, <2>1 DEF NextFile, Files
<1>4. CASE SkipFile
  <2>1. at' \in 1..(NFiles + 1) /\ seen' \subseteq Files
    <3>1. NextFile /\ seen' \in {seen, seen \cup {at}}
      BY <1>4 DEF SkipFile
    <3> QED
      BY <1>0, <1>a, <3>1
  <2>2. UNCHANGED <<diskVars, pc, control, found, batch, range, unit, verdicts, budgets>>
    BY <1>4 DEF SkipFile
  <2> QED
    BY <1>0, <2>1, <2>2
<1>5. CASE AdmitFile
  <2>1. NextFile /\ at \in Files /\ at' \in 1..(NFiles + 1)
    BY <1>5, <1>a DEF AdmitFile
  <2>2. {changed', seen', batch', range'} \subseteq SUBSET Files
    <3>1. /\ changed' = changed \cup {at} /\ seen' = seen \cup {at}
          /\ batch' \in {batch, batch \cup {at}} /\ range' \in {range, range \cup {at}}
      BY <1>5 DEF AdmitFile
    <3> QED
      BY <1>0, <2>1, <3>1
  <2>3. unit' \in {"none", "images", "videos"}
    BY <1>5 DEF AdmitFile
  <2>4. UNCHANGED <<diskVars, pc, control, stored, emitted, verdicts, budgets>>
    BY <1>5 DEF AdmitFile
  <2> QED
    BY <1>0, <2>1, <2>2, <2>3, <2>4
<1>6. CASE WalkEnds
  BY <1>6, TypeParts, IndexAssumption DEF WalkEnds, GoTo
<1>7. CASE DrainImages
  BY <1>7, TypeParts, IndexAssumption DEF DrainImages, WriteAndCommit
<1>8. CASE DrainVideos
  BY <1>8, TypeParts, IndexAssumption DEF DrainVideos, WriteAndCommit
<1>9. CASE Drained
  BY <1>9, TypeParts, IndexAssumption DEF Drained, GoTo
<1>10. CASE SettleImage
  <2>1. PICK f \in batch : batch' = batch \ {f} /\ unit' \in {"none", unit} /\ Settle(f)
    BY <1>10 DEF SettleImage
  <2>2. emitted' \in SUBSET Matches
    BY <1>0, <2>1, SettleType
  <2> QED
    BY <1>10, <1>0, <2>1, <2>2 DEF SettleImage
<1>11. CASE HarvestVideo
  <2>1. PICK f \in range : /\ range' = range \ {f} /\ unit' \in {"none", unit}
                           /\ Settle(f) \/ UNCHANGED emitted
    BY <1>11 DEF HarvestVideo
  <2>2. emitted' \in SUBSET Matches
    BY <1>0, <2>1, SettleType
  <2>3. pc' \in {"drain", pc}
    BY <1>11 DEF HarvestVideo, GoTo
  <2> QED
    BY <1>11, <1>0, <2>1, <2>2, <2>3 DEF HarvestVideo
<1>12. CASE FinishWalk
  <2>1. slice' \in 0..NFiles
    <3>1. slice' \in {0, view'.frontier.done}
      BY <1>12 DEF FinishWalk
    <3>2. view'.frontier.done \in 0..NFiles
      BY StepDbType DEF DbType, Index
    <3> QED
      BY <1>0, <3>1, <3>2
  <2> QED
    BY <1>12, <1>0, <2>1 DEF FinishWalk, GoTo
<1>13. CASE DbFails
  BY <1>13, TypeParts, IndexAssumption DEF DbFails, Rollback, GoTo
<1>14. CASE EmitMatch
  <2>1. emitted' \in SUBSET Matches
    BY <1>14, EmitType
  <2> QED
    BY <1>14, <1>0, <2>1 DEF EmitMatch
<1>15. CASE EndSlice
  <2>1. slice' \in 0..NFiles
    <3>1. Cardinality(ImageGroups(view.rows)) \in 0..NFiles
      BY GroupsType
    <3>2. SliceFiles \in Nat
      BY IndexAssumption
    <3>3. \/ slice' = Cardinality(ImageGroups(view.rows))
          \/ slice' = slice + SliceFiles /\ slice' < Cardinality(ImageGroups(view.rows))
      BY <1>15 DEF EndSlice
    <3> QED
      BY <1>0, <3>1, <3>2, <3>3
  <2> QED
    BY <1>15, <1>0, <2>1 DEF EndSlice, GoTo
<1>16. CASE MarkSlice
  BY <1>16, TypeParts, IndexAssumption DEF MarkSlice, Write, GoTo
<1>17. CASE EndSlices
  BY <1>17, TypeParts, IndexAssumption DEF EndSlices, GoTo
<1>18. CASE EndPass
  BY <1>18, TypeParts, IndexAssumption DEF EndPass, GoTo
<1>19. CASE ClearFrontier
  BY <1>19, TypeParts, IndexAssumption DEF ClearFrontier, Write, GoTo, NoFrontier
<1>20. CASE StampBaseline
  BY <1>20, TypeParts, IndexAssumption DEF StampBaseline, Write, GoTo
<1>21. CASE FinalPersist
  BY <1>21, TypeParts, IndexAssumption DEF FinalPersist, Persist, Write, GoTo
<1>22. CASE Report
  BY <1>22, TypeParts, IndexAssumption DEF Report, GoTo
<1>23. CASE Invalidate
  BY <1>23, TypeParts, IndexAssumption DEF Invalidate, Write, GoTo
<1>24. CASE SettledExit
  BY <1>24, TypeParts, IndexAssumption DEF SettledExit, Write, GoTo
<1>25. CASE Throw
  BY <1>25, TypeParts, IndexAssumption DEF Throw, Rollback, GoTo
<1>26. CASE Unwind
  BY <1>26, TypeParts, IndexAssumption DEF Unwind, Write, GoTo
<1>27. CASE HandlerInvalidates
  BY <1>27, TypeParts, IndexAssumption DEF HandlerInvalidates, Write, GoTo
<1>28. CASE HandlerSaves
  BY <1>28, TypeParts, IndexAssumption DEF HandlerSaves, GoTo
<1>29. CASE RequestStop
  BY <1>29, TypeParts, IndexAssumption DEF RequestStop
<1>30. CASE Kill
  <2>1. kills' \in 0..MaxKills
    BY <1>30, <1>0 DEF Kill
  <2>2. full' \in BOOLEAN
    BY <1>30, <1>0 DEF Kill
  <2> QED
    BY <1>30, <1>0, <2>1, <2>2, FreshType DEF Kill, GoTo, diskVars
<1>31. CASE DiskChanges
  <2>1. edits' \in 0..setting.edits
    BY <1>31, <1>0 DEF DiskChanges
  <2>2. disk' \in [Files -> Versions] /\ present' \subseteq setting.folder
    <3>1. PICK f \in Files : Edit(f) \/ Delete(f) \/ Return(f)
      BY <1>31 DEF DiskChanges
    <3>2. disk[f] < MaxVer => disk[f] + 1 \in Versions
      BY <1>0 DEF Versions
    <3> QED
      BY <1>0, <3>1, <3>2 DEF Edit, Delete, Return
  <2> QED
    BY <1>31, <1>0, <2>1, <2>2 DEF DiskChanges
<1>32. CASE UNCHANGED vars
  BY <1>32, TypeParts
<1>. QED
  BY <1>1, <1>2, <1>3, <1>4, <1>5, <1>6, <1>7, <1>8, <1>9, <1>10, <1>11, <1>12, <1>13, <1>14,
     <1>15, <1>16, <1>17, <1>18, <1>19, <1>20, <1>21, <1>22, <1>23, <1>24, <1>25, <1>26, <1>27,
     <1>28, <1>29, <1>30, <1>31, <1>32 DEF Next, Done

\* Each step keeps the types.
LEMMA StepType == TypeOK /\ [Next]_vars => TypeOK'
<1> SUFFICES ASSUME TypeOK, [Next]_vars PROVE DbType' /\ RestType'
  BY DEF TypeOK, DbType, RestType
<1> QED
  BY StepDbType, StepRestType

-----------------------------------------------------------------------------
(* What one result of an analysis changes: inside the transaction, only its  *)
(* row and the pairs of the connection's view.                               *)

\* Settling a file touches the row of no other file and not the marker, and leaves the transaction
\* open; it commits at the end of its batch or range at most.
LEMMA SettleWrites ==
    ASSUME TypeOK, tx, NEW f \in Files, Settle(f)
    PROVE  /\ tx' = tx
           /\ view'.dirty = view.dirty
           /\ \A g \in Files \ {f} : view'.rows[g] = view.rows[g]
           /\ db' \in {db, view'}
           /\ unit' # "none" => db' = db
<1>1. PICK r, P :
         /\ r \in [Files -> Row]
         /\ \A g \in Files \ {f} : r[g] = view.rows[g]
         /\ LET v == [view EXCEPT !.rows = r, !.pairs = P]
            IN  IF unit' = "none" THEN WriteMayCommit(v) ELSE Write(v)
  <2> DEFINE r == [view.rows EXCEPT ![f] = Analysed(f)]
  <2>1. r \in [Files -> Row] /\ \A g \in Files \ {f} : r[g] = view.rows[g]
    BY AnalysedType DEF TypeOK, Index
  <2>2. \E P : LET v == [view EXCEPT !.rows = r, !.pairs = P]
               IN  IF unit' = "none" THEN WriteMayCommit(v) ELSE Write(v)
    BY DEF Settle
  <2> QED
    BY <2>1, <2>2
<1> DEFINE v == [view EXCEPT !.rows = r, !.pairs = P]
<1>2. v.rows = r /\ v.dirty = view.dirty
  BY DEF TypeOK, Index
<1>3. view' = v /\ tx' = tx /\ db' \in {db, v} /\ (unit' # "none" => db' = db)
  BY <1>1 DEF Write, WriteMayCommit
<1> QED
  BY <1>1, <1>2, <1>3

-----------------------------------------------------------------------------
(* The induction step.                                                       *)

\* Each step keeps the transaction where the location says it is.
LEMMA StepTransactions == IInv /\ [Next]_vars => Transactions'
<1> SUFFICES ASSUME IInv, [Next]_vars PROVE Transactions'
  OBVIOUS
<1> USE DEF IInv, Transactions, TxOpen, TxScope, UnitInWalk, LoadFresh, Kinds, TxDiscipline,
            vars, diskVars, dbVars, control, found, walkVars, verdicts, budgets
<1>1. CASE StartScan
  BY <1>1 DEF StartScan, GoTo, FreshWorker, Write, FullPassDue
<1>2. CASE OpenFails
  BY <1>2 DEF OpenFails, GoTo, FreshWorker
<1>3. CASE QuickLoad
  BY <1>3 DEF QuickLoad, GoTo
<1>4. CASE SkipFile
  BY <1>4 DEF SkipFile, NextFile, WriteMayCommit
<1>5. CASE AdmitFile
  BY <1>5 DEF AdmitFile, NextFile, WriteMayCommit, WriteAndCommit, Skeleton
<1>6. CASE WalkEnds
  BY <1>6 DEF WalkEnds, GoTo
<1>7. CASE DrainImages
  BY <1>7 DEF DrainImages, WriteAndCommit
<1>8. CASE DrainVideos
  BY <1>8 DEF DrainVideos, WriteAndCommit
<1>9. CASE Drained
  BY <1>9 DEF Drained, GoTo
<1>10. CASE SettleImage
  <2>1. PICK f \in batch : /\ batch' = batch \ {f} /\ Settle(f)
                           /\ unit' = IF batch' = {} THEN "none" ELSE unit
    BY <1>10 DEF SettleImage
  <2>2. f \in Files /\ tx
    BY <1>10, <2>1 DEF SettleImage, TypeOK
  <2> QED
    BY <1>10, <2>1, <2>2, SettleWrites DEF SettleImage
<1>11. CASE HarvestVideo
  <2>1. PICK f \in range : /\ range' = range \ {f}
                           /\ Settle(f) \/ Write(view)
                           /\ unit' = IF range' = {} THEN "none" ELSE unit
    BY <1>11 DEF HarvestVideo
  <2>2. f \in Files /\ tx
    BY <1>11, <2>1 DEF HarvestVideo, TypeOK
  <2>3. pc' \in {"drain", pc}
    BY <1>11 DEF HarvestVideo, GoTo
  <2>4. tx' = tx
    BY <2>1, <2>2, SettleWrites DEF Write
  <2> QED
    BY <1>11, <2>1, <2>2, <2>3, <2>4 DEF HarvestVideo, Write
<1>12. CASE FinishWalk
  BY <1>12 DEF FinishWalk, GoTo
<1>13. CASE DbFails
  BY <1>13 DEF DbFails, Rollback, GoTo
<1>14. CASE EmitMatch
  BY <1>14 DEF EmitMatch, MayPersist, Persist, Write
<1>15. CASE EndSlice
  BY <1>15 DEF EndSlice, Persist, Write, GoTo
<1>16. CASE MarkSlice
  BY <1>16 DEF MarkSlice, Write, GoTo
<1>17. CASE EndSlices
  BY <1>17 DEF EndSlices, GoTo
<1>18. CASE EndPass
  BY <1>18 DEF EndPass, GoTo
<1>19. CASE ClearFrontier
  BY <1>19 DEF ClearFrontier, Write, GoTo, NoFrontier
<1>20. CASE StampBaseline
  BY <1>20 DEF StampBaseline, Write, GoTo
<1>21. CASE FinalPersist
  BY <1>21 DEF FinalPersist, Persist, Write, GoTo
<1>22. CASE Report
  BY <1>22 DEF Report, GoTo
<1>23. CASE Invalidate
  BY <1>23 DEF Invalidate, Write, GoTo
<1>24. CASE SettledExit
  BY <1>24 DEF SettledExit, Write, GoTo
<1>25. CASE Throw
  BY <1>25 DEF Throw, Rollback, GoTo
<1>26. CASE Unwind
  BY <1>26 DEF Unwind, Write, GoTo
<1>27. CASE HandlerInvalidates
  BY <1>27 DEF HandlerInvalidates, Write, GoTo
<1>28. CASE HandlerSaves
  BY <1>28 DEF HandlerSaves, GoTo
<1>29. CASE RequestStop
  BY <1>29 DEF RequestStop
<1>30. CASE Kill
  BY <1>30 DEF Kill, Rollback, FreshWorker, GoTo
<1>31. CASE DiskChanges
  BY <1>31 DEF DiskChanges, Edit, Delete, Return
<1>32. CASE UNCHANGED vars
  BY <1>32
<1>. QED
  BY <1>1, <1>2, <1>3, <1>4, <1>5, <1>6, <1>7, <1>8, <1>9, <1>10, <1>11, <1>12, <1>13, <1>14,
     <1>15, <1>16, <1>17, <1>18, <1>19, <1>20, <1>21, <1>22, <1>23, <1>24, <1>25, <1>26, <1>27,
     <1>28, <1>29, <1>30, <1>31, <1>32 DEF Next, Done

\* Each step keeps the marker, durable and seen.
LEMMA StepMarked == IInv /\ [Next]_vars => Marked'
<1> SUFFICES ASSUME IInv, [Next]_vars PROVE Marked'
  OBVIOUS
<1> USE DEF IInv, Transactions, TxOpen, TxScope, UnitInWalk, TxDiscipline, Marked, UnderWay,
            TypeOK, Index, vars, diskVars, dbVars, control, found, walkVars, verdicts, budgets
<1>1. CASE StartScan
  <2>1. view'.dirty
    BY <1>1 DEF StartScan, Write
  <2>2. ~tx => db' = view'
    BY <1>1 DEF StartScan, Write
  <2> QED
    BY <1>1, <2>1, <2>2 DEF StartScan
<1>2. CASE OpenFails
  BY <1>2 DEF OpenFails, GoTo, FreshWorker
<1>3. CASE QuickLoad
  BY <1>3, ForgetKeeps DEF QuickLoad, GoTo, TypeOK
<1>4. CASE SkipFile
  BY <1>4 DEF SkipFile, NextFile, WriteMayCommit
<1>5. CASE AdmitFile
  BY <1>5 DEF AdmitFile, NextFile, WriteMayCommit, WriteAndCommit, Skeleton
<1>6. CASE WalkEnds
  BY <1>6 DEF WalkEnds, GoTo
<1>7. CASE DrainImages
  BY <1>7 DEF DrainImages, WriteAndCommit
<1>8. CASE DrainVideos
  BY <1>8 DEF DrainVideos, WriteAndCommit
<1>9. CASE Drained
  BY <1>9 DEF Drained, GoTo
<1>10. CASE SettleImage
  <2>1. PICK f \in batch : /\ batch' = batch \ {f} /\ Settle(f)
                           /\ unit' = IF batch' = {} THEN "none" ELSE unit
    BY <1>10 DEF SettleImage
  <2>2. f \in Files /\ tx
    BY <1>10, <2>1 DEF SettleImage, TypeOK
  <2> QED
    BY <1>10, <2>1, <2>2, SettleWrites DEF SettleImage
<1>11. CASE HarvestVideo
  <2>1. PICK f \in range : /\ range' = range \ {f}
                           /\ Settle(f) \/ Write(view)
                           /\ unit' = IF range' = {} THEN "none" ELSE unit
    BY <1>11 DEF HarvestVideo
  <2>2. f \in Files /\ tx
    BY <1>11, <2>1 DEF HarvestVideo, TypeOK
  <2>3. pc' \in {"drain", pc}
    BY <1>11 DEF HarvestVideo, GoTo
  <2>4. view'.dirty = view.dirty /\ db' \in {db, view'}
    BY <2>1, <2>2, SettleWrites DEF Write
  <2> QED
    BY <1>11, <2>1, <2>2, <2>3, <2>4 DEF HarvestVideo
<1>12. CASE FinishWalk
  BY <1>12, ForgetKeeps DEF FinishWalk, GoTo, TypeOK
<1>13. CASE DbFails
  BY <1>13 DEF DbFails, Rollback, GoTo
<1>14. CASE EmitMatch
  BY <1>14 DEF EmitMatch, MayPersist, Persist, Write
<1>15. CASE EndSlice
  BY <1>15 DEF EndSlice, Persist, Write, GoTo
<1>16. CASE MarkSlice
  BY <1>16 DEF MarkSlice, Write, GoTo
<1>17. CASE EndSlices
  BY <1>17 DEF EndSlices, GoTo
<1>18. CASE EndPass
  BY <1>18 DEF EndPass, GoTo
<1>19. CASE ClearFrontier
  BY <1>19 DEF ClearFrontier, Write, GoTo, NoFrontier
<1>20. CASE StampBaseline
  BY <1>20 DEF StampBaseline, Write, GoTo
<1>21. CASE FinalPersist
  BY <1>21 DEF FinalPersist, Persist, Write, GoTo
<1>22. CASE Report
  BY <1>22 DEF Report, GoTo
<1>23. CASE Invalidate
  BY <1>23 DEF Invalidate, Write, GoTo
<1>24. CASE SettledExit
  BY <1>24 DEF SettledExit, Write, GoTo
<1>25. CASE Throw
  BY <1>25 DEF Throw, Rollback, GoTo
<1>26. CASE Unwind
  BY <1>26 DEF Unwind, Write, GoTo
<1>27. CASE HandlerInvalidates
  BY <1>27 DEF HandlerInvalidates, Write, GoTo
<1>28. CASE HandlerSaves
  BY <1>28 DEF HandlerSaves, GoTo
<1>29. CASE RequestStop
  BY <1>29 DEF RequestStop
<1>30. CASE Kill
  BY <1>30 DEF Kill, Rollback, FreshWorker, GoTo
<1>31. CASE DiskChanges
  BY <1>31 DEF DiskChanges, Edit, Delete, Return
<1>32. CASE UNCHANGED vars
  BY <1>32
<1>. QED
  BY <1>1, <1>2, <1>3, <1>4, <1>5, <1>6, <1>7, <1>8, <1>9, <1>10, <1>11, <1>12, <1>13, <1>14,
     <1>15, <1>16, <1>17, <1>18, <1>19, <1>20, <1>21, <1>22, <1>23, <1>24, <1>25, <1>26, <1>27,
     <1>28, <1>29, <1>30, <1>31, <1>32 DEF Next, Done

\* Each step keeps the skeletons of what waits for its analysis, and makes them durable before the
\* analysis begins.
LEMMA StepSkeletons == IInv /\ [Next]_vars => Skeletons' /\ CrashFrontier'
<1> SUFFICES ASSUME IInv, [Next]_vars PROVE (Skeletons /\ CrashFrontier)'
  OBVIOUS
<1> USE DEF IInv, Transactions, TxOpen, TxScope, UnitInWalk, TxDiscipline, LoadFresh, Kinds,
            Skeletons, CrashFrontier,
            vars, diskVars, dbVars, control, found, walkVars, verdicts, budgets
<1>1. CASE StartScan
  BY <1>1 DEF StartScan, GoTo, FreshWorker, Write, FullPassDue
<1>2. CASE OpenFails
  BY <1>2 DEF OpenFails, GoTo, FreshWorker
<1>3. CASE QuickLoad
  BY <1>3 DEF QuickLoad, GoTo
<1>4. CASE SkipFile
  BY <1>4 DEF SkipFile, NextFile, WriteMayCommit
<1>5. CASE AdmitFile
  <2>1. at \in Files /\ view'.rows = [view.rows EXCEPT ![at] = Skeleton(disk[at])]
        /\ view.rows \in [Files -> Row]
    BY <1>5 DEF AdmitFile, TypeOK, Index, InScope, WriteMayCommit, WriteAndCommit
  <2>2. \A g \in Files : view'.rows[g] = IF g = at THEN Skeleton(disk[at]) ELSE view.rows[g]
    BY <2>1
  <2>3. batch' \cup range' = batch \cup range \cup {at} /\ batch \cup range \subseteq Files
    BY <1>5 DEF AdmitFile, TypeOK
  <2>4. \A g \in batch' \cup range' : view'.rows[g].state = "skeleton"
    BY <1>5, <2>1, <2>2, <2>3 DEF AdmitFile, NextFile, Skeleton
  <2>5. unit' # "none" => db' = view'
    BY <1>5 DEF AdmitFile, WriteAndCommit
  <2> QED
    BY <2>4, <2>5
<1>6. CASE WalkEnds
  BY <1>6 DEF WalkEnds, GoTo
<1>7. CASE DrainImages
  BY <1>7 DEF DrainImages, WriteAndCommit
<1>8. CASE DrainVideos
  BY <1>8 DEF DrainVideos, WriteAndCommit
<1>9. CASE Drained
  BY <1>9 DEF Drained, GoTo
<1>10. CASE SettleImage
  <2>1. PICK f \in batch : /\ batch' = batch \ {f} /\ Settle(f)
                           /\ unit' = IF batch' = {} THEN "none" ELSE unit
    BY <1>10 DEF SettleImage
  <2>2. f \in Files /\ tx
    BY <1>10, <2>1 DEF SettleImage, TypeOK
  <2>3. \A g \in Files \ {f} : view'.rows[g] = view.rows[g]
    BY <2>1, <2>2, SettleWrites
  <2>4. unit' # "none" => db' = db
    BY <2>1, <2>2, SettleWrites
  <2>5. batch' \cup range' = (batch \cup range) \ {f} /\ batch \cup range \subseteq Files
    BY <1>10, <2>1 DEF SettleImage, TypeOK
  <2>6. unit # "none" /\ pc \in {"walk", "drain"}
    BY <1>10 DEF SettleImage
  <2> QED
    BY <2>1, <2>3, <2>4, <2>5, <2>6
<1>11. CASE HarvestVideo
  <2>1. PICK f \in range : /\ range' = range \ {f}
                           /\ Settle(f) \/ Write(view)
                           /\ unit' = IF range' = {} THEN "none" ELSE unit
    BY <1>11 DEF HarvestVideo
  <2>2. f \in Files /\ tx
    BY <1>11, <2>1 DEF HarvestVideo, TypeOK
  <2>3. pc' \in {"drain", pc}
    BY <1>11 DEF HarvestVideo, GoTo
  <2>4. \A g \in Files \ {f} : view'.rows[g] = view.rows[g]
    BY <2>1, <2>2, SettleWrites DEF Write
  <2>5. unit' # "none" => db' = db
    BY <2>1, <2>2, SettleWrites DEF Write
  <2>6. batch' \cup range' = (batch \cup range) \ {f} /\ batch \cup range \subseteq Files
    <3>1. batch' = batch
      BY <1>11 DEF HarvestVideo
    <3>2. batch \cup range \subseteq Files /\ batch \cap range = {}
      BY DEF TypeOK
    <3>3. range' = range \ {f}
      BY <2>1
    <3> QED
      BY <3>1, <3>2, <3>3
  <2>7. unit # "none" /\ pc \in {"walk", "drain"}
    BY <1>11 DEF HarvestVideo
  <2> QED
    BY <2>1, <2>4, <2>5, <2>6, <2>7
<1>12. CASE FinishWalk
  BY <1>12 DEF FinishWalk, GoTo
<1>13. CASE DbFails
  BY <1>13 DEF DbFails, Rollback, GoTo
<1>14. CASE EmitMatch
  BY <1>14 DEF EmitMatch, MayPersist, Persist, Write
<1>15. CASE EndSlice
  BY <1>15 DEF EndSlice, Persist, Write, GoTo
<1>16. CASE MarkSlice
  BY <1>16 DEF MarkSlice, Write, GoTo
<1>17. CASE EndSlices
  BY <1>17 DEF EndSlices, GoTo
<1>18. CASE EndPass
  BY <1>18 DEF EndPass, GoTo
<1>19. CASE ClearFrontier
  BY <1>19 DEF ClearFrontier, Write, GoTo, NoFrontier
<1>20. CASE StampBaseline
  BY <1>20 DEF StampBaseline, Write, GoTo
<1>21. CASE FinalPersist
  BY <1>21 DEF FinalPersist, Persist, Write, GoTo
<1>22. CASE Report
  BY <1>22 DEF Report, GoTo
<1>23. CASE Invalidate
  BY <1>23 DEF Invalidate, Write, GoTo
<1>24. CASE SettledExit
  BY <1>24 DEF SettledExit, Write, GoTo
<1>25. CASE Throw
  BY <1>25 DEF Throw, Rollback, GoTo
<1>26. CASE Unwind
  BY <1>26 DEF Unwind, Write, GoTo
<1>27. CASE HandlerInvalidates
  BY <1>27 DEF HandlerInvalidates, Write, GoTo
<1>28. CASE HandlerSaves
  BY <1>28 DEF HandlerSaves, GoTo
<1>29. CASE RequestStop
  BY <1>29 DEF RequestStop
<1>30. CASE Kill
  BY <1>30 DEF Kill, Rollback, FreshWorker, GoTo
<1>31. CASE DiskChanges
  BY <1>31 DEF DiskChanges, Edit, Delete, Return
<1>32. CASE UNCHANGED vars
  BY <1>32
<1>. QED
  BY <1>1, <1>2, <1>3, <1>4, <1>5, <1>6, <1>7, <1>8, <1>9, <1>10, <1>11, <1>12, <1>13, <1>14,
     <1>15, <1>16, <1>17, <1>18, <1>19, <1>20, <1>21, <1>22, <1>23, <1>24, <1>25, <1>26, <1>27,
     <1>28, <1>29, <1>30, <1>31, <1>32 DEF Next, Done

\* There is nothing to be found at first.
LEMMA InitInv == Init => IInv
<1> SUFFICES ASSUME Init PROVE IInv
  OBVIOUS
<1>1. EmptyIndex \in Index
  <2>1. NoRow \in Row
    BY RowTypes
  <2>2. NoFrontier
          \in [files : SUBSET (Files \X (0..MaxVer) \X (0..MaxVer)), done : 0..NFiles]
    BY IndexAssumption DEF NoFrontier
  <2> QED
    BY <2>1, <2>2 DEF EmptyIndex, Index
<1>2. DbType
  BY <1>1 DEF Init, DbType
<1>3. RestType
  <2>1. {full, cancel, walkCompleted, completed} \subseteq BOOLEAN
    BY DEF Init
  <2>2. /\ setting \in Settings /\ disk \in [Files -> Versions] /\ present \subseteq setting.folder
        /\ setting.edits \in Nat
    BY IndexAssumption, SettingType DEF Init, Versions
  <2>3. /\ pc \in {"idle", "handler", "handlerSave"} \cup UnderWay
        /\ mode \in setting.modes /\ scope \in setting.scopes
        /\ {stored, emitted} \subseteq SUBSET Matches
        /\ {changed, seen, batch, range} \subseteq SUBSET Files
        /\ unit \in {"none", "images", "videos"}
    BY DEF Init
  <2>4. /\ at \in 1..(NFiles + 1) /\ slice \in 0..NFiles
        /\ edits \in 0..setting.edits /\ scans \in 0..MaxScans /\ kills \in 0..MaxKills
    BY <2>2, IndexAssumption DEF Init
  <2> QED
    BY <2>1, <2>2, <2>3, <2>4 DEF RestType
<1>4. Transactions /\ Marked /\ Skeletons /\ CrashFrontier
  BY DEF Init, Transactions, TxOpen, TxScope, UnitInWalk, LoadFresh, Kinds, TxDiscipline, Marked,
     UnderWay,      Skeletons,
         CrashFrontier
<1> QED
  BY <1>2, <1>3, <1>4, TypeParts DEF IInv

\* Each step keeps the invariant.
LEMMA StepInv == IInv /\ [Next]_vars => IInv'
BY StepType, StepTransactions, StepMarked, StepSkeletons DEF IInv

\* So it holds at every step.
LEMMA Invariant == Spec => []IInv
BY InitInv, StepInv, PTL DEF Spec

-----------------------------------------------------------------------------

\* Every variable keeps its type: rows, pairs and meta keys are well formed in
\* the durable index and in the connection's view, whatever is written, rolled
\* back or killed.
THEOREM TypeCorrect == Spec => []TypeOK
BY Invariant, PTL DEF IInv

\* However many transactions a scan opens, commits and abandons, the durable
\* index carries scan_dirty from the start of the scan until SettledExit: a
\* process that dies anywhere in between is noticed at the next start.
THEOREM MarkerIsHeld == Spec => []MarkerHeld
<1>1. IInv => MarkerHeld
  BY DEF IInv, Marked, MarkerHeld
<1> QED
  BY <1>1, Invariant, PTL

\* What the connection reads and what is durable differ only while the engine's
\* transaction is open: the pairs, the frontier, the baseline and the marker
\* written after it are durable at once.
THEOREM WritesAreDurable == Spec => []TxDiscipline
BY Invariant, PTL DEF IInv, Transactions

\* The rows of the files under analysis are durable skeletons, for every batch
\* and range size: checkpoints before the analysis, none of its results before
\* its end.
THEOREM CrashFrontierDurable == Spec => []CrashFrontier
BY Invariant, PTL DEF IInv

\* What a kill leaves behind is what the next start assumes: the marker, the
\* skeletons, and nothing of an open transaction.
THEOREM KillLeavesARecord == Spec => []Durability
BY MarkerIsHeld, WritesAreDurable, CrashFrontierDurable, PTL DEF Durability

-----------------------------------------------------------------------------
(* Pairs and their keys.                                                     *)

\* Two files, the first before the second, whose fingerprints are similar.
Alike(r, f, g) ==
    f < g /\ HasFp(r, f) /\ HasFp(r, g) /\ Similar(f, r[f].fp, g, r[g].fp)

\* The pair of f and g with the verdict on their fingerprints in r.
PairOf(r, f, g) == Match(f, r[f].fp, g, r[g].fp)

\* The keys of the next save: what is stored of unchanged files, and what was
\* emitted.
NewKeys == {K \in Keys(stored) : K \cap changed = {}} \cup Keys(emitted)

\* The key of a match is its two files.
LEMMA KeyOfMatch ==
    ASSUME NEW f, NEW g, NEW u, NEW v PROVE Key(Match(f, u, g, v)) = {f, g}
BY DEF Key, Match

\* More pairs have more keys.
LEMMA KeysGrow ==
    ASSUME NEW M, NEW N, M \subseteq N PROVE Keys(M) \subseteq Keys(N)
BY DEF Keys

\* A save keeps one pair for every key, so its keys are those of both sets.
LEMMA KeysOfSave ==
    ASSUME NEW E
    PROVE  Keys(CurrentMatchSet(E)) = {K \in Keys(stored) : K \cap changed = {}} \cup Keys(E)
<1> DEFINE kept == {m \in stored : Key(m) \cap changed = {}}
           K0 == {K \in Keys(stored) : K \cap changed = {}}
           added == {m \in E : Key(m) \notin Keys(kept)}
<1>1. Keys(kept) = K0
  BY DEF Keys
<1>2. CurrentMatchSet(E) = kept \cup added
  BY DEF CurrentMatchSet
<1>3. Keys(kept \cup added) = Keys(kept) \cup Keys(added)
  BY DEF Keys
<1>4. Keys(added) \subseteq Keys(E)
  BY DEF Keys
<1>5. Keys(E) \subseteq Keys(kept) \cup Keys(added)
  BY DEF Keys
<1> QED
  BY <1>1, <1>2, <1>3, <1>4, <1>5

\* PairsAmong holds the alike files, each pair with its present verdict.
LEMMA PairsAre ==
    ASSUME NEW r, NEW S, NEW m
    PROVE  m \in PairsAmong(r, S) <=> \E f, g \in S : Alike(r, f, g) /\ m = PairOf(r, f, g)
<1> DEFINE P == {p \in S \X S : /\ p[1] < p[2] /\ HasFp(r, p[1]) /\ HasFp(r, p[2])
                                /\ Similar(p[1], r[p[1]].fp, p[2], r[p[2]].fp)}
<1>1. PairsAmong(r, S) = {PairOf(r, p[1], p[2]) : p \in P}
  BY DEF PairsAmong, PairOf
<1>2. \A p \in P : p[1] \in S /\ p[2] \in S /\ Alike(r, p[1], p[2])
  BY DEF Alike
<1>3. \A f, g \in S : Alike(r, f, g) => <<f, g>> \in P /\ <<f, g>>[1] = f /\ <<f, g>>[2] = g
  BY DEF Alike
<1>4. ASSUME m \in PairsAmong(r, S)
      PROVE  \E f, g \in S : Alike(r, f, g) /\ m = PairOf(r, f, g)
  <2>1. PICK p \in P : m = PairOf(r, p[1], p[2])
    BY <1>1, <1>4
  <2> HIDE DEF P
  <2> QED
    BY <2>1, <1>2
<1>5. ASSUME NEW f \in S, NEW g \in S, Alike(r, f, g), m = PairOf(r, f, g)
      PROVE  m \in PairsAmong(r, S)
  <2> HIDE DEF P
  <2>1. <<f, g>> \in P /\ <<f, g>>[1] = f /\ <<f, g>>[2] = g
    BY <1>3, <1>5
  <2> QED
    BY <2>1, <1>1, <1>5
<1> QED
  BY <1>4, <1>5

\* The key of a pair that is made of two rows is its two files.
LEMMA KeyOfPair ==
    ASSUME NEW r, NEW f, NEW g PROVE Key(PairOf(r, f, g)) = {f, g}
BY KeyOfMatch DEF PairOf

-----------------------------------------------------------------------------
(* What a step does to rows and pairs.                                       *)

Loaded == pc \notin {"idle", "load"}
Saved  == pc \in {"idle", "report", "invalidate", "settle"}

\* Before the walk nothing is found; while it lasts, what is found is behind it.
LoadEmpty == pc = "load" => stored = {} /\ emitted = {} /\ changed = {} /\ at = 1 /\ seen = {}
Behind    == pc = "walk" => \A f \in changed : f < at

\* The files that wait for their analysis are changed, and in no emitted pair.
Waiting == pc \in {"walk", "drain"} =>
    /\ batch \cup range \subseteq changed
    /\ \A m \in emitted : Key(m) \subseteq changed \ (batch \cup range)

Order == LoadEmpty /\ Behind /\ Waiting

Stays(v, w) == /\ v.rows = w.rows /\ v.pairs = w.pairs
               /\ v.frontier = w.frontier /\ v.baseline = w.baseline

\* A scan is started, or the process dies: the worker's sets are empty, and the
\* connection sees what is durable.
FreshStep ==
    /\ FreshWorker
    /\ view' = db' /\ Stays(db', db)
    /\ \/ pc = "idle" /\ pc' = "load"
       \/ pc = "idle" /\ pc' = "handler" /\ May("failEarly")
       \/ pc # "idle" /\ pc' = "idle" /\ May("kill")

\* run() fails before it has loaded anything.
EarlyStep ==
    /\ pc = "load" /\ pc' = "unwind" /\ May("failEarly")
    /\ UNCHANGED <<db, view, stored, emitted, changed>>

\* Pairs may be emitted and saved; the rows stay.
PairStep ==
    /\ view'.rows = view.rows
    /\ emitted \subseteq emitted'
    /\ \A m \in emitted' \ emitted : m \in PairsAmong(view.rows, Files) /\ view = db
    /\ emitted' = emitted \/ pc' \in {"slices", "pass"}
    /\ \/ view'.pairs = view.pairs
       \/ /\ pc \in {"slices", "pass", "persist"} \/ (pc = "handlerSave" /\ ~tx)
          /\ view'.pairs = CurrentMatchSet(emitted')
    /\ Stays(db', db) \/ db' = view'
    /\ UNCHANGED <<stored, changed>>
    /\ view'.frontier = view.frontier \/ MarkSlice \/ ClearFrontier
    /\ view'.baseline = view.baseline \/ StampBaseline \/ Invalidate \/ HandlerInvalidates
    /\ Loaded' => Loaded
    /\ Saved' => \/ Saved \/ pc = "handlerSave" \/ May("saveFail")
                 \/ Loaded /\ view'.pairs = CurrentMatchSet(emitted') /\ db' = view'
    /\ pc' \in {"unwind", "handler", "handlerSave"} =>
         pc \in {"unwind", "handler", "handlerSave"} \/ May("throw") \/ May("throwOpen")

\* A file is admitted: its row becomes a skeleton.
AdmitStep ==
    /\ pc = "walk" /\ pc' = "walk"
    /\ at \in Files /\ at \in present /\ ~Unchanged(at)
    /\ view'.rows = [view.rows EXCEPT ![at] = Skeleton(disk[at])]
    /\ view'.pairs = view.pairs
    /\ view'.frontier = view.frontier /\ view'.baseline = view.baseline
    /\ db' = db \/ db' = view'
    /\ changed' = changed \cup {at}
    /\ UNCHANGED <<stored, emitted>>

\* File f is analysed: its row, its live pairs, perhaps a save of some of them.
SettleStep(f) ==
    /\ pc \in {"walk", "drain"} /\ pc' \in {"walk", "drain"} /\ unit # "none"
    /\ f \in Files /\ f \in batch \cup range
    /\ batch' \cup range' = (batch \cup range) \ {f}
    /\ view'.rows = [view.rows EXCEPT ![f] = Analysed(f)]
    /\ emitted \subseteq emitted' /\ emitted' \subseteq emitted \cup LivePairs(view'.rows, f)
    /\ f \in Images => emitted' = emitted \cup LivePairs(view'.rows, f)
    /\ \/ view'.pairs = view.pairs
       \/ \E E : emitted \subseteq E /\ E \subseteq emitted' /\ view'.pairs = CurrentMatchSet(E)
    /\ view'.frontier = view.frontier /\ view'.baseline = view.baseline
    /\ db' = db \/ db' = view'
    /\ UNCHANGED <<stored, changed>>

\* Deletion detection.
Gone == IF walkCompleted THEN {f \in Files : view.rows[f] # NoRow /\ f \notin seen \cup scope.ignored}
        ELSE {}
FinishStep ==
    /\ pc = "finish" /\ pc' \in {"slices", "pass"}
    /\ view' = Forgetting(view, Gone) /\ db' = view'
    /\ UNCHANGED <<stored, emitted, changed>>

\* What was not committed is rolled back or abandoned.
BackStep ==
    /\ Loaded
    /\ view' = db /\ db' = db
    /\ UNCHANGED <<stored, emitted, changed>>
    /\ \/ pc' = "persist" /\ May("dbFail")
       \/ pc' = "unwind" /\ May("throw")
       \/ pc = "handlerSave" /\ pc' = "idle"

Shape ==
    \/ FreshStep \/ EarlyStep \/ QuickLoad \/ PairStep \/ AdmitStep
    \/ \E f \in Files : SettleStep(f)
    \/ FinishStep \/ BackStep

\* What the changes of one field leave alone.
LEMMA FieldsKept ==
    ASSUME NEW v \in Index
    PROVE  /\ \A b : Stays([v EXCEPT !.dirty = b], v)
           /\ \A b : LET w == [v EXCEPT !.baseline = b]
                     IN  w.rows = v.rows /\ w.pairs = v.pairs /\ w.frontier = v.frontier /\ w.baseline = b
           /\ \A b : LET w == [v EXCEPT !.frontier = b]
                     IN  w.rows = v.rows /\ w.pairs = v.pairs /\ w.frontier = b /\ w.baseline = v.baseline
           /\ \A P : LET w == [v EXCEPT !.pairs = P]
                     IN  w.rows = v.rows /\ w.pairs = P /\ w.frontier = v.frontier /\ w.baseline = v.baseline
           /\ \A f, x : LET w == [v EXCEPT !.rows[f] = x]
                        IN  /\ w.rows = [v.rows EXCEPT ![f] = x] /\ w.pairs = v.pairs
                            /\ w.frontier = v.frontier /\ w.baseline = v.baseline
BY DEF Index, Stays

\* Steps that touch meta keys or nothing.
Quiet ==
    \/ WalkEnds \/ Drained \/ EndSlices \/ EndPass \/ Report \/ RequestStop \/ DiskChanges
    \/ UNCHANGED vars
    \/ SkipFile \/ DrainImages \/ DrainVideos
    \/ MarkSlice \/ ClearFrontier \/ StampBaseline \/ Invalidate
    \/ SettledExit \/ Unwind \/ HandlerInvalidates

\* A quiet step leaves the rows and the pairs alone; what is durable stays or becomes what is seen.
LEMMA QuietKeeps ==
    ASSUME IInv, Quiet
    PROVE  /\ view'.rows = view.rows /\ view'.pairs = view.pairs
           /\ view'.frontier = view.frontier \/ MarkSlice \/ ClearFrontier
           /\ view'.baseline = view.baseline \/ StampBaseline \/ Invalidate \/ HandlerInvalidates
           /\ Stays(db', db) \/ db' = view'
           /\ UNCHANGED <<stored, emitted, changed, setting>>
<1> USE DEF Quiet, vars, diskVars, dbVars, control, found, walkVars, verdicts, budgets
<1>1. view \in Index /\ Stays(view, view) /\ Stays(db, db)
  BY DEF IInv, TypeOK, Stays
<1>2. UNCHANGED <<stored, emitted, changed, setting>>
  BY DEF WalkEnds, Drained, EndSlices, EndPass, Report, RequestStop, DiskChanges, SkipFile, DrainImages,
         DrainVideos, MarkSlice, ClearFrontier, StampBaseline, Invalidate, SettledExit, Unwind,
         HandlerInvalidates
<1>a. ASSUME NEW v, Write(v) PROVE view' = v /\ (Stays(db', db) \/ db' = view')
  BY <1>1, <1>a DEF Write
<1>3. CASE \/ WalkEnds \/ Drained \/ EndSlices \/ EndPass \/ Report \/ RequestStop \/ DiskChanges
           \/ UNCHANGED vars
  <2>1. view' = view /\ db' = db
    BY <1>3 DEF WalkEnds, Drained, EndSlices, EndPass, Report, RequestStop, DiskChanges
  <2> QED
    BY <1>1, <1>2, <2>1
<1>4. CASE SkipFile \/ DrainImages \/ DrainVideos
  <2>1. view' = view /\ (db' = db \/ db' = view')
    BY <1>4 DEF SkipFile, DrainImages, DrainVideos, WriteMayCommit, WriteAndCommit
  <2> QED
    BY <1>1, <1>2, <2>1
<1>5. CASE MarkSlice \/ ClearFrontier
  <2>1. PICK v : Write(v) /\ v.rows = view.rows /\ v.pairs = view.pairs /\ v.baseline = view.baseline
    <3> DEFINE W(b) == [view EXCEPT !.frontier = b]
    <3>1. \A b : W(b).rows = view.rows /\ W(b).pairs = view.pairs /\ W(b).baseline = view.baseline
      BY <1>1, FieldsKept
    <3>2. Write(view) \/ \E b : Write(W(b))
      BY <1>5 DEF MarkSlice, ClearFrontier
    <3> HIDE DEF W
    <3> QED
      BY <3>1, <3>2
  <2> QED
    BY <1>2, <1>5, <1>a, <2>1
<1>6. CASE StampBaseline \/ Invalidate \/ HandlerInvalidates
  <2>1. PICK v : Write(v) /\ v.rows = view.rows /\ v.pairs = view.pairs /\ v.frontier = view.frontier
    <3> DEFINE W(b) == [view EXCEPT !.baseline = b]
    <3>1. \A b : W(b).rows = view.rows /\ W(b).pairs = view.pairs /\ W(b).frontier = view.frontier
      BY <1>1, FieldsKept
    <3>2. Write(view) \/ \E b : Write(W(b))
      BY <1>6 DEF StampBaseline, Invalidate, HandlerInvalidates
    <3> HIDE DEF W
    <3> QED
      BY <3>1, <3>2
  <2> QED
    BY <1>2, <1>6, <1>a, <2>1
<1>7. CASE SettledExit \/ Unwind
  <2>1. PICK v : Write(v) /\ Stays(v, view)
    BY <1>1, <1>7, FieldsKept DEF SettledExit, Unwind
  <2> QED
    BY <1>2, <1>a, <2>1 DEF Stays
<1> QED
  BY <1>3, <1>4, <1>5, <1>6, <1>7

\* A quiet step does not load, does not save and does not throw.
LEMMA QuietMoves ==
    ASSUME IInv, Quiet
    PROVE  /\ Loaded' => Loaded
           /\ Saved' => Saved
           /\ pc' \in {"unwind", "handler", "handlerSave"} => pc \in {"unwind", "handler", "handlerSave"}
BY DEF IInv, TypeOK, UnderWay, Quiet, Loaded, Saved, GoTo, NextFile, vars, diskVars, dbVars, control, found,
       walkVars, verdicts, budgets, WalkEnds, Drained, EndSlices, EndPass, Report, RequestStop,
       DiskChanges, SkipFile, DrainImages, DrainVideos, MarkSlice, ClearFrontier, StampBaseline,
       Invalidate, SettledExit, Unwind, HandlerInvalidates

-----------------------------------------------------------------------------
\* What begins or kills a scan starts afresh.
LEMMA FreshShape ==
    ASSUME IInv, StartScan \/ OpenFails \/ Kill PROVE FreshStep
<1>1. pc = "idle" => view = db /\ ~tx
  BY DEF IInv, Transactions, TxScope, TxDiscipline
<1>2. view \in Index
  BY DEF IInv, TypeOK
<1>3. CASE StartScan
  <2> DEFINE v == [view EXCEPT !.dirty = TRUE]
  <2>1. Stays(v, view)
    BY <1>2, FieldsKept
  <2>2. view' = v /\ db' = v
    BY <1>1, <1>3 DEF StartScan, Write
  <2> QED
    BY <1>1, <1>3, <2>1, <2>2 DEF StartScan, FreshStep, GoTo
<1>4. CASE OpenFails
  BY <1>1, <1>4 DEF OpenFails, FreshStep, GoTo, dbVars, Stays
<1>5. CASE Kill
  BY <1>5 DEF Kill, FreshStep, GoTo, Rollback, Stays
<1> QED
  BY <1>3, <1>4, <1>5

\* An exception leaves rows and pairs as they are, keeps pairs that are made, or gives up what was
\* not committed.
LEMMA ThrowShape ==
    ASSUME IInv, Order, Throw PROVE EarlyStep \/ PairStep \/ BackStep
<1> USE DEF Throw, found
<1>1. CASE pc = "load"
  BY <1>1 DEF EarlyStep, GoTo, dbVars
<1>2. CASE pc = "walk"
  BY <1>2 DEF BackStep, Rollback, GoTo, Loaded
<1>3. CASE pc \in {"drain", "finish", "slices", "pass"}
  BY <1>3 DEF PairStep, GoTo, dbVars, Stays, Loaded, Saved
<1> QED
  BY <1>1, <1>2, <1>3

\* Emitting a match leaves the index alone.
LEMMA EmitShape ==
    ASSUME IInv, EmitMatch PROVE PairStep
<1>1. view = db /\ ~tx /\ view \in Index
  BY DEF IInv, Transactions, TxScope, TxDiscipline, TypeOK, EmitMatch
<1>2. PICK m : emitted' = emitted \cup {m} /\ m \in PairsAmong(view.rows, Files)
  <2>1. ASSUME NEW m, m \in SliceTodo \/ m \in PassTodo PROVE m \in PairsAmong(view.rows, Files)
    <3>1. ImageGroups(view.rows) \subseteq Files /\ InScope \subseteq Files
      BY DEF ImageGroups, Images, InScope
    <3>2. PICK f \in Files, g \in Files : Alike(view.rows, f, g) /\ m = PairOf(view.rows, f, g)
      BY <2>1, <3>1, PairsAre DEF SliceTodo, PassTodo
    <3> QED
      BY <3>2, PairsAre
  <2> QED
    BY <2>1 DEF EmitMatch
<1>3. \/ UNCHANGED dbVars
      \/ view' = [view EXCEPT !.pairs = CurrentMatchSet(emitted')] /\ db' = view'
  BY <1>1 DEF EmitMatch, MayPersist, Persist, Write
<1>4. /\ view'.rows = view.rows /\ view'.frontier = view.frontier /\ view'.baseline = view.baseline
      /\ view'.pairs = view.pairs \/ view'.pairs = CurrentMatchSet(emitted')
      /\ Stays(db', db) \/ db' = view'
  <2> DEFINE v == [view EXCEPT !.pairs = CurrentMatchSet(emitted')]
  <2>1. v.rows = view.rows /\ v.pairs = CurrentMatchSet(emitted')
        /\ v.frontier = view.frontier /\ v.baseline = view.baseline
    BY <1>1, FieldsKept
  <2> HIDE DEF v
  <2>2. UNCHANGED dbVars \/ (view' = v /\ db' = v)
    BY <1>3 DEF v
  <2> QED
    BY <2>1, <2>2 DEF dbVars, Stays
<1> QED
  BY <1>1, <1>2, <1>4 DEF PairStep, EmitMatch, Loaded, Saved

\* A save replaces the pairs, or fails and goes back.
LEMMA SaveShape ==
    ASSUME IInv, EndSlice \/ FinalPersist \/ HandlerSaves PROVE PairStep \/ BackStep
<1> DEFINE v == [view EXCEPT !.pairs = CurrentMatchSet(emitted)]
<1>1. view \in Index /\ v.rows = view.rows /\ v.pairs = CurrentMatchSet(emitted)
      /\ v.frontier = view.frontier /\ v.baseline = view.baseline
  BY FieldsKept DEF IInv, TypeOK
<1>2. ~tx => view = db
  BY DEF IInv, Transactions, TxDiscipline
<1>3. CASE EndSlice
  <2>1. ~tx
    BY <1>3 DEF EndSlice, IInv, Transactions, TxScope
  <2>2. (view' = v /\ db' = v) \/ UNCHANGED dbVars
    BY <1>3, <2>1 DEF EndSlice, Persist, Write
  <2>3. /\ UNCHANGED <<stored, emitted, changed>> /\ pc = "slices" /\ pc' = "sliceMark"
    BY <1>3 DEF EndSlice, found, GoTo
  <2> HIDE DEF v
  <2>4. view'.rows = view.rows /\ view'.frontier = view.frontier /\ view'.baseline = view.baseline
        /\ view'.pairs \in {view.pairs, CurrentMatchSet(emitted)} /\ (Stays(db', db) \/ db' = view')
    BY <1>1, <2>2 DEF Stays, dbVars
  <2>5. PairStep
    BY <1>1, <2>2, <2>3, <2>4 DEF PairStep, Loaded, Saved
  <2> QED
    BY <2>5
<1>4. CASE FinalPersist
  <2>1. ~tx
    BY <1>4 DEF FinalPersist, IInv, Transactions, TxScope
  <2>2. (view' = v /\ db' = v /\ pc' = "report") \/ (May("saveFail") /\ UNCHANGED dbVars /\ pc' = "invalidate")
    BY <1>4, <2>1 DEF FinalPersist, Persist, Write, GoTo
  <2>3. /\ UNCHANGED <<stored, emitted, changed>> /\ pc = "persist"
    BY <1>4 DEF FinalPersist, found, GoTo
  <2> HIDE DEF v
  <2>4. view'.rows = view.rows /\ view'.frontier = view.frontier /\ view'.baseline = view.baseline
        /\ view'.pairs \in {view.pairs, CurrentMatchSet(emitted)} /\ (Stays(db', db) \/ db' = view')
    BY <1>1, <2>2 DEF Stays, dbVars
  <2>5. PairStep
    BY <1>1, <2>2, <2>3, <2>4 DEF PairStep, Loaded, Saved
  <2> QED
    BY <2>5
<1>5. CASE HandlerSaves
  <2>1. /\ UNCHANGED <<stored, emitted, changed>> /\ pc = "handlerSave" /\ pc' = "idle" /\ view' = db'
    BY <1>5 DEF HandlerSaves, found, GoTo
  <2>2. CASE tx
    <3>1. db' = db
      BY <1>5, <2>2 DEF HandlerSaves
    <3> QED
      BY <2>1, <3>1 DEF BackStep, Loaded
  <2>3. CASE ~tx
    <3>1. db' = v \/ db' = db
      BY <1>5, <2>3 DEF HandlerSaves
    <3> HIDE DEF v
    <3>2. PairStep
      BY <1>1, <1>2, <2>1, <2>3, <3>1 DEF PairStep, Loaded, Saved, Stays
    <3> QED
      BY <3>2
  <2> QED
    BY <2>2, <2>3
<1> QED
  BY <1>3, <1>4, <1>5

\* Admitting a file changes no row but its own.
LEMMA AdmitShape ==
    ASSUME IInv, AdmitFile PROVE AdmitStep
<1> DEFINE v == [view EXCEPT !.rows[at] = Skeleton(disk[at])]
<1>1. v.rows = [view.rows EXCEPT ![at] = Skeleton(disk[at])] /\ v.pairs = view.pairs
      /\ v.frontier = view.frontier /\ v.baseline = view.baseline
  BY FieldsKept DEF IInv, TypeOK
<1>2. view' = v /\ (db' = db \/ db' = v)
  BY DEF AdmitFile, WriteMayCommit, WriteAndCommit
<1>3. at \in Files /\ at \in present /\ ~Unchanged(at) /\ pc = "walk" /\ pc' = "walk"
      /\ changed' = changed \cup {at} /\ UNCHANGED <<stored, emitted>>
  BY DEF AdmitFile, NextFile, InScope
<1> HIDE DEF v
<1> QED
  BY <1>1, <1>2, <1>3 DEF AdmitStep

\* Settling a file gives it its row, emits the pairs it makes with the files before it, and may save.
LEMMA SettleEffect ==
    ASSUME IInv, NEW f \in Files, Settle(f)
    PROVE  /\ view'.rows = [view.rows EXCEPT ![f] = Analysed(f)]
           /\ emitted \subseteq emitted' /\ emitted' \subseteq emitted \cup LivePairs(view'.rows, f)
           /\ f \in Images => emitted' = emitted \cup LivePairs(view'.rows, f)
           /\ \/ view'.pairs = view.pairs
              \/ \E E : emitted \subseteq E /\ E \subseteq emitted' /\ view'.pairs = CurrentMatchSet(E)
           /\ view'.frontier = view.frontier /\ view'.baseline = view.baseline
           /\ db' = db \/ db' = view'
<1> DEFINE r == [view.rows EXCEPT ![f] = Analysed(f)]
<1>1. PICK E \in IF f \in Videos THEN SUBSET LivePairs(r, f) ELSE {LivePairs(r, f)} :
         /\ emitted' = emitted \cup E
         /\ \E P \in {view.pairs} \cup {CurrentMatchSet(emitted \cup D) : D \in (SUBSET E) \ {{}}} :
              LET v == [view EXCEPT !.rows = r, !.pairs = P]
              IN  IF unit' = "none" THEN WriteMayCommit(v) ELSE Write(v)
  BY DEF Settle
<1>2. PICK P \in {view.pairs} \cup {CurrentMatchSet(emitted \cup D) : D \in (SUBSET E) \ {{}}} :
         LET v == [view EXCEPT !.rows = r, !.pairs = P]
         IN  IF unit' = "none" THEN WriteMayCommit(v) ELSE Write(v)
  BY <1>1
<1> DEFINE v == [view EXCEPT !.rows = r, !.pairs = P]
<1>3. v.rows = r /\ v.pairs = P /\ v.frontier = view.frontier /\ v.baseline = view.baseline
  BY DEF IInv, TypeOK, Index
<1>4. view' = v /\ (db' = db \/ db' = v)
  BY <1>2 DEF WriteMayCommit, Write
<1>5. E \subseteq LivePairs(r, f) /\ (f \in Images => E = LivePairs(r, f))
  BY <1>1 DEF Images
<1>6. \/ P = view.pairs
      \/ \E D : emitted \subseteq D /\ D \subseteq emitted' /\ P = CurrentMatchSet(D)
  BY <1>1, <1>2
<1> HIDE DEF v, r
<1> QED
  BY <1>1, <1>3, <1>4, <1>5, <1>6 DEF r

\* Settling an image or a video has the shape of SettleStep, or, of a video that has to wait, nothing changes.
LEMMA SettleShape ==
    ASSUME IInv, SettleImage \/ HarvestVideo
    PROVE  \/ HarvestVideo /\ PairStep /\ UNCHANGED <<view, emitted>>
           \/ \E f \in Files : SettleStep(f)
<1>1. unit # "none" /\ pc \in {"walk", "drain"} /\ pc' \in {"walk", "drain"}
      /\ UNCHANGED <<stored, changed>> /\ batch \subseteq Files /\ range \subseteq Files
      /\ batch \cap range = {}
  <2>1. batch \cap range = {}
    BY DEF IInv, Transactions, Kinds
  <2> QED
    BY <2>1 DEF SettleImage, HarvestVideo, GoTo, IInv, Transactions, UnitInWalk, TypeOK
<1>2. CASE SettleImage
  <2>1. PICK f \in batch : batch' = batch \ {f} /\ Settle(f)
    BY <1>2 DEF SettleImage
  <2>2. range' = range
    BY <1>2 DEF SettleImage
  <2>3. batch' \cup range' = (batch \cup range) \ {f} /\ f \in batch \cup range
    BY <1>1, <2>1, <2>2
  <2>4. f \in Files
    BY <1>1, <2>1
  <2>5. SettleStep(f)
    BY <1>1, <2>1, <2>3, <2>4, SettleEffect DEF SettleStep
  <2> QED
    BY <2>4, <2>5
<1>3. CASE HarvestVideo
  <2>1. PICK f \in range : range' = range \ {f} /\ (Settle(f) \/ (Write(view) /\ UNCHANGED emitted))
    BY <1>3 DEF HarvestVideo
  <2>2. batch' = batch
    BY <1>3 DEF HarvestVideo
  <2>3. batch' \cup range' = (batch \cup range) \ {f} /\ f \in batch \cup range
    BY <1>1, <2>1, <2>2
  <2>4. f \in Files
    BY <1>1, <2>1
  <2>5. CASE Settle(f)
    <3>1. SettleStep(f)
      BY <1>1, <2>3, <2>4, <2>5, SettleEffect DEF SettleStep
    <3> QED
      BY <2>4, <3>1
  <2>6. CASE Write(view) /\ UNCHANGED emitted
    <3>1. view' = view /\ (db' = db \/ db' = view')
      BY <2>6 DEF Write
    <3> QED
      BY <1>1, <1>3, <2>6, <3>1 DEF PairStep, Stays, Loaded, Saved
  <2> QED
    BY <2>1, <2>5, <2>6
<1> QED
  BY <1>2, <1>3

\* A quiet step saves nothing new.
LEMMA QuietShape == ASSUME IInv, Quiet PROVE PairStep
BY QuietKeeps, QuietMoves DEF PairStep, Stays

\* The end of the walk forgets the files that were not seen.
LEMMA FinishShape == ASSUME IInv, FinishWalk PROVE FinishStep
BY DEF FinishWalk, FinishStep, Gone, GoTo, found

\* A statement that fails takes the scan back to what is durable.
LEMMA DbFailsShape == ASSUME IInv, DbFails PROVE BackStep
BY DEF DbFails, BackStep, GoTo, found, Rollback, Loaded

\* Every step has one of the shapes.
LEMMA Shapes == ASSUME IInv, Order, [Next]_vars PROVE Shape
BY FreshShape, ThrowShape, EmitShape, SaveShape, AdmitShape, SettleShape, QuietShape, FinishShape,
   DbFailsShape DEF Shape, Next, Done, Quiet

-----------------------------------------------------------------------------
(* The order of the walk.                                                    *)

\* No file has been found at first.
LEMMA InitOrder == Init => Order
BY DEF Init, Order, LoadEmpty, Behind, Waiting

\* What an analysed file adds is about changed files that have been analysed.
LEMMA LiveKeys ==
    ASSUME IInv, NEW f \in Files, SettleStep(f), NEW m \in LivePairs(view'.rows, f)
    PROVE  /\ m \in PairsAmong(view'.rows, changed)
           /\ f \in Key(m)
           /\ Key(m) \subseteq changed \ ((batch \cup range) \ {f})
<1>1. m \in PairsAmong(view'.rows, changed) /\ f \in Key(m)
  BY DEF LivePairs
<1>2. PICK g \in changed, h \in changed : Alike(view'.rows, g, h) /\ m = PairOf(view'.rows, g, h)
  BY <1>1, PairsAre
<1>3. Key(m) = {g, h}
  BY <1>2, KeyOfPair
<1>4. ASSUME NEW x \in (batch \cup range) \ {f} PROVE ~HasFp(view'.rows, x)
  <2>1. view.rows[x].state = "skeleton" /\ x \in Files
    BY DEF SettleStep, IInv, Skeletons, TypeOK
  <2>2. view'.rows[x] = view.rows[x]
    BY <2>1 DEF SettleStep, IInv, TypeOK, Index
  <2> QED
    BY <2>1, <2>2 DEF HasFp
<1> QED
  BY <1>1, <1>2, <1>3, <1>4 DEF Alike

\* Each step keeps the order of the walk.
LEMMA StepOrder == IInv /\ Order /\ [Next]_vars => Order'
<1> SUFFICES ASSUME IInv, Order, [Next]_vars PROVE Order'
  OBVIOUS
<1> USE DEF Order, LoadEmpty, Behind, Waiting,
            vars, diskVars, dbVars, control, found, walkVars, verdicts, budgets
<1>0. at \in Nat /\ changed \subseteq Nat
  BY IndexAssumption DEF IInv, TypeOK, Files
<1>1. CASE StartScan \/ OpenFails \/ Kill
  BY <1>1 DEF StartScan, OpenFails, Kill, GoTo, FreshWorker
<1>2. CASE QuickLoad
  BY <1>2 DEF QuickLoad, GoTo, IInv, Transactions, LoadFresh
<1>3. CASE AdmitFile
  <2>1. batch' \cup range' = batch \cup range \cup {at}
    BY <1>3 DEF AdmitFile
  <2>2. at \in Nat /\ at' = at + 1 /\ changed \subseteq Nat
    BY <1>0, <1>3 DEF AdmitFile, NextFile
  <2>3. at \notin changed
    BY <1>3, <2>2 DEF AdmitFile, NextFile
  <2>4. \A f \in changed' : f < at'
    BY <1>3, <2>2 DEF AdmitFile, NextFile
  <2>5. UNCHANGED <<pc, emitted>> /\ pc = "walk" /\ changed' = changed \cup {at}
    BY <1>3 DEF AdmitFile, NextFile
  <2> QED
    BY <2>1, <2>3, <2>4, <2>5
<1>4. CASE SkipFile
  <2> QED
    BY <1>4, <1>0 DEF SkipFile, NextFile
<1>5. CASE SettleImage \/ HarvestVideo
  <2>1. UNCHANGED <<at, changed>> /\ pc' \in {pc, "drain"} /\ pc \in {"walk", "drain"}
    BY <1>5 DEF SettleImage, HarvestVideo, GoTo, IInv, Transactions, UnitInWalk
  <2>2. CASE PairStep /\ UNCHANGED emitted /\ HarvestVideo
    <3>1. batch' \cup range' \subseteq batch \cup range
      BY <2>2 DEF HarvestVideo
    <3> QED
      BY <2>1, <2>2, <3>1
  <2>3. ASSUME NEW f \in Files, SettleStep(f) PROVE Order'
    <3>1. batch' \cup range' = (batch \cup range) \ {f} /\ f \in batch \cup range
          /\ emitted' \subseteq emitted \cup LivePairs(view'.rows, f)
      BY <2>3 DEF SettleStep
    <3>2. \A m \in emitted' : Key(m) \subseteq changed' \ (batch' \cup range')
      BY <2>1, <2>3, <3>1, LiveKeys
    <3> QED
      BY <2>1, <3>1, <3>2
  <2> QED
    BY <1>5, <2>2, <2>3, SettleShape
<1>6. CASE Throw \/ DbFails
  BY <1>6 DEF Throw, DbFails, GoTo
<1>7. CASE WalkEnds \/ Drained
  BY <1>7 DEF WalkEnds, Drained, GoTo
<1>8. CASE DrainImages \/ DrainVideos \/ RequestStop \/ DiskChanges \/ UNCHANGED vars
  BY <1>8 DEF DrainImages, DrainVideos, RequestStop, DiskChanges
<1>9. CASE \/ FinishWalk \/ EmitMatch \/ EndSlice \/ MarkSlice \/ EndSlices \/ EndPass
           \/ ClearFrontier \/ StampBaseline \/ FinalPersist
  BY <1>9 DEF FinishWalk, EmitMatch, EndSlice, MarkSlice, EndSlices, EndPass, ClearFrontier,
              StampBaseline, FinalPersist, GoTo
<1>10. CASE Report \/ Invalidate \/ SettledExit \/ Unwind \/ HandlerInvalidates \/ HandlerSaves
  BY <1>10 DEF Report, Invalidate, SettledExit, Unwind, HandlerInvalidates, HandlerSaves, GoTo
<1> QED
  BY <1>1, <1>2, <1>3, <1>4, <1>5, <1>6, <1>7, <1>8, <1>9, <1>10 DEF Next, Done

-----------------------------------------------------------------------------
(* Verdicts.                                                                 *)

\* The verdict of a match was found for the fingerprint its file has in r, if
\* the file was analysed.
Fresh(x, r) == r[x[1]].state \in {"indexed", "failed"} => r[x[1]].fp = x[2]
FreshBut(P, r, C) == \A m \in P : \A x \in m : x[1] \notin C => Fresh(x, r)

Gentle == Without({"kill", "saveFail", "throw", "throwOpen"})

\* Stored verdicts are outdated for changed files only, and after the last save
\* for none; this holds for what is durable as for what the connection sees.
PairsFresh == \A v \in {view, db} : FreshBut(v.pairs, v.rows, IF Saved THEN {} ELSE changed)

\* What the worker holds is fresh for both, so that a save is, whether it is
\* committed or follows a rollback.
StoredFresh  == Loaded => \A v \in {view, db} : FreshBut(stored, v.rows, changed)
EmittedFresh == Loaded => \A v \in {view, db} : FreshBut(emitted, v.rows, {})

\* What was analysed and is not committed was not analysed before.
SameVerdicts ==
    \A f \in Files : HasFp(view.rows, f) /\ db.rows[f].state \in {"indexed", "failed"}
                       => db.rows[f].fp = view.rows[f].fp

\* Only a scan that has loaded nothing gets to the handler.
FailedEmpty == pc \in {"unwind", "handler", "handlerSave"} => stored = {} /\ emitted = {} /\ changed = {}

VerdictInv == Gentle => PairsFresh /\ StoredFresh /\ EmittedFresh /\ SameVerdicts /\ FailedEmpty

\* No step changes the setting.
LEMMA SettingKept == [Next]_vars => setting' = setting
BY DEF Next, Done, vars, diskVars, StartScan, OpenFails, QuickLoad, SkipFile, AdmitFile, WalkEnds, DrainImages,
       DrainVideos, Drained, SettleImage, HarvestVideo, FinishWalk, DbFails, EmitMatch, EndSlice,
       MarkSlice, EndSlices, EndPass, ClearFrontier, StampBaseline, FinalPersist, Report, Invalidate,
       SettledExit, Throw, Unwind, HandlerInvalidates, HandlerSaves, RequestStop, Kill, DiskChanges

\* Fewer pairs are no more outdated.
LEMMA FreshFewer ==
    ASSUME NEW P, NEW Q, NEW r, NEW C, NEW D, FreshBut(Q, r, C), P \subseteq Q, C \subseteq D
    PROVE  FreshBut(P, r, D)
BY DEF FreshBut

\* A file that is not looked at may change its row; a skeleton is never wrong.
LEMMA FreshRow ==
    ASSUME NEW r \in [Files -> Row], NEW f \in Files, NEW row \in Row, NEW P, NEW C, FreshBut(P, r, C),
           f \in C \/ row.state = "skeleton" \/ \A m \in P : f \notin Key(m)
    PROVE  FreshBut(P, [r EXCEPT ![f] = row], C)
<1> SUFFICES ASSUME NEW m \in P, NEW x \in m, x[1] \notin C
             PROVE  Fresh(x, [r EXCEPT ![f] = row])
  BY DEF FreshBut
<1>1. Fresh(x, r)
  BY DEF FreshBut
<1>2. CASE x[1] = f
  <2>1. x[1] \in Key(m)
    BY DEF Key
  <2> QED
    BY <1>2, <2>1 DEF Fresh
<1>3. CASE x[1] # f
  BY <1>1, <1>3 DEF Fresh
<1> QED
  BY <1>2, <1>3

\* Pairs that are not outdated are not when files are forgotten.
LEMMA FreshForgetting ==
    ASSUME NEW v \in Index, NEW gone, NEW P, P \subseteq Matches, NEW C, FreshBut(P, v.rows, C)
    PROVE  FreshBut(P, Forgetting(v, gone).rows, C)
<1>1. Forgetting(v, gone).rows = [f \in Files |-> IF f \in gone THEN NoRow ELSE v.rows[f]]
  BY DEF Forgetting, Index
<1>2. ASSUME NEW m \in P, NEW x \in m PROVE x[1] \in Files
  BY DEF Matches, Match
<1> QED
  BY <1>1, <1>2 DEF FreshBut, Fresh, NoRow

\* What forgetting files changes, and what it does not.
LEMMA ForgetFields ==
    ASSUME NEW v \in Index, NEW gone
    PROVE  /\ Forgetting(v, gone).pairs = {m \in v.pairs : Key(m) \cap gone = {}}
           /\ \A f \in Files : Forgetting(v, gone).rows[f] = IF f \in gone THEN NoRow ELSE v.rows[f]
           /\ Forgetting(v, gone).frontier = v.frontier
           /\ Forgetting(v, gone).baseline = v.baseline
BY DEF Forgetting, Index

\* Pairs that are made of the rows are not outdated.
LEMMA FreshPairs ==
    ASSUME NEW r, NEW S PROVE FreshBut(PairsAmong(r, S), r, {})
<1> SUFFICES ASSUME NEW m \in PairsAmong(r, S), NEW x \in m PROVE Fresh(x, r)
  BY DEF FreshBut
<1>1. PICK f \in S, g \in S : m = PairOf(r, f, g)
  BY PairsAre
<1>2. x = <<f, r[f].fp>> \/ x = <<g, r[g].fp>>
  BY <1>1 DEF PairOf, Match
<1> QED
  BY <1>2 DEF Fresh

\* A save of fresh pairs over pairs that are outdated for changed files only is fresh.
LEMMA FreshSave ==
    ASSUME NEW r, NEW E, FreshBut(stored, r, changed), FreshBut(E, r, {})
    PROVE  FreshBut(CurrentMatchSet(E), r, {})
<1> SUFFICES ASSUME NEW m \in CurrentMatchSet(E), NEW x \in m PROVE Fresh(x, r)
  BY DEF FreshBut
<1>1. CASE m \in E
  BY <1>1 DEF FreshBut
<1>2. CASE m \in stored /\ Key(m) \cap changed = {}
  <2>1. x[1] \in Key(m)
    BY DEF Key
  <2> QED
    BY <1>2, <2>1 DEF FreshBut
<1> QED
  BY <1>1, <1>2 DEF CurrentMatchSet

\* There is no verdict at first.
LEMMA InitVerdicts == Init => VerdictInv
BY DEF Init, VerdictInv, PairsFresh, StoredFresh, EmittedFresh, SameVerdicts, FailedEmpty, Loaded, EmptyIndex,
       FreshBut, HasFp, NoRow

\* Each step keeps the verdicts fresh.
LEMMA StepVerdicts == IInv /\ Order /\ VerdictInv /\ [Next]_vars => VerdictInv'
<1> SUFFICES ASSUME IInv, Order, VerdictInv, [Next]_vars, Gentle PROVE VerdictInv'
  BY SettingKept DEF VerdictInv, Gentle, Without
<1>1. /\ PairsFresh /\ StoredFresh /\ EmittedFresh /\ SameVerdicts /\ FailedEmpty
      /\ view \in Index /\ db \in Index /\ view.rows \in [Files -> Row] /\ db.rows \in [Files -> Row]
      /\ stored \subseteq Matches /\ emitted \subseteq Matches
  BY DEF VerdictInv, IInv, TypeOK, Index
<1>2. ~May("kill") /\ ~May("saveFail") /\ ~May("throw") /\ ~May("throwOpen")
  BY DEF Gentle, Without, May
<1>3. SUFFICES PairsFresh' /\ StoredFresh' /\ EmittedFresh' /\ SameVerdicts' /\ FailedEmpty'
  BY DEF VerdictInv
<1>4. /\ FreshBut(view.pairs, view.rows, IF Saved THEN {} ELSE changed)
      /\ FreshBut(db.pairs, db.rows, IF Saved THEN {} ELSE changed)
  BY <1>1 DEF PairsFresh
<1>5. Loaded => /\ FreshBut(stored, view.rows, changed) /\ FreshBut(stored, db.rows, changed)
                /\ FreshBut(emitted, view.rows, {}) /\ FreshBut(emitted, db.rows, {})
  BY <1>1 DEF StoredFresh, EmittedFresh
<1>6. FreshBut(view.pairs, view.rows, changed) /\ FreshBut(db.pairs, db.rows, changed)
  BY <1>4, FreshFewer
<1>a. ASSUME view'.rows = db'.rows PROVE SameVerdicts'
  BY <1>a DEF SameVerdicts
<1>b. ASSUME /\ FreshBut(view'.pairs, view'.rows, IF Saved' THEN {} ELSE changed')
             /\ FreshBut(db'.pairs, db'.rows, IF Saved' THEN {} ELSE changed')
      PROVE  PairsFresh'
  BY <1>b DEF PairsFresh
<1>c. ASSUME /\ FreshBut(stored', view'.rows, changed') /\ FreshBut(stored', db'.rows, changed')
             /\ FreshBut(emitted', view'.rows, {}) /\ FreshBut(emitted', db'.rows, {})
      PROVE  StoredFresh' /\ EmittedFresh'
  BY <1>c DEF StoredFresh, EmittedFresh
<1> HIDE DEF PairsFresh, StoredFresh, EmittedFresh
<1>10. CASE FreshStep
  <2>1. stored' = {} /\ emitted' = {} /\ changed' = {} /\ pc = "idle"
    BY <1>2, <1>10 DEF FreshStep, FreshWorker
  <2>2. view'.rows = db.rows /\ view'.pairs = db.pairs /\ db'.rows = db.rows /\ db'.pairs = db.pairs
    BY <1>10 DEF FreshStep, Stays
  <2>3. FreshBut(db.pairs, db.rows, {})
    BY <1>4, <2>1 DEF Saved
  <2>4. FreshBut({}, db.rows, {})
    BY DEF FreshBut
  <2> QED
    BY <1>a, <1>b, <1>c, <2>1, <2>2, <2>3, <2>4 DEF FailedEmpty
<1>11. CASE EarlyStep
  <2>1. /\ stored' = {} /\ emitted' = {} /\ changed' = {} /\ changed = {}
        /\ view' = view /\ db' = db /\ pc' = "unwind" /\ ~Saved' /\ ~Saved
    BY <1>11 DEF EarlyStep, Order, LoadEmpty, Saved
  <2>2. FreshBut({}, db.rows, {}) /\ FreshBut({}, view.rows, {})
    BY DEF FreshBut
  <2>3. SameVerdicts'
    BY <1>1, <2>1 DEF SameVerdicts
  <2> QED
    BY <1>4, <1>b, <1>c, <2>1, <2>2, <2>3 DEF FailedEmpty
<1>12. CASE QuickLoad
  <2> DEFINE gone == (UNION Keys(view.pairs)) \ present
             v == Forgetting(view, gone)
  <2>1. /\ view' = v /\ db' = v /\ stored' = v.pairs /\ UNCHANGED <<emitted, changed>>
        /\ pc = "load" /\ pc' \in {"walk", "persist"}
    BY <1>12 DEF QuickLoad, GoTo
  <2>2. emitted' = {} /\ changed' = {} /\ changed = {} /\ ~Saved /\ ~Saved'
    BY <2>1 DEF Order, LoadEmpty, Saved
  <2>3. v.pairs \subseteq view.pairs
    BY <1>1, ForgetFields
  <2>4. view.pairs \subseteq Matches
    BY <1>1 DEF Index
  <2>5. FreshBut(view.pairs, v.rows, {})
    BY <1>1, <1>6, <2>2, <2>4, FreshForgetting
  <2>6. FreshBut(v.pairs, v.rows, {})
    BY <2>3, <2>5, FreshFewer
  <2>7. FreshBut({}, v.rows, {})
    BY DEF FreshBut
  <2> HIDE DEF v
  <2> QED
    BY <1>a, <1>b, <1>c, <2>1, <2>2, <2>6, <2>7 DEF FailedEmpty
<1>13. CASE PairStep
  <2>1. UNCHANGED <<stored, changed>> /\ view'.rows = view.rows /\ (db'.rows = db.rows \/ db' = view')
    BY <1>13 DEF PairStep, Stays
  <2>2. FreshBut(PairsAmong(view.rows, Files), view.rows, {})
    BY FreshPairs
  <2>3. Loaded => FreshBut(emitted', view.rows, {}) /\ FreshBut(emitted', db.rows, {})
    BY <1>5, <1>13, <2>2 DEF PairStep, FreshBut
  <2>4. StoredFresh' /\ EmittedFresh'
    <3>1. ~Loaded' => StoredFresh' /\ EmittedFresh'
      BY DEF StoredFresh, EmittedFresh
    <3>2. Loaded' => Loaded
      BY <1>13 DEF PairStep
    <3> QED
      BY <1>5, <1>c, <2>1, <2>3, <3>1, <3>2
  <2>5. SameVerdicts'
    BY <1>1, <1>a, <2>1 DEF SameVerdicts
  <2>6. FailedEmpty'
    BY <1>1, <1>2, <1>13 DEF PairStep, FailedEmpty
  <2>7. PairsFresh'
    <3>1. Loaded => FreshBut(CurrentMatchSet(emitted'), view.rows, {})
      BY <1>5, <2>3, FreshSave
    <3>2. CASE view'.pairs = CurrentMatchSet(emitted') /\ Loaded
      <4>1. FreshBut(view'.pairs, view'.rows, {}) /\ FreshBut(view'.pairs, view'.rows, changed')
        BY <2>1, <3>1, <3>2, FreshFewer
      <4>2. CASE db' = view'
        BY <1>b, <4>1, <4>2
      <4>3. CASE Stays(db', db)
        <5>1. Saved' => Saved \/ changed = {} \/ db' = view'
          BY <1>1, <1>2, <1>13 DEF PairStep, FailedEmpty
        <5>2. FreshBut(db'.pairs, db'.rows, IF Saved' THEN {} ELSE changed')
          BY <1>4, <1>6, <2>1, <4>1, <4>3, <5>1 DEF Stays
        <5> QED
          BY <1>b, <4>1, <5>2
      <4> QED
        BY <1>13, <4>2, <4>3 DEF PairStep
    <3>3. CASE view'.pairs = view.pairs
      <4>1. Saved' => \/ Saved \/ changed = {}
                      \/ Loaded /\ view'.pairs = CurrentMatchSet(emitted') /\ db' = view'
        BY <1>1, <1>2, <1>13 DEF PairStep, FailedEmpty, Loaded, Saved
      <4>2. FreshBut(view'.pairs, view'.rows, IF Saved' THEN {} ELSE changed')
        BY <1>4, <1>6, <2>1, <3>1, <3>3, <4>1
      <4>3. FreshBut(db'.pairs, db'.rows, IF Saved' THEN {} ELSE changed')
        <5>1. CASE db' = view'
          BY <4>2, <5>1
        <5>2. CASE Stays(db', db)
          BY <1>4, <1>6, <2>1, <4>1, <4>2, <5>2 DEF Stays
        <5> QED
          BY <1>13, <5>1, <5>2 DEF PairStep
      <4> QED
        BY <1>b, <4>2, <4>3
    <3> QED
      BY <1>13, <3>2, <3>3 DEF PairStep, Loaded
  <2> QED
    BY <2>4, <2>5, <2>6, <2>7
<1>14. CASE AdmitStep
  <2> DEFINE C == IF Saved THEN {} ELSE changed
  <2>1. /\ UNCHANGED <<stored, emitted>> /\ changed' = changed \cup {at} /\ view'.pairs = view.pairs
        /\ (db' = db \/ db' = view') /\ pc = "walk" /\ pc' = "walk" /\ at \in Files
        /\ view'.rows = [view.rows EXCEPT ![at] = Skeleton(disk[at])]
    BY <1>14 DEF AdmitStep
  <2>2. ~Saved /\ ~Saved' /\ Loaded /\ Loaded' /\ changed \subseteq changed'
    BY <2>1 DEF Saved, Loaded
  <2>3. Skeleton(disk[at]) \in Row /\ Skeleton(disk[at]).state = "skeleton"
    BY <2>1, RowTypes DEF IInv, TypeOK, Skeleton
  <2>4. ASSUME NEW P, NEW D, FreshBut(P, view.rows, D) PROVE FreshBut(P, view'.rows, D)
    BY <1>1, <2>1, <2>3, <2>4, FreshRow
  <2>5. FreshBut(view'.pairs, view'.rows, changed')
    BY <1>6, <2>1, <2>2, <2>4, FreshFewer
  <2>6. FreshBut(db'.pairs, db'.rows, changed')
    BY <1>6, <2>1, <2>2, <2>5, FreshFewer
  <2>7. FreshBut(stored, view'.rows, changed') /\ FreshBut(emitted, view'.rows, {})
    BY <1>5, <2>2, <2>4, FreshFewer
  <2>8. FreshBut(stored, db'.rows, changed') /\ FreshBut(emitted, db'.rows, {})
    BY <1>5, <2>1, <2>2, <2>7, FreshFewer
  <2>9. SameVerdicts'
    <3>1. CASE db' = view'
      BY <1>a, <3>1
    <3>2. CASE db' = db
      BY <1>1, <2>1, <2>3, <3>2 DEF SameVerdicts, HasFp
    <3> QED
      BY <2>1, <3>1, <3>2
  <2> QED
    BY <1>b, <1>c, <2>1, <2>2, <2>5, <2>6, <2>7, <2>8, <2>9 DEF FailedEmpty
<1>15. ASSUME NEW f \in Files, SettleStep(f)
       PROVE  PairsFresh' /\ StoredFresh' /\ EmittedFresh' /\ SameVerdicts' /\ FailedEmpty'
  <2>1. /\ UNCHANGED <<stored, changed>> /\ (db' = db \/ db' = view') /\ pc' \in {"walk", "drain"}
        /\ pc \in {"walk", "drain"} /\ f \in batch \cup range /\ unit # "none"
        /\ view'.rows = [view.rows EXCEPT ![f] = Analysed(f)]
        /\ emitted \subseteq emitted' /\ emitted' \subseteq emitted \cup LivePairs(view'.rows, f)
    BY <1>15 DEF SettleStep
  <2>2. ~Saved /\ ~Saved' /\ Loaded /\ Loaded'
    BY <2>1 DEF Saved, Loaded
  <2>3. f \in changed /\ Analysed(f) \in Row /\ \A m \in emitted : f \notin Key(m)
    BY <2>1, AnalysedType DEF Order, Waiting, IInv, TypeOK
  <2>4. db.rows[f].state = "skeleton"
    BY <2>1 DEF IInv, CrashFrontier
  <2>5. SameVerdicts'
    <3>1. CASE db' = view'
      BY <1>a, <3>1
    <3>2. CASE db' = db
      BY <1>1, <2>1, <2>4, <3>2 DEF SameVerdicts, HasFp
    <3> QED
      BY <2>1, <3>1, <3>2
  <2>6. FreshBut(stored, view'.rows, changed') /\ FreshBut(emitted, view'.rows, {})
    <3>1. FreshBut(stored, view.rows, changed) /\ FreshBut(emitted, view.rows, {})
      BY <1>5, <2>2
    <3>2. FreshBut(stored, [view.rows EXCEPT ![f] = Analysed(f)], changed)
      BY <1>1, <2>3, <3>1, FreshRow
    <3>3. FreshBut(emitted, [view.rows EXCEPT ![f] = Analysed(f)], {})
      BY <1>1, <2>3, <3>1, FreshRow
    <3> QED
      BY <2>1, <3>2, <3>3
  <2>7. FreshBut(emitted', view'.rows, {})
    <3>1. FreshBut(LivePairs(view'.rows, f), view'.rows, {})
      <4>1. LivePairs(view'.rows, f) \subseteq PairsAmong(view'.rows, changed)
        BY DEF LivePairs
      <4> QED
        BY <4>1, FreshPairs, FreshFewer
    <3> QED
      BY <2>1, <2>6, <3>1 DEF FreshBut
  <2>8. FreshBut(emitted', db'.rows, {})
    <3>1. CASE db' = view'
      BY <2>7, <3>1
    <3>2. CASE db' = db
      <4> SUFFICES ASSUME NEW m \in LivePairs(view'.rows, f), NEW x \in m PROVE Fresh(x, db.rows)
        BY <1>5, <2>1, <2>2, <3>2 DEF FreshBut
      <4>1. m \in PairsAmong(view'.rows, changed)
        BY DEF LivePairs
      <4>2. PICK g \in changed, h \in changed : Alike(view'.rows, g, h) /\ m = PairOf(view'.rows, g, h)
        BY <4>1, PairsAre
      <4>3. PICK y \in Files : x = <<y, view'.rows[y].fp>> /\ HasFp(view'.rows, y)
        BY <4>2 DEF PairOf, Match, Alike, IInv, TypeOK
      <4>4. db'.rows[y].state \in {"indexed", "failed"} => db'.rows[y].fp = view'.rows[y].fp
        BY <2>5, <4>3 DEF SameVerdicts
      <4> QED
        BY <3>2, <4>3, <4>4 DEF Fresh
    <3> QED
      BY <2>1, <3>1, <3>2
  <2>9. FreshBut(stored, db'.rows, changed')
    BY <1>5, <2>1, <2>2, <2>6
  <2>10. FreshBut(view'.pairs, view'.rows, changed')
    <3>1. CASE view'.pairs = view.pairs
      <4>1. FreshBut(view.pairs, [view.rows EXCEPT ![f] = Analysed(f)], changed)
        BY <1>1, <1>6, <2>3, FreshRow
      <4> QED
        BY <2>1, <3>1, <4>1
    <3>2. CASE view'.pairs # view.pairs
      <4>1. PICK E : emitted \subseteq E /\ E \subseteq emitted' /\ view'.pairs = CurrentMatchSet(E)
        BY <1>15, <3>2 DEF SettleStep
      <4>2. FreshBut(E, view'.rows, {})
        BY <2>7, <4>1, FreshFewer
      <4>3. FreshBut(CurrentMatchSet(E), view'.rows, {})
        BY <2>1, <2>6, <4>2, FreshSave
      <4> QED
        BY <4>1, <4>3, FreshFewer
    <3> QED
      BY <3>1, <3>2
  <2>11. FreshBut(db'.pairs, db'.rows, changed')
    BY <1>6, <2>1, <2>10
  <2> QED
    BY <1>b, <1>c, <2>1, <2>2, <2>5, <2>6, <2>7, <2>8, <2>9, <2>10, <2>11 DEF FailedEmpty
<1>16. CASE FinishStep
  <2>1. view' = Forgetting(view, Gone) /\ db' = view' /\ UNCHANGED <<stored, emitted, changed>>
        /\ pc = "finish" /\ pc' \in {"slices", "pass"}
    BY <1>16 DEF FinishStep
  <2>2. ~Saved /\ ~Saved' /\ Loaded
    BY <2>1 DEF Saved, Loaded
  <2>3. ASSUME NEW P, P \subseteq Matches, NEW D, FreshBut(P, view.rows, D) PROVE FreshBut(P, view'.rows, D)
    BY <1>1, <2>1, <2>3, FreshForgetting
  <2>4. view'.pairs \subseteq view.pairs /\ view.pairs \subseteq Matches
    <3>1. view'.pairs \subseteq view.pairs
      BY <1>1, <2>1, ForgetFields
    <3> QED
      BY <1>1, <3>1 DEF Index
  <2>5. FreshBut(view'.pairs, view'.rows, changed)
    <3>1. FreshBut(view'.pairs, view.rows, changed)
      BY <1>6, <2>4, FreshFewer
    <3> QED
      BY <2>3, <2>4, <3>1
  <2>6. FreshBut(stored, view'.rows, changed) /\ FreshBut(emitted, view'.rows, {})
    BY <1>1, <1>5, <2>2, <2>3
  <2> QED
    BY <1>a, <1>b, <1>c, <2>1, <2>2, <2>5, <2>6 DEF FailedEmpty
<1>17. CASE BackStep
  <2>1. /\ UNCHANGED <<stored, emitted, changed>> /\ view' = db /\ db' = db /\ Loaded
        /\ pc' = "persist" \/ (pc = "handlerSave" /\ pc' = "idle")
    BY <1>2, <1>17 DEF BackStep
  <2>2. FreshBut(db.pairs, db.rows, IF Saved' THEN {} ELSE changed)
    BY <1>1, <1>6, <2>1 DEF FailedEmpty, Saved
  <2> QED
    BY <1>1, <1>5, <1>a, <1>b, <1>c, <2>1, <2>2 DEF FailedEmpty
<1> QED
  BY <1>10, <1>11, <1>12, <1>13, <1>14, <1>15, <1>16, <1>17, Shapes DEF Shape

\* So they are fresh at every step.
LEMMA VerdictsInvariant == Spec => [](IInv /\ Order /\ VerdictInv)
<1>1. Init => IInv /\ Order /\ VerdictInv
  BY InitInv, InitOrder, InitVerdicts
<1>2. IInv /\ Order /\ VerdictInv /\ [Next]_vars => (IInv /\ Order /\ VerdictInv)'
  BY StepInv, StepOrder, StepVerdicts
<1> QED
  BY <1>1, <1>2, PTL DEF Spec

\* currentMatchSet and the cleanup of rows leave no verdict on a fingerprint that
\* is gone in a trusted index: whatever order files change, are analysed, and
\* scans are stopped or lose a statement in, for every batch and range size.
THEOREM VerdictsAreFresh == Spec => []VerdictsHold
<1>1. VerdictInv => VerdictsHold
  BY DEF VerdictInv, Gentle, VerdictsHold, NoStaleVerdict, PairsFresh, FreshBut, Fresh, Saved
<1> QED
  BY <1>1, VerdictsInvariant, PTL

-----------------------------------------------------------------------------
(* Pairs.                                                                    *)

Ordinary == Without({"failEarly", "return"})

\* The walk has seen the files behind it that are still there, and a walk that
\* counts as complete has every file behind it.
SeenBehind == pc \in {"walk", "drain", "finish"} => \A f \in present : f < at => f \in seen
WalkedAll  == walkCompleted =>
    pc \notin {"load", "walk"} /\ (pc \in {"drain", "finish"} => at > NFiles)

\* The worker has every pair of unchanged files, ready for the next save.
Traced == Loaded =>
    \A v \in {view, db} : \A m \in v.pairs : Key(m) \cap changed = {} => Key(m) \in NewKeys

\* A commit loses no pair of unchanged files that are there.
Carried == \A m \in db.pairs : Key(m) \subseteq present \ changed => Key(m) \in Keys(view.pairs)

PairInv == Ordinary => SeenBehind /\ WalkedAll /\ Traced /\ Carried

\* Without files that come back there are ever fewer.
LEMMA PresentShrinks == Ordinary /\ [Next]_vars => present' \subseteq present
BY DEF Ordinary, Without, May, Next, Done, vars, diskVars, StartScan, OpenFails, QuickLoad, SkipFile,
       AdmitFile, WalkEnds, DrainImages, DrainVideos, Drained, SettleImage, HarvestVideo, FinishWalk,
       DbFails, EmitMatch, EndSlice, MarkSlice, EndSlices, EndPass, ClearFrontier, StampBaseline,
       FinalPersist, Report, Invalidate, SettledExit, Throw, Unwind, HandlerInvalidates, HandlerSaves,
       RequestStop, Kill, DiskChanges, Edit, Delete, Return

\* Each step keeps that the walk has seen what is behind it.
LEMMA StepSeen ==
    IInv /\ Order /\ SeenBehind /\ WalkedAll /\ Ordinary /\ [Next]_vars => SeenBehind' /\ WalkedAll'
<1> SUFFICES ASSUME IInv, Order, SeenBehind, WalkedAll, Ordinary, [Next]_vars
             PROVE  (SeenBehind /\ WalkedAll)'
  OBVIOUS
<1> USE DEF SeenBehind, WalkedAll, vars, diskVars, dbVars, control, found, walkVars, verdicts, budgets
<1>0. at \in Nat /\ NFiles \in Nat /\ Files \subseteq Nat /\ (\A f \in Files : f >= 1 /\ f <= NFiles)
      /\ present \subseteq Files /\ present' \subseteq present
  BY IndexAssumption, SettingType, PresentShrinks DEF IInv, TypeOK, Files
<1>1. CASE StartScan \/ OpenFails \/ Kill
  BY <1>1 DEF StartScan, OpenFails, Kill, GoTo, FreshWorker
<1>2. CASE QuickLoad
  <2>1. at' = 1 /\ pc' \in {"walk", "persist"} /\ pc = "load" /\ walkCompleted' = walkCompleted
    BY <1>2 DEF QuickLoad, Order, LoadEmpty, GoTo
  <2> QED
    BY <1>0, <2>1
<1>3. CASE AdmitFile
  <2>1. seen' = seen \cup {at} /\ at' = at + 1 /\ pc' = pc /\ pc = "walk" /\ walkCompleted' = walkCompleted
    BY <1>3 DEF AdmitFile, NextFile
  <2> QED
    BY <1>0, <2>1
<1>4. CASE SkipFile
  <2>1. /\ seen' = IF at \in present THEN seen \cup {at} ELSE seen
        /\ at' = at + 1 /\ pc' = pc /\ pc = "walk" /\ present' = present /\ walkCompleted' = walkCompleted
    BY <1>4 DEF SkipFile, NextFile
  <2> QED
    BY <1>0, <2>1
<1>5. CASE SettleImage \/ HarvestVideo
  <2>1. UNCHANGED <<at, seen>> /\ pc \in {"walk", "drain"} /\ walkCompleted' = walkCompleted
    BY <1>5 DEF SettleImage, HarvestVideo, IInv, Transactions, UnitInWalk
  <2>2. pc' = pc \/ (pc' = "drain" /\ cancel)
    BY <1>5 DEF SettleImage, HarvestVideo, GoTo
  <2> QED
    BY <1>0, <2>1, <2>2
<1>6. CASE Throw \/ DbFails
  BY <1>6 DEF Throw, DbFails, GoTo
<1>7. CASE WalkEnds \/ Drained
  BY <1>7 DEF WalkEnds, Drained, GoTo
<1>8. CASE DrainImages \/ DrainVideos \/ RequestStop \/ DiskChanges \/ UNCHANGED vars
  BY <1>0, <1>8 DEF DrainImages, DrainVideos, RequestStop, DiskChanges
<1>9. CASE \/ FinishWalk \/ EmitMatch \/ EndSlice \/ MarkSlice \/ EndSlices \/ EndPass
           \/ ClearFrontier \/ StampBaseline \/ FinalPersist
  BY <1>9 DEF FinishWalk, EmitMatch, EndSlice, MarkSlice, EndSlices, EndPass, ClearFrontier,
              StampBaseline, FinalPersist, GoTo
<1>10. CASE Report \/ Invalidate \/ SettledExit \/ Unwind \/ HandlerInvalidates \/ HandlerSaves
  BY <1>10 DEF Report, Invalidate, SettledExit, Unwind, HandlerInvalidates, HandlerSaves, GoTo
<1> QED
  BY <1>1, <1>2, <1>3, <1>4, <1>5, <1>6, <1>7, <1>8, <1>9, <1>10 DEF Next, Done

\* Every key the worker has, it keeps, unless a file of it is found changed.
LEMMA NewKeysGrow ==
    ASSUME emitted \subseteq emitted', changed \subseteq changed', stored' = stored
    PROVE  \A K \in NewKeys : K \cap changed' = {} => K \in NewKeys'
<1>1. Keys(emitted) \subseteq Keys(emitted')
  BY KeysGrow
<1> QED
  BY <1>1 DEF NewKeys

\* A save between two emissions stores at least what was due before.
LEMMA SaveKeys ==
    ASSUME NEW E, emitted \subseteq E
    PROVE  NewKeys \subseteq Keys(CurrentMatchSet(E))
<1>1. Keys(emitted) \subseteq Keys(E)
  BY KeysGrow
<1> QED
  BY <1>1, KeysOfSave DEF NewKeys

\* Deletion detection leaves the files that are there alone.
LEMMA GoneIsGone ==
    ASSUME IInv, SeenBehind, WalkedAll, pc = "finish" PROVE Gone \cap present = {}
<1>1. at \in Nat /\ \A f \in Files : f \in Nat /\ f <= NFiles
  BY IndexAssumption DEF IInv, TypeOK, Files
<1>2. walkCompleted => \A f \in Files : f < at
  BY <1>1, IndexAssumption DEF WalkedAll
<1> QED
  BY <1>2 DEF Gone, SeenBehind

\* No step of these shapes drops the pair of two unchanged files that are there.
LEMMA ViewKeeps ==
    ASSUME IInv, Order, PairInv, Ordinary,
           PairStep \/ AdmitStep \/ FinishStep \/ \E f \in Files : SettleStep(f),
           NEW m \in db.pairs, Key(m) \subseteq present \ changed
    PROVE  Key(m) \in Keys(view'.pairs)
<1>1. Traced /\ SeenBehind /\ WalkedAll /\ Key(m) \in Keys(view.pairs)
  BY DEF PairInv, Carried
<1>2. Loaded => Key(m) \in NewKeys
  BY <1>1 DEF Traced
<1>3. CASE view'.pairs = view.pairs
  BY <1>1, <1>3
<1>4. ASSUME NEW E, emitted \subseteq E, view'.pairs = CurrentMatchSet(E), Loaded
      PROVE  Key(m) \in Keys(view'.pairs)
  BY <1>2, <1>4, SaveKeys
<1>5. CASE PairStep
  BY <1>3, <1>4, <1>5 DEF PairStep, Loaded
<1>6. CASE AdmitStep
  BY <1>3, <1>6 DEF AdmitStep
<1>7. ASSUME NEW f \in Files, SettleStep(f) PROVE Key(m) \in Keys(view'.pairs)
  BY <1>3, <1>4, <1>7 DEF SettleStep, Loaded
<1>8. CASE FinishStep
  <2>1. view' = Forgetting(view, Gone) /\ pc = "finish"
    BY <1>8 DEF FinishStep
  <2>2. PICK n \in view.pairs : Key(n) = Key(m)
    BY <1>1 DEF Keys
  <2>3. Key(n) \cap Gone = {}
    BY <1>1, <2>1, <2>2, GoneIsGone
  <2>4. n \in view'.pairs
    BY <2>1, <2>3, ForgetFields DEF IInv, TypeOK
  <2> QED
    BY <2>2, <2>4 DEF Keys
<1> QED
  BY <1>5, <1>6, <1>7, <1>8

\* A quick load loads what is durable, without the files that are gone.
LEMMA LoadEffect ==
    ASSUME IInv, Order, QuickLoad
    PROVE  /\ view = db /\ db' = view' /\ stored' = view'.pairs
           /\ view' = Forgetting(view, (UNION Keys(view.pairs)) \ present)
           /\ changed' = {} /\ emitted' = {}
           /\ pc = "load" /\ pc' \in {"walk", "persist"}
           /\ pc' = "persist" => May("dbFail")
BY DEF QuickLoad, IInv, Transactions, TxScope, TxDiscipline, Order, LoadEmpty, GoTo

\* No step loses the durable pair of two unchanged files that are there.
LEMMA StepKeepsPairs == IInv /\ Order /\ PairInv /\ Ordinary /\ [Next]_vars => KeepsPairs
<1> SUFFICES ASSUME IInv, Order, PairInv, Ordinary, [Next]_vars,
                    NEW m \in db.pairs, Key(m) \subseteq present \ changed
             PROVE  Key(m) \in Keys(db'.pairs)
  BY DEF KeepsPairs
<1>1. CASE db'.pairs = db.pairs
  BY <1>1 DEF Keys
<1>2. CASE QuickLoad
  <2>1. m \in view'.pairs
    BY <1>2, LoadEffect, ForgetFields DEF IInv, TypeOK
  <2> QED
    BY <1>2, <2>1, LoadEffect DEF Keys
<1>3. CASE db' = view' /\ (PairStep \/ AdmitStep \/ FinishStep \/ \E f \in Files : SettleStep(f))
  BY <1>3, ViewKeeps
<1>4. FreshStep \/ EarlyStep \/ BackStep => db'.pairs = db.pairs
  BY DEF FreshStep, EarlyStep, BackStep, Stays
<1>5. CASE PairStep \/ AdmitStep \/ FinishStep
  BY <1>1, <1>3, <1>5 DEF PairStep, AdmitStep, FinishStep, Stays
<1>6. ASSUME NEW f \in Files, SettleStep(f) PROVE Key(m) \in Keys(db'.pairs)
  BY <1>1, <1>3, <1>6 DEF SettleStep
<1> QED
  BY <1>1, <1>2, <1>4, <1>5, <1>6, Shapes DEF Shape

\* Each step keeps the pairs.
LEMMA StepPairs == IInv /\ Order /\ PairInv /\ [Next]_vars => PairInv'
<1> SUFFICES ASSUME IInv, Order, PairInv, [Next]_vars, Ordinary PROVE PairInv'
  BY SettingKept DEF PairInv, Ordinary, Without
<1>1. SeenBehind /\ WalkedAll /\ Traced /\ Carried /\ view \in Index
  BY DEF PairInv, IInv, TypeOK
<1>2. SeenBehind' /\ WalkedAll'
  BY <1>1, StepSeen
<1>3. present' \subseteq present
  BY PresentShrinks
<1>4. SUFFICES Traced' /\ Carried'
  BY <1>2 DEF PairInv
<1>5. view' = db' => Carried'
  BY DEF Carried, Keys
<1>6. ~Loaded' => Traced'
  BY DEF Traced
<1>7. Loaded => \A m \in view.pairs \cup db.pairs : Key(m) \cap changed = {} => Key(m) \in NewKeys
  BY <1>1 DEF Traced
<1>8. ASSUME \A m \in view'.pairs \cup db'.pairs : Key(m) \cap changed' = {} => Key(m) \in NewKeys'
      PROVE  Traced'
  BY <1>8 DEF Traced
<1>9. ASSUME PairStep \/ AdmitStep \/ FinishStep \/ (\E f \in Files : SettleStep(f)),
             changed \subseteq changed', Stays(db', db)
      PROVE  Carried'
  <2> SUFFICES ASSUME NEW m \in db'.pairs, Key(m) \subseteq present' \ changed'
               PROVE  Key(m) \in Keys(view'.pairs)
    BY DEF Carried
  <2>1. m \in db.pairs /\ Key(m) \subseteq present \ changed
    BY <1>3, <1>9 DEF Stays
  <2> QED
    BY <1>9, <2>1, ViewKeeps
<1>10. ASSUME Loaded, emitted \subseteq emitted', changed \subseteq changed', stored' = stored,
              NEW m, Key(m) \cap changed' = {}, 
              \/ m \in view.pairs \cup db.pairs
              \/ \E E : E \subseteq emitted' /\ m \in CurrentMatchSet(E)
       PROVE  Key(m) \in NewKeys'
  <2>1. CASE m \in view.pairs \cup db.pairs
    BY <1>7, <1>10, <2>1, NewKeysGrow
  <2>2. CASE \E E : E \subseteq emitted' /\ m \in CurrentMatchSet(E)
    <3>1. m \in stored \/ m \in emitted'
      BY <2>2 DEF CurrentMatchSet
    <3> QED
      BY <1>10, <3>1 DEF NewKeys, Keys
  <2> QED
    BY <1>10, <2>1, <2>2
<1>11. CASE FreshStep
  BY <1>5, <1>6, <1>11 DEF FreshStep, Loaded, Ordinary, Without, May
<1>12. CASE EarlyStep
  BY <1>12 DEF EarlyStep, Ordinary, Without, May
<1>13. CASE QuickLoad
  <2>1. Traced'
    BY <1>8, <1>13, LoadEffect DEF NewKeys, Keys
  <2> QED
    BY <1>5, <1>13, <2>1, LoadEffect
<1>14. CASE PairStep
  <2>1. emitted \subseteq emitted' /\ changed' = changed /\ stored' = stored
    BY <1>14 DEF PairStep
  <2>2. Carried'
    BY <1>5, <1>9, <1>14, <2>1 DEF PairStep
  <2>3. Traced'
    <3>1. CASE Loaded'
      <4>1. Loaded /\ \A m \in view'.pairs \cup db'.pairs :
               \/ m \in view.pairs \cup db.pairs
               \/ m \in CurrentMatchSet(emitted')
        BY <1>14, <3>1 DEF PairStep, Stays
      <4> QED
        BY <1>8, <1>10, <2>1, <4>1
    <3> QED
      BY <1>6, <3>1
  <2> QED
    BY <2>2, <2>3
<1>15. CASE AdmitStep
  <2>1. emitted \subseteq emitted' /\ changed \subseteq changed' /\ stored' = stored /\ Loaded
    BY <1>15 DEF AdmitStep, Loaded
  <2>2. Carried'
    BY <1>5, <1>9, <1>15, <2>1 DEF AdmitStep, Stays
  <2>3. \A m \in view'.pairs \cup db'.pairs : m \in view.pairs \cup db.pairs
    BY <1>15 DEF AdmitStep
  <2> QED
    BY <1>8, <1>10, <2>1, <2>2, <2>3
<1>16. ASSUME NEW f \in Files, SettleStep(f) PROVE Traced' /\ Carried'
  <2>1. emitted \subseteq emitted' /\ changed' = changed /\ stored' = stored /\ Loaded
    BY <1>16 DEF SettleStep, Loaded
  <2>2. Carried'
    BY <1>5, <1>9, <1>16, <2>1 DEF SettleStep, Stays
  <2>3. \A m \in view'.pairs \cup db'.pairs :
               \/ m \in view.pairs \cup db.pairs
               \/ \E E : E \subseteq emitted' /\ m \in CurrentMatchSet(E)
    BY <1>16 DEF SettleStep
  <2> QED
    BY <1>8, <1>10, <2>1, <2>2, <2>3
<1>17. CASE FinishStep
  <2>1. view'.pairs \subseteq view.pairs /\ db' = view' /\ UNCHANGED <<stored, emitted, changed>> /\ Loaded
    BY <1>1, <1>17, ForgetFields DEF FinishStep, Loaded
  <2> QED
    BY <1>5, <1>8, <1>10, <2>1
<1>18. CASE BackStep
  <2>1. view' = db /\ db' = db /\ UNCHANGED <<stored, emitted, changed>> /\ Loaded
    BY <1>18 DEF BackStep
  <2> QED
    BY <1>5, <1>8, <1>10, <2>1
<1> QED
  BY <1>11, <1>12, <1>13, <1>14, <1>15, <1>16, <1>17, <1>18, Shapes DEF Shape

\* There is no pair at first.
LEMMA InitPairs == Init => PairInv
BY DEF Init, PairInv, SeenBehind, WalkedAll, Traced, Carried, Loaded, EmptyIndex

\* So they are kept at every step.
LEMMA PairsInvariant == Spec => [](IInv /\ Order /\ PairInv)
<1>1. Init => IInv /\ Order /\ PairInv
  BY InitInv, InitOrder, InitPairs
<1>2. IInv /\ Order /\ PairInv /\ [Next]_vars => (IInv /\ Order /\ PairInv)'
  BY StepInv, StepOrder, StepPairs
<1> QED
  BY <1>1, <1>2, PTL DEF Spec

\* No save replaces the stored pairs by fewer (currentMatchSet starts from what
\* was loaded), no commit or rollback and no cleanup of rows drops the pair of two
\* unchanged files on disk, however a scan ends, is stopped, fails or is killed.
THEOREM NoPairIsLost == Spec => PairsKept
<1>1. IInv /\ Order /\ PairInv /\ [Next]_vars => [Without({"failEarly", "return"}) => KeepsPairs]_vars
  BY StepKeepsPairs DEF Ordinary
<1> QED
  BY <1>1, PairsInvariant, PTL DEF Spec, PairsKept

-----------------------------------------------------------------------------
(* A scan that nothing stops: it ends, or its process or transaction does.   *)

\* Nobody stops the scan, and none of its statements fails; an exception leaves
\* the transaction open, and with it the marker in what is durable.
Unstopped ==
    /\ ~cancel /\ completed /\ pc # "invalidate"
    /\ pc \in {"unwind", "handler", "handlerSave"} => tx /\ db.dirty

AbruptInv == Abrupt => Unstopped

\* In an abrupt setting the scan dies, or throws with its transaction open: nothing else goes wrong.
LEMMA AbruptIs ==
    ASSUME Abrupt
    PROVE  /\ ~May("stop") /\ ~May("saveFail") /\ ~May("dbFail") /\ ~May("throw")
           /\ ~May("failEarly") /\ ~May("return")
           /\ Ordinary
BY DEF Abrupt, AtMost, May, Ordinary, Without

\* No scan was stopped at first.
LEMMA InitAbrupt == Init => AbruptInv
BY DEF Init, AbruptInv, Unstopped

\* No step of an abrupt setting stops a scan.
LEMMA StepAbrupt == IInv /\ AbruptInv /\ [Next]_vars => AbruptInv'
<1> SUFFICES ASSUME IInv, Unstopped, Abrupt, [Next]_vars PROVE Unstopped'
  BY SettingKept DEF AbruptInv, Abrupt, AtMost
<1> USE DEF Unstopped, vars, diskVars, dbVars, control, found, walkVars, verdicts, budgets
<1>1. CASE StartScan \/ OpenFails \/ Kill
  BY <1>1, AbruptIs DEF StartScan, OpenFails, Kill, GoTo, FreshWorker
<1>0. cancel = FALSE /\ completed = TRUE
  BY DEF IInv, TypeOK
<1>2. CASE QuickLoad \/ AdmitFile \/ SkipFile
  <2>1. pc' \in {"walk", "persist"} /\ UNCHANGED <<cancel, completed>>
    BY <1>2 DEF QuickLoad, AdmitFile, SkipFile, NextFile, GoTo
  <2> QED
    BY <2>1
<1>5. CASE SettleImage \/ HarvestVideo
  <2>1. pc' \in {"walk", "drain"} /\ UNCHANGED <<cancel, completed>>
    BY <1>5 DEF SettleImage, HarvestVideo, IInv, Transactions, UnitInWalk, GoTo
  <2> QED
    BY <2>1
<1>6. CASE Throw
  <2>1. pc \in {"drain", "finish"}
    BY <1>6, AbruptIs DEF Throw
  <2>2. tx /\ db.dirty
    BY <2>1 DEF IInv, Transactions, TxOpen, Marked, UnderWay
  <2> QED
    BY <1>6, <2>1, <2>2 DEF Throw, GoTo
<1>7. CASE DbFails \/ RequestStop
  BY <1>7, AbruptIs DEF DbFails, RequestStop
<1>8. CASE WalkEnds \/ Drained \/ DrainImages \/ DrainVideos
  <2>1. pc' \in {"drain", "finish"} /\ UNCHANGED <<cancel, completed>>
    BY <1>8 DEF WalkEnds, Drained, DrainImages, DrainVideos, GoTo
  <2> QED
    BY <2>1
<1>9. CASE \/ FinishWalk \/ EmitMatch \/ EndSlice \/ MarkSlice \/ EndSlices \/ EndPass
           \/ ClearFrontier
  <2>1. pc' \in {"slices", "sliceMark", "pass", "passEnd", "stamp"} /\ UNCHANGED <<cancel, completed>>
    BY <1>9 DEF FinishWalk, EmitMatch, EndSlice, MarkSlice, EndSlices, EndPass, ClearFrontier, GoTo
  <2> QED
    BY <2>1
<1>10. CASE StampBaseline \/ FinalPersist
  <2>1. pc' \in {"persist", "report"} /\ cancel' = FALSE /\ completed' = TRUE
    BY <1>0, <1>10, AbruptIs DEF StampBaseline, FinalPersist, GoTo
  <2> QED
    BY <2>1
<1>11. CASE Report \/ Invalidate \/ SettledExit
  <2>1. pc' \in {"settle", "idle"} /\ UNCHANGED <<cancel, completed>>
    BY <1>0, <1>11 DEF Report, Invalidate, SettledExit, LeftIncomplete, GoTo
  <2> QED
    BY <2>1
<1>12. CASE Unwind \/ HandlerInvalidates \/ HandlerSaves
  <2>1. CASE HandlerSaves
    <3>1. pc' = "idle" /\ UNCHANGED <<cancel, completed>>
      BY <2>1 DEF HandlerSaves, GoTo
    <3> QED
      BY <3>1
  <2>2. CASE Unwind \/ HandlerInvalidates
    <3>1. pc \in {"unwind", "handler"} /\ UNCHANGED <<cancel, completed>> /\ tx' = tx /\ (tx => db' = db)
      BY <2>2 DEF Unwind, HandlerInvalidates, Write
    <3>2. pc' \in {"handler", "handlerSave"}
      BY <2>2 DEF Unwind, HandlerInvalidates, GoTo
    <3>3. tx /\ db.dirty
      BY <3>1
    <3> QED
      BY <3>1, <3>2, <3>3
  <2> QED
    BY <1>12, <2>1, <2>2
<1>13. CASE DiskChanges \/ UNCHANGED vars
  <2>1. UNCHANGED <<pc, cancel, completed, tx, db>>
    BY <1>13 DEF DiskChanges
  <2> QED
    BY <2>1
<1> QED
  BY <1>1, <1>2, <1>5, <1>6, <1>7, <1>8, <1>9, <1>10, <1>11, <1>12, <1>13 DEF Next, Done

-----------------------------------------------------------------------------
(* Ranks.                                                                    *)

\* A scan of the whole folder leaves nothing out.
LEMMA ScopeIsAll == ASSUME IInv, WholeFolder PROVE InScope = Files
BY DEF IInv, TypeOK, WholeFolder, InScope

\* There are finitely many files.
LEMMA FilesFinite == IsFiniteSet(Files)
<1>1. 1 \in Int /\ NFiles \in Int
  BY IndexAssumption
<1> QED
  BY <1>1, FS_Interval DEF Files

\* The rank of a group is below the number of groups.
LEMMA RankBelow ==
    ASSUME NEW r, NEW f \in ImageGroups(r)
    PROVE  /\ Rank(r, f) \in Nat /\ Cardinality(ImageGroups(r)) \in Nat
           /\ Rank(r, f) < Cardinality(ImageGroups(r))
<1> DEFINE G == ImageGroups(r)
           B == {g \in G : g < f}
<1>1. IsFiniteSet(G) /\ f \in Nat
  <2>1. G \subseteq Files
    BY DEF ImageGroups, Images
  <2> QED
    BY <2>1, FilesFinite, FS_Subset, IndexAssumption DEF Files
<1>2. Cardinality(G \ {f}) = Cardinality(G) - 1 /\ IsFiniteSet(G \ {f})
  BY <1>1, FS_RemoveElement
<1>3. B \subseteq G \ {f}
  BY <1>1
<1>4. IsFiniteSet(B) /\ Cardinality(B) <= Cardinality(G \ {f})
  BY <1>2, <1>3, FS_Subset
<1>5. Cardinality(B) \in Nat /\ Cardinality(G) \in Nat /\ Cardinality(G \ {f}) \in Nat
  BY <1>1, <1>2, <1>4, FS_CardinalityType
<1> QED
  BY <1>2, <1>4, <1>5 DEF Rank

\* A pair belongs to the group of its first file.
LEMMA GroupOfPair ==
    ASSUME NEW r, NEW q, NEW f \in Files, NEW g \in Files, f < g
    PROVE  GroupOf(r, PairOf(q, f, g)) = Rank(r, f)
<1>1. Key(PairOf(q, f, g)) = {f, g}
  BY KeyOfPair
<1>2. f \in Nat /\ g \in Nat
  BY IndexAssumption DEF Files
<1>3. (CHOOSE x \in {f, g} : \A y \in {f, g} : x <= y) = f
  BY <1>2
<1> QED
  BY <1>1, <1>3 DEF GroupOf

-----------------------------------------------------------------------------
(* The frontier.                                                             *)

\* A file as the frontier key holds it, and the images among the files of a
\* frontier or of the rows before f.
Entry(r, f)  == <<f, r[f].ver, r[f].fp>>
RankIn(F, f) == Cardinality({g \in Images : g < f /\ \E e \in F : e[1] = g})
RankOf(r, f) == Cardinality({g \in Images : g < f /\ HasFp(r, g)})

\* The alike images whose rows are those of the frontier F have their pair in
\* KS, if their group was done with.
DoneIn(F, r, KS) ==
    \A f, g \in Images :
        /\ Alike(r, f, g) /\ Entry(r, f) \in F.files /\ Entry(r, g) \in F.files
        /\ RankIn(F.files, f) < F.done
        => {f, g} \in KS

\* A file of a frontier has the row it had then, is gone, or has had a later
\* version admitted; no row is ahead of the disk d.
Past(F, r, S, d) ==
    /\ \A e \in F.files : \/ r[e[1]] = Indexed(e[2], e[3])
                          \/ r[e[1]] = NoRow /\ e[1] \notin S
                          \/ r[e[1]].ver > e[2]
    /\ \A f \in Files : r[f].ver <= d[f]

\* The alike images of r in the first n groups, and in all groups.
Below(r, n, KS) == \A f, g \in Images : Alike(r, f, g) /\ RankOf(r, f) < n => {f, g} \in KS
EachIn(r, KS)   == \A f, g \in Images : Alike(r, f, g) => {f, g} \in KS

\* The slices of a Sequential pass that are behind it.
SliceDone ==
    /\ pc \in {"slices", "sliceMark"} => Below(view.rows, slice, NewKeys)
    /\ pc = "sliceMark" => Below(view.rows, slice, Keys(view.pairs))
    /\ pc = "pass" /\ mode = "Sequential" => EachIn(view.rows, NewKeys)

FrontierPart ==
    /\ Past(view.frontier, view.rows, present, disk) /\ DoneIn(view.frontier, view.rows, Keys(view.pairs))
    /\ Past(db.frontier, db.rows, present, disk) /\ DoneIn(db.frontier, db.rows, Keys(db.pairs))
    /\ Loaded => DoneIn(view.frontier, view.rows, NewKeys)

FrontierInv == WholeFolder /\ Abrupt => FrontierPart /\ SliceDone

\* The version of a file on the disk never goes back.
LEMMA DiskGrows == IInv /\ [Next]_vars => \A f \in Files : disk[f] <= disk'[f]
<1> SUFFICES ASSUME IInv, [Next]_vars, NEW f \in Files PROVE disk[f] <= disk'[f]
  OBVIOUS
<1>1. disk \in [Files -> Nat]
  BY IndexAssumption DEF IInv, TypeOK, Versions
<1>2. CASE DiskChanges
  BY <1>1, <1>2 DEF DiskChanges, Edit, Delete, Return
<1>3. CASE ~DiskChanges
  <2>1. disk' = disk
    BY <1>3 DEF Next, Done, vars, diskVars, StartScan, OpenFails, QuickLoad, SkipFile, AdmitFile, WalkEnds,
       DrainImages, DrainVideos, Drained, SettleImage, HarvestVideo, FinishWalk, DbFails, EmitMatch,
       EndSlice, MarkSlice, EndSlices, EndPass, ClearFrontier, StampBaseline, FinalPersist, Report,
       Invalidate, SettledExit, Throw, Unwind, HandlerInvalidates, HandlerSaves, RequestStop, Kill
  <2> QED
    BY <1>1, <2>1
<1> QED
  BY <1>2, <1>3

\* While the whole folder is scanned the frontier key is of all indexed files.
LEMMA KeyOfAll ==
    ASSUME IInv, WholeFolder, NEW r
    PROVE  /\ FrontierKey(r) = {Entry(r, f) : f \in {g \in Files : HasFp(r, g)}}
           /\ ImageGroups(r) = {f \in Images : HasFp(r, f)}
           /\ \A f \in Images : Rank(r, f) = RankOf(r, f) /\ RankIn(FrontierKey(r), f) = RankOf(r, f)
<1>1. InScope = Files
  BY ScopeIsAll
<1>2. FrontierKey(r) = {Entry(r, f) : f \in {g \in Files : HasFp(r, g)}}
  BY <1>1 DEF FrontierKey, Entry
<1>3. ImageGroups(r) = {f \in Images : HasFp(r, f)}
  BY <1>1 DEF ImageGroups, Images
<1>4. ASSUME NEW f \in Images PROVE Rank(r, f) = RankOf(r, f) /\ RankIn(FrontierKey(r), f) = RankOf(r, f)
  <2>1. {g \in ImageGroups(r) : g < f} = {g \in Images : g < f /\ HasFp(r, g)}
    BY <1>3
  <2>2. \A g \in Images : (\E e \in FrontierKey(r) : e[1] = g) <=> HasFp(r, g)
    <3>1. \A h : Entry(r, h)[1] = h
      BY DEF Entry
    <3>2. \A g \in Images : g \in Files
      BY DEF Images
    <3> QED
      BY <1>2, <3>1, <3>2
  <2>3. {g \in Images : g < f /\ \E e \in FrontierKey(r) : e[1] = g} = {g \in Images : g < f /\ HasFp(r, g)}
    BY <2>2
  <2> QED
    BY <2>1, <2>3 DEF Rank, RankIn, RankOf
<1> QED
  BY <1>2, <1>3, <1>4

\* Rows that do not come back to a frontier keep what it says done.
Recedes(F, r, q) == \A f \in Files : HasFp(q, f) /\ Entry(q, f) \in F.files => q[f] = r[f]

\* What a frontier claims stays true of rows that only moved away from it, when the keys of the
\* pairs that remain are kept.
LEMMA DoneCarried ==
    ASSUME NEW F, NEW r, NEW q, NEW KS, NEW LS, Recedes(F, r, q), DoneIn(F, r, KS),
           \A f, g \in Images : HasFp(q, f) /\ HasFp(q, g) /\ {f, g} \in KS => {f, g} \in LS
    PROVE  DoneIn(F, q, LS)
<1> SUFFICES ASSUME NEW f \in Images, NEW g \in Images, Alike(q, f, g), Entry(q, f) \in F.files,
                    Entry(q, g) \in F.files, RankIn(F.files, f) < F.done
             PROVE  {f, g} \in LS
  BY DEF DoneIn
<1>1. HasFp(q, f) /\ HasFp(q, g) /\ f \in Files /\ g \in Files
  BY DEF Alike, Images
<1>2. q[f] = r[f] /\ q[g] = r[g]
  BY <1>1 DEF Recedes
<1>3. Alike(r, f, g) /\ Entry(r, f) = Entry(q, f) /\ Entry(r, g) = Entry(q, g)
  BY <1>2 DEF Alike, HasFp, Entry
<1> QED
  BY <1>1, <1>3 DEF DoneIn

\* What is past stays past as the disk goes on and files vanish.
LEMMA PastStays ==
    ASSUME NEW F, NEW r, r \in [Files -> Row], NEW S, NEW T, T \subseteq S, NEW d, NEW c,
           d \in [Files -> Nat], c \in [Files -> Nat], \A f \in Files : d[f] <= c[f],
           Past(F, r, S, d)
    PROVE  Past(F, r, T, c)
<1>1. \A f \in Files : r[f].ver \in Nat
  BY IndexAssumption DEF Row
<1> QED
  BY <1>1 DEF Past

\* One row changes: it becomes a skeleton of the disk's version, or the result
\* of the analysis of a skeleton.
LEMMA PastRow ==
    ASSUME NEW F, F.files \subseteq Files \X (0..MaxVer) \X (0..MaxVer), NEW r, r \in [Files -> Row],
           NEW S, NEW d \in [Files -> Nat], Past(F, r, S, d),
           NEW f \in Files, NEW row \in Row,
           \/ f \in S /\ row = Skeleton(d[f]) /\ ~(r[f].state \in {"indexed", "failed"} /\ r[f].ver = d[f])
           \/ r[f].state = "skeleton" /\ row.ver = r[f].ver
    PROVE  Past(F, [r EXCEPT ![f] = row], S, d) /\ Recedes(F, r, [r EXCEPT ![f] = row])
<1> DEFINE q == [r EXCEPT ![f] = row]
<1>1. (\A g \in Files : q[g] = IF g = f THEN row ELSE r[g]) /\ r[f] \in Row
  OBVIOUS
<1>2. \A e \in F.files : e[1] \in Files /\ e[2] \in Nat
  BY IndexAssumption
<1>3. r[f].ver \in Nat /\ row.ver \in Nat /\ r[f].ver <= d[f] /\ d[f] \in Nat
  BY <1>1, IndexAssumption DEF Row, Past
<1>4. row.ver <= d[f]
  BY <1>3 DEF Skeleton
<1>5. ASSUME NEW e \in F.files, e[1] = f PROVE row.ver > e[2]
  <2>0. \/ r[f] = Indexed(e[2], e[3])
        \/ r[f] = NoRow /\ f \notin S
        \/ r[f].ver > e[2]
    BY <1>5 DEF Past
  <2>e. /\ Indexed(e[2], e[3]).state = "indexed" /\ Indexed(e[2], e[3]).ver = e[2]
        /\ NoRow.state = "absent"
    BY DEF Indexed, NoRow
  <2>1. CASE f \in S /\ row = Skeleton(d[f]) /\ ~(r[f].state \in {"indexed", "failed"} /\ r[f].ver = d[f])
    <3>1. row.ver = d[f]
      BY <2>1 DEF Skeleton
    <3>2. \/ r[f].state = "indexed" /\ r[f].ver = e[2]
          \/ r[f].ver > e[2]
      BY <2>0, <2>1, <2>e
    <3> QED
      BY <1>2, <1>3, <2>1, <3>1, <3>2
  <2>2. CASE r[f].state = "skeleton" /\ row.ver = r[f].ver
    BY <2>0, <2>2, <2>e
  <2> QED
    BY <2>1, <2>2
<1>6. Recedes(F, r, q)
  <2> SUFFICES ASSUME NEW g \in Files, HasFp(q, g), Entry(q, g) \in F.files PROVE q[g] = r[g]
    BY DEF Recedes
  <2>1. CASE g = f
    <3>1. Entry(q, f)[1] = f /\ Entry(q, f)[2] = row.ver
      BY <1>1 DEF Entry
    <3> QED
      BY <1>3, <1>5, <2>1, <3>1
  <2>2. CASE g # f
    BY <1>1, <2>2
  <2> QED
    BY <2>1, <2>2
<1>7. Past(F, q, S, d)
  <2>1. ASSUME NEW e \in F.files
        PROVE  \/ q[e[1]] = Indexed(e[2], e[3])
               \/ q[e[1]] = NoRow /\ e[1] \notin S
               \/ q[e[1]].ver > e[2]
    BY <1>1, <1>2, <1>5, <2>1 DEF Past
  <2>2. \A g \in Files : q[g].ver <= d[g]
    BY <1>1, <1>4 DEF Past
  <2> HIDE DEF q
  <2> QED
    BY <2>1, <2>2 DEF Past
<1> QED
  BY <1>6, <1>7

\* It stays past when files are forgotten.
LEMMA PastForgetting ==
    ASSUME NEW F, F.files \subseteq Files \X (0..MaxVer) \X (0..MaxVer), NEW v \in Index,
           NEW S, NEW d \in [Files -> Nat], Past(F, v.rows, S, d), NEW gone, gone \cap S = {}
    PROVE  Past(F, Forgetting(v, gone).rows, S, d) /\ Recedes(F, v.rows, Forgetting(v, gone).rows)
<1> DEFINE q == Forgetting(v, gone).rows
<1>1. \A f \in Files : q[f] = IF f \in gone THEN NoRow ELSE v.rows[f]
  BY ForgetFields
<1>2. \A e \in F.files : e[1] \in Files
  OBVIOUS
<1>3. NoRow.ver = 0 /\ NoRow.state = "absent"
  BY DEF NoRow
<1> HIDE DEF q
<1>4. Recedes(F, v.rows, q)
  BY <1>1, <1>3 DEF Recedes, HasFp
<1>5. \A f \in Files : q[f].ver <= d[f]
  BY <1>1, <1>3 DEF Past
<1>6. ASSUME NEW e \in F.files
      PROVE  \/ q[e[1]] = Indexed(e[2], e[3])
             \/ q[e[1]] = NoRow /\ e[1] \notin S
             \/ q[e[1]].ver > e[2]
  BY <1>1, <1>2, <1>6 DEF Past
<1> QED
  BY <1>4, <1>5, <1>6 DEF Past, q

-----------------------------------------------------------------------------
(* The steps of a scan leave what the frontier says done.                    *)

\* The fields of an index.
LEMMA IndexParts ==
    ASSUME NEW v \in Index
    PROVE  /\ v.rows \in [Files -> Row] /\ v.pairs \subseteq Matches
           /\ v.frontier.files \subseteq Files \X (0..MaxVer) \X (0..MaxVer)
           /\ v.frontier.done \in 0..NFiles
BY DEF Index

\* The disk has a version of every file, before a step and after it.
LEMMA DisksAre == IInv /\ IInv' => disk \in [Files -> Nat] /\ disk' \in [Files -> Nat]
<1>1. Versions \subseteq Nat
  BY IndexAssumption DEF Versions
<1>2. IInv => disk \in [Files -> Versions]
  BY DEF IInv, TypeOK
<1>3. IInv' => disk' \in [Files -> Versions]
  BY DEF IInv, TypeOK
<1> QED
  BY <1>1, <1>2, <1>3

\* An index that is not written stays past its frontier.
LEMMA PastOfTime ==
    ASSUME IInv, Ordinary, [Next]_vars, NEW F, NEW r \in [Files -> Row], Past(F, r, present, disk)
    PROVE  Past(F, r, present', disk')
<1>1. IInv'
  BY StepInv
<1>2. present' \subseteq present /\ \A f \in Files : disk[f] <= disk'[f]
  BY PresentShrinks, DiskGrows
<1> QED
  BY <1>1, <1>2, DisksAre, PastStays

Moves(f) == PairStep \/ AdmitStep \/ FinishStep \/ SettleStep(f)

\* The keys of the worker that are about indexed files survive such a step, and
\* so do the stored ones, unless a save replaces them by the worker's.
LEMMA MovesKeepKeys ==
    ASSUME IInv, Unstopped, NEW x, Moves(x)
    PROVE  /\ Loaded' => Loaded
           /\ Loaded => \A f, g \in Images :
                HasFp(view'.rows, f) /\ HasFp(view'.rows, g) /\ {f, g} \in NewKeys => {f, g} \in NewKeys'
           /\ \/ Loaded /\ NewKeys \subseteq Keys(view'.pairs)
              \/ \A f, g \in Images :
                   HasFp(view'.rows, f) /\ HasFp(view'.rows, g) /\ {f, g} \in Keys(view.pairs)
                     => {f, g} \in Keys(view'.pairs)
<1> DEFINE Grow == Loaded => \A f, g \in Images :
                HasFp(view'.rows, f) /\ HasFp(view'.rows, g) /\ {f, g} \in NewKeys => {f, g} \in NewKeys'
<1>0. view \in Index /\ view.rows \in [Files -> Row]
  BY IndexParts DEF IInv, TypeOK
<1>1. ASSUME emitted \subseteq emitted', changed' = changed, stored' = stored PROVE Grow
  <2>1. Keys(emitted) \subseteq Keys(emitted')
    BY <1>1, KeysGrow
  <2> QED
    BY <1>1, <2>1 DEF NewKeys
<1> HIDE DEF Grow
<1>2. CASE PairStep
  <2>1. emitted \subseteq emitted' /\ changed' = changed /\ stored' = stored /\ (Loaded' => Loaded)
    BY <1>2 DEF PairStep
  <2>2. CASE view'.pairs = view.pairs
    BY <1>1, <2>1, <2>2 DEF Grow
  <2>3. CASE Loaded /\ view'.pairs = CurrentMatchSet(emitted')
    <3>1. NewKeys \subseteq Keys(view'.pairs)
      BY <2>1, <2>3, SaveKeys
    <3> QED
      BY <1>1, <2>1, <2>3, <3>1 DEF Grow
  <2> QED
    BY <1>2, <2>2, <2>3 DEF PairStep, Unstopped, Loaded
<1>3. CASE AdmitStep
  <2>1. view'.rows = [view.rows EXCEPT ![at] = Skeleton(disk[at])] /\ view'.pairs = view.pairs
        /\ changed' = changed \cup {at} /\ emitted' = emitted /\ stored' = stored /\ Loaded /\ at \in Files
    BY <1>3 DEF AdmitStep, Loaded
  <2>2. ~HasFp(view'.rows, at)
    BY <1>0, <2>1 DEF HasFp, Skeleton
  <2>3. ASSUME NEW f \in Images, NEW g \in Images, HasFp(view'.rows, f), HasFp(view'.rows, g), {f, g} \in NewKeys
        PROVE  {f, g} \in NewKeys'
    <3>1. f # at /\ g # at
      BY <2>2, <2>3
    <3> QED
      BY <2>1, <2>3, <3>1 DEF NewKeys
  <2> QED
    BY <2>1, <2>3
<1>4. CASE SettleStep(x)
  <2>1. emitted \subseteq emitted' /\ changed' = changed /\ stored' = stored /\ Loaded
    BY <1>4 DEF SettleStep, Loaded
  <2>2. CASE view'.pairs = view.pairs
    BY <1>1, <2>1, <2>2 DEF Grow
  <2>3. ASSUME NEW E, emitted \subseteq E, view'.pairs = CurrentMatchSet(E)
        PROVE  NewKeys \subseteq Keys(view'.pairs)
    BY <2>3, SaveKeys
  <2> QED
    BY <1>1, <1>4, <2>1, <2>2, <2>3 DEF SettleStep, Grow
<1>5. CASE FinishStep
  <2>1. view' = Forgetting(view, Gone) /\ emitted' = emitted /\ changed' = changed /\ stored' = stored /\ Loaded
    BY <1>5 DEF FinishStep, Loaded
  <2>2. ASSUME NEW f \in Images, NEW g \in Images, HasFp(view'.rows, f), HasFp(view'.rows, g),
               {f, g} \in Keys(view.pairs)
        PROVE  {f, g} \in Keys(view'.pairs)
    <3>1. f \notin Gone /\ g \notin Gone
      <4>1. f \in Files /\ g \in Files /\ ~(NoRow.state = "indexed")
        BY DEF Images, NoRow
      <4> QED
        BY <1>0, <2>1, <2>2, <4>1, ForgetFields DEF HasFp
    <3>2. PICK m \in view.pairs : Key(m) = {f, g}
      BY <2>2 DEF Keys
    <3>3. m \in view'.pairs
      BY <1>0, <2>1, <3>1, <3>2, ForgetFields
    <3> QED
      BY <3>2, <3>3 DEF Keys
  <2> QED
    BY <1>1, <2>1, <2>2 DEF Grow
<1> QED
  BY <1>2, <1>3, <1>4, <1>5 DEF Moves

\* A step that moves rows moves them away from the frontier, never back to it.
LEMMA MovesRecede ==
    ASSUME IInv, Order, PairInv, Ordinary, Past(view.frontier, view.rows, present, disk),
           NEW x, Moves(x)
    PROVE  /\ Past(view.frontier, view'.rows, present, disk)
           /\ Recedes(view.frontier, view.rows, view'.rows)
<1>0. /\ view \in Index /\ view.rows \in [Files -> Row] /\ disk \in [Files -> Nat] /\ disk \in [Files -> Versions]
      /\ view.frontier.files \subseteq Files \X (0..MaxVer) \X (0..MaxVer)
  <2>1. view \in Index /\ disk \in [Files -> Versions]
    BY DEF IInv, TypeOK
  <2>2. disk \in [Files -> Nat]
    BY <2>1, IndexAssumption DEF Versions
  <2> QED
    BY <2>1, <2>2, IndexParts
<1>1. CASE PairStep
  BY <1>1 DEF PairStep, Recedes
<1>2. CASE AdmitStep
  <2>1. at \in Files /\ at \in present /\ view'.rows = [view.rows EXCEPT ![at] = Skeleton(disk[at])]
        /\ ~(view.rows[at].state \in {"indexed", "failed"} /\ view.rows[at].ver = disk[at])
    BY <1>2 DEF AdmitStep, Unchanged
  <2>2. Skeleton(disk[at]) \in Row
    BY <1>0, <2>1, RowTypes
  <2> DEFINE row == Skeleton(disk[at])
             q == [view.rows EXCEPT ![at] = row]
  <2>3. at \in present /\ row = Skeleton(disk[at]) /\ row \in Row
        /\ ~(view.rows[at].state \in {"indexed", "failed"} /\ view.rows[at].ver = disk[at])
    BY <2>1, <2>2
  <2>4. view'.rows = q
    BY <2>1
  <2> HIDE DEF row
  <2>5. Past(view.frontier, q, present, disk) /\ Recedes(view.frontier, view.rows, q)
    BY <1>0, <2>1, <2>3, PastRow
  <2> HIDE DEF q
  <2> QED
    BY <2>4, <2>5
<1>3. CASE SettleStep(x)
  <2>1. view'.rows = [view.rows EXCEPT ![x] = Analysed(x)] /\ x \in batch \cup range
        /\ x \in Files
    BY <1>3 DEF SettleStep
  <2>2. view.rows[x].state = "skeleton"
    BY <1>3 DEF SettleStep, IInv, Skeletons
  <2>3. Analysed(x) \in Row
    BY <1>0, <2>1, AnalysedType
  <2>4. Analysed(x).ver = view.rows[x].ver
    BY DEF Analysed, Indexed, Failed
  <2> QED
    BY <1>0, <2>1, <2>2, <2>3, <2>4, PastRow
<1>4. CASE FinishStep
  <2>1. view' = Forgetting(view, Gone) /\ Gone \cap present = {}
    BY <1>4, GoneIsGone DEF FinishStep, PairInv
  <2> QED
    BY <1>0, <2>1, PastForgetting
<1> QED
  BY <1>1, <1>2, <1>3, <1>4 DEF Moves

\* So what the frontier claims stays true.
LEMMA MovesDone ==
    ASSUME IInv, Order, PairInv, Ordinary, Unstopped, FrontierPart, [Next]_vars,
           NEW x, Moves(x), view'.frontier = view.frontier
    PROVE  /\ Past(view'.frontier, view'.rows, present', disk')
           /\ DoneIn(view'.frontier, view'.rows, Keys(view'.pairs))
           /\ Loaded' => DoneIn(view'.frontier, view'.rows, NewKeys')
<1> DEFINE F == view.frontier  r == view.rows  q == view'.rows
<1>1. Past(F, q, present, disk) /\ Recedes(F, r, q)
  BY MovesRecede DEF FrontierPart
<1>2. q \in [Files -> Row]
  BY StepInv, IndexParts DEF IInv, TypeOK
<1>3. Past(F, q, present', disk')
  BY <1>1, <1>2, PastOfTime
<1>4. DoneIn(F, r, Keys(view.pairs)) /\ (Loaded => DoneIn(F, r, NewKeys))
  BY DEF FrontierPart
<1> HIDE DEF F, r, q
<1>5. Loaded' => DoneIn(F, q, NewKeys')
  BY <1>1, <1>4, MovesKeepKeys, DoneCarried DEF q
<1>6. DoneIn(F, q, Keys(view'.pairs))
  <2>1. CASE Loaded /\ NewKeys \subseteq Keys(view'.pairs)
    BY <1>1, <1>4, <2>1, DoneCarried
  <2>2. CASE \A f, g \in Images :
               HasFp(q, f) /\ HasFp(q, g) /\ {f, g} \in Keys(view.pairs) => {f, g} \in Keys(view'.pairs)
    BY <1>1, <1>4, <2>2, DoneCarried
  <2> QED
    BY <2>1, <2>2, MovesKeepKeys DEF q
<1> QED
  BY <1>3, <1>5, <1>6 DEF F, q

\* A frontier of the rows as they are stands for the first groups of the pass.
LEMMA KeyDone ==
    ASSUME IInv, WholeFolder, NEW r, NEW F, F.files = FrontierKey(r), NEW KS
    PROVE  DoneIn(F, r, KS) <=> Below(r, F.done, KS)
<1>1. \A f \in Images : HasFp(r, f) => Entry(r, f) \in F.files
  <2>1. FrontierKey(r) = {Entry(r, f) : f \in {g \in Files : HasFp(r, g)}}
    BY KeyOfAll
  <2> QED
    BY <2>1 DEF Images
<1>2. \A f \in Images : RankIn(F.files, f) = RankOf(r, f)
  BY KeyOfAll
<1> QED
  BY <1>1, <1>2 DEF DoneIn, Below, Alike

\* A frontier that is set now is past of no row.
LEMMA KeyPast ==
    ASSUME IInv, WholeFolder, NEW r \in [Files -> Row], NEW F, F.files = FrontierKey(r),
           NEW S, NEW d, \A f \in Files : r[f].ver <= d[f]
    PROVE  Past(F, r, S, d)
<1>1. ASSUME NEW e \in F.files PROVE r[e[1]] = Indexed(e[2], e[3])
  <2>1. FrontierKey(r) = {Entry(r, f) : f \in {g \in Files : HasFp(r, g)}}
    BY KeyOfAll
  <2>2. PICK f \in Files : HasFp(r, f) /\ e = Entry(r, f)
    BY <1>1, <2>1
  <2>3. r[f] = Indexed(r[f].ver, r[f].fp)
    BY <2>2 DEF HasFp, Indexed, Row
  <2> QED
    BY <2>2, <2>3 DEF Entry
<1> QED
  BY <1>1 DEF Past

\* The frontier after a slice, and after the whole pass.
LEMMA MarksDone ==
    ASSUME IInv, WholeFolder, Ordinary, Unstopped, FrontierPart, SliceDone, [Next]_vars,
           MarkSlice \/ ClearFrontier
    PROVE  /\ view' = db'
           /\ Past(view'.frontier, view'.rows, present', disk')
           /\ DoneIn(view'.frontier, view'.rows, Keys(view'.pairs))
           /\ DoneIn(view'.frontier, view'.rows, NewKeys')
<1>0. view \in Index /\ ~tx
  BY DEF IInv, TypeOK, Transactions, TxScope, MarkSlice, ClearFrontier
<1>1. UNCHANGED <<stored, emitted, changed>> /\ NewKeys' = NewKeys /\ Loaded
  BY DEF MarkSlice, ClearFrontier, found, NewKeys, Loaded
<1>2. /\ Past(view.frontier, view.rows, present, disk)
      /\ DoneIn(view.frontier, view.rows, Keys(view.pairs)) /\ DoneIn(view.frontier, view.rows, NewKeys)
  BY <1>1 DEF FrontierPart
<1>3. view.rows \in [Files -> Row] /\ \A f \in Files : view.rows[f].ver <= disk[f]
  BY <1>0, <1>2, IndexParts DEF Past
<1> DEFINE W(F) == [view EXCEPT !.frontier = F]
<1>4. \A F : W(F).rows = view.rows /\ W(F).pairs = view.pairs /\ W(F).frontier = F
  BY <1>0, FieldsKept
<1> HIDE DEF W
<1>5. ASSUME NEW F, Past(F, view.rows, present, disk), DoneIn(F, view.rows, Keys(view.pairs)),
             DoneIn(F, view.rows, NewKeys), NEW v, Write(v),
             v.rows = view.rows, v.pairs = view.pairs, v.frontier = F
      PROVE  /\ view' = db'
             /\ Past(view'.frontier, view'.rows, present', disk')
             /\ DoneIn(view'.frontier, view'.rows, Keys(view'.pairs))
             /\ DoneIn(view'.frontier, view'.rows, NewKeys')
  <2>1. view' = v /\ db' = v
    BY <1>0, <1>5 DEF Write
  <2>2. Past(F, view.rows, present', disk')
    BY <1>3, <1>5, PastOfTime
  <2> QED
    BY <1>1, <1>5, <2>1, <2>2
<1>6. CASE MarkSlice
  <2> DEFINE F == [files |-> FrontierKey(view.rows), done |-> slice]
  <2>1. F.files = FrontierKey(view.rows) /\ F.done = slice
    OBVIOUS
  <2>2. Write(W(F))
    BY <1>6 DEF MarkSlice, W
  <2> HIDE DEF F
  <2>3. Below(view.rows, slice, NewKeys) /\ Below(view.rows, slice, Keys(view.pairs))
    BY <1>6 DEF MarkSlice, SliceDone
  <2>4. DoneIn(F, view.rows, NewKeys) /\ DoneIn(F, view.rows, Keys(view.pairs))
    BY <2>1, <2>3, KeyDone
  <2>5. Past(F, view.rows, present, disk)
    BY <1>3, <2>1, KeyPast
  <2> QED
    BY <1>4, <1>5, <2>2, <2>4, <2>5
<1>7. CASE ClearFrontier
  <2>1. NoFrontier.files = {}
    BY DEF NoFrontier
  <2>2. /\ Past(NoFrontier, view.rows, present, disk)
        /\ DoneIn(NoFrontier, view.rows, NewKeys) /\ DoneIn(NoFrontier, view.rows, Keys(view.pairs))
    BY <1>3, <2>1 DEF Past, DoneIn
  <2>3. Write(view) \/ Write(W(NoFrontier))
    BY <1>7 DEF ClearFrontier, W
  <2>4. CASE Write(view)
    BY <1>2, <1>5, <2>4
  <2>5. CASE Write(W(NoFrontier))
    BY <1>4, <1>5, <2>2, <2>5
  <2> QED
    BY <2>3, <2>4, <2>5
<1> QED
  BY <1>6, <1>7

\* A quick load keeps what the frontier claims, in the index and in the hands of the scan.
LEMMA LoadDone ==
    ASSUME IInv, Order, Ordinary, FrontierPart, [Next]_vars, QuickLoad
    PROVE  /\ view' = db'
           /\ Past(view'.frontier, view'.rows, present', disk')
           /\ DoneIn(view'.frontier, view'.rows, Keys(view'.pairs))
           /\ DoneIn(view'.frontier, view'.rows, NewKeys')
<1> DEFINE gone == (UNION Keys(view.pairs)) \ present
           F == view.frontier
           q == view'.rows
<1>0. /\ view \in Index /\ view'.rows \in [Files -> Row] /\ disk \in [Files -> Nat]
      /\ F.files \subseteq Files \X (0..MaxVer) \X (0..MaxVer)
  <2>1. IInv'
    BY StepInv
  <2>2. view \in Index /\ view' \in Index
    BY <2>1 DEF IInv, TypeOK
  <2> QED
    BY <2>1, <2>2, IndexParts, DisksAre
<1>1. /\ view' = Forgetting(view, gone) /\ db' = view' /\ stored' = view'.pairs
      /\ changed' = {} /\ emitted' = {}
  BY LoadEffect
<1>2. view'.frontier = F /\ \A f \in Files : q[f] = IF f \in gone THEN NoRow ELSE view.rows[f]
  BY <1>0, <1>1, ForgetFields
<1>3. Past(F, q, present, disk) /\ Recedes(F, view.rows, q)
  <2>1. gone \cap present = {} /\ Past(F, view.rows, present, disk)
    BY DEF FrontierPart
  <2> HIDE DEF gone, F
  <2>2. /\ Past(F, Forgetting(view, gone).rows, present, disk)
        /\ Recedes(F, view.rows, Forgetting(view, gone).rows)
    BY <1>0, <2>1, PastForgetting
  <2> QED
    BY <1>1, <2>2
<1>4. Past(F, q, present', disk')
  BY <1>0, <1>3, PastOfTime
<1>5. DoneIn(F, q, Keys(view'.pairs))
  <2>1. ASSUME NEW f \in Images, NEW g \in Images, HasFp(q, f), HasFp(q, g), {f, g} \in Keys(view.pairs)
        PROVE  {f, g} \in Keys(view'.pairs)
    <3>1. f \notin gone /\ g \notin gone
      BY <1>2, <2>1 DEF Images, HasFp, NoRow
    <3>2. PICK m \in view.pairs : Key(m) = {f, g}
      BY <2>1 DEF Keys
    <3>3. m \in view'.pairs
      BY <1>0, <1>1, <3>1, <3>2, ForgetFields
    <3> QED
      BY <3>2, <3>3 DEF Keys
  <2>2. DoneIn(F, view.rows, Keys(view.pairs))
    BY DEF FrontierPart
  <2> HIDE DEF F, q
  <2> QED
    BY <1>3, <2>1, <2>2, DoneCarried
<1>6. NewKeys' = Keys(view'.pairs)
  BY <1>1 DEF NewKeys, Keys
<1> QED
  BY <1>1, <1>2, <1>4, <1>5, <1>6

\* Each step keeps what the frontier claims.
LEMMA StepFrontierPart ==
    ASSUME IInv, Order, PairInv, Ordinary, Abrupt, Unstopped, WholeFolder, FrontierPart, SliceDone, [Next]_vars
    PROVE  FrontierPart'
<1> DEFINE Db == Past(db'.frontier, db'.rows, present', disk') /\ DoneIn(db'.frontier, db'.rows, Keys(db'.pairs))
           View == /\ Past(view'.frontier, view'.rows, present', disk')
                   /\ DoneIn(view'.frontier, view'.rows, Keys(view'.pairs))
           Due == Loaded' => DoneIn(view'.frontier, view'.rows, NewKeys')
<1>0. FrontierPart' <=> Db /\ View /\ Due
  BY DEF FrontierPart
<1>1. ASSUME Stays(db', db) PROVE Db
  <2>1. db.rows \in [Files -> Row] /\ Past(db.frontier, db.rows, present, disk)
    BY IndexParts DEF IInv, TypeOK, FrontierPart
  <2>2. Past(db.frontier, db.rows, present', disk')
    BY <2>1, PastOfTime
  <2> QED
    BY <1>1, <2>2 DEF Stays, FrontierPart
<1>2. Stays(db, db)
  BY DEF Stays
<1>3. CASE FreshStep
  <2>1. Db /\ view' = db' /\ ~Loaded'
    BY <1>1, <1>3, AbruptIs DEF FreshStep, Loaded
  <2> QED
    BY <1>0, <2>1
<1>4. CASE EarlyStep
  BY <1>4, AbruptIs DEF EarlyStep
<1>5. CASE QuickLoad
  BY <1>0, <1>5, LoadDone
<1>6. CASE MarkSlice \/ ClearFrontier
  BY <1>0, <1>6, MarksDone
<1>7. ASSUME NEW x, Moves(x), view'.frontier = view.frontier,
             db' = view' \/ Stays(db', db)
      PROVE  FrontierPart'
  <2>1. View /\ Due
    BY <1>7, MovesDone
  <2> QED
    BY <1>0, <1>1, <1>7, <2>1
<1>8. CASE PairStep
  BY <1>6, <1>7, <1>8 DEF PairStep, Moves
<1>9. CASE AdmitStep
  BY <1>2, <1>7, <1>9 DEF AdmitStep, Moves
<1>10. ASSUME NEW x \in Files, SettleStep(x) PROVE FrontierPart'
  BY <1>2, <1>7, <1>10 DEF SettleStep, Moves
<1>11. CASE FinishStep
  <2>1. view'.frontier = view.frontier
    <3>1. view \in Index
      BY DEF IInv, TypeOK
    <3>2. view' = Forgetting(view, Gone)
      BY <1>11 DEF FinishStep
    <3> QED
      BY <3>1, <3>2, ForgetFields
  <2> QED
    BY <1>7, <1>11, <2>1 DEF FinishStep, Moves
<1>12. CASE BackStep
  <2>1. view' = db /\ db' = db /\ pc' = "idle"
    BY <1>12, AbruptIs DEF BackStep, Unstopped
  <2> QED
    BY <1>0, <1>1, <1>2, <2>1 DEF Loaded
<1> QED
  BY <1>3, <1>4, <1>5, <1>8, <1>9, <1>10, <1>11, <1>12, Shapes DEF Shape

\* More keys cover what fewer do.
LEMMA BelowMore ==
    ASSUME NEW r, NEW n, NEW KS, NEW LS, Below(r, n, KS), KS \subseteq LS PROVE Below(r, n, LS)
BY DEF Below

\* The rank in the key of a frontier is the rank in the rows.
LEMMA RankOfIs ==
    ASSUME IInv, WholeFolder, NEW r, NEW f \in Images, HasFp(r, f)
    PROVE  /\ RankOf(r, f) \in Nat /\ Cardinality(ImageGroups(r)) \in Nat
           /\ RankOf(r, f) < Cardinality(ImageGroups(r)) /\ Rank(r, f) = RankOf(r, f)
<1>1. f \in ImageGroups(r) /\ Rank(r, f) = RankOf(r, f)
  BY KeyOfAll
<1> QED
  BY <1>1, RankBelow

\* A slice without anything left to do ends with its groups verified.
LEMMA SliceEnds ==
    ASSUME IInv, Unstopped, WholeFolder, Below(view.rows, slice, NewKeys), EndSlice
    PROVE  Below(view.rows, slice', NewKeys)
<1> SUFFICES ASSUME NEW f \in Images, NEW g \in Images, Alike(view.rows, f, g), RankOf(view.rows, f) < slice'
             PROVE  {f, g} \in NewKeys
  BY DEF Below
<1> DEFINE m == PairOf(view.rows, f, g)
<1>1. SliceTodo = {} /\ slice' <= slice + SliceFiles /\ slice \in Nat /\ SliceFiles \in Nat
  <2>1. SliceTodo = {} /\ Cardinality(ImageGroups(view.rows)) \in Nat
    BY GroupsType DEF EndSlice, Unstopped
  <2>2. slice \in Nat /\ SliceFiles \in Nat
    BY IndexAssumption DEF IInv, TypeOK
  <2> QED
    BY <2>1, <2>2 DEF EndSlice
<1>2. /\ RankOf(view.rows, f) \in Nat /\ Rank(view.rows, f) = RankOf(view.rows, f)
      /\ f \in ImageGroups(view.rows) /\ g \in ImageGroups(view.rows)
  BY RankOfIs, KeyOfAll DEF Alike
<1>3. m \in PairsAmong(view.rows, ImageGroups(view.rows))
  BY <1>2, PairsAre
<1>4. GroupOf(view.rows, m) = RankOf(view.rows, f)
  BY <1>2, GroupOfPair DEF Images, Alike
<1>5. Key(m) = {f, g}
  BY KeyOfPair
<1>6. CASE RankOf(view.rows, f) < slice
  BY <1>6 DEF Below
<1>7. CASE ~(RankOf(view.rows, f) < slice)
  <2>1. RankOf(view.rows, f) \in slice..(slice + SliceFiles - 1)
    <3>1. slice' \in Nat
      BY StepInv, GroupsType, <1>1 DEF EndSlice
    <3> QED
      BY <1>1, <1>2, <1>7, <3>1
  <2>2. m \in emitted
    BY <1>1, <1>3, <1>4, <2>1 DEF SliceTodo
  <2> QED
    BY <1>5, <2>2 DEF NewKeys, Keys
<1> QED
  BY <1>6, <1>7

\* Each step keeps that the pairs below the slice are stored or about to be.
LEMMA StepSliceDone ==
    ASSUME IInv, Order, PairInv, Ordinary, Abrupt, Unstopped, WholeFolder, FrontierPart, SliceDone,
           FrontierPart', [Next]_vars
    PROVE  SliceDone'
<1> USE DEF vars, diskVars, dbVars, control, found, walkVars, verdicts, budgets
<1>0. view \in Index /\ cancel = FALSE
  BY DEF IInv, TypeOK, Unstopped
<1>1. ASSUME pc' \notin {"slices", "sliceMark", "pass"} PROVE SliceDone'
  BY <1>1 DEF SliceDone
<1>2. ASSUME UNCHANGED <<view, stored, emitted, changed, slice, pc, mode>> PROVE SliceDone'
  BY <1>2 DEF SliceDone, NewKeys
<1>3. CASE FinishWalk
  <2>1. pc' = (IF mode = "Sequential" THEN "slices" ELSE "pass") /\ mode' = mode
        /\ slice' = (IF mode = "Sequential" /\ view'.frontier.files = FrontierKey(view'.rows)
                     THEN view'.frontier.done ELSE 0)
    BY <1>3 DEF FinishWalk, GoTo
  <2>2. CASE mode = "Sequential"
    <3>1. DoneIn(view'.frontier, view'.rows, NewKeys')
      BY <2>1, <2>2 DEF FrontierPart, Loaded
    <3>2. ASSUME view'.frontier.files = FrontierKey(view'.rows)
          PROVE  Below(view'.rows, slice', NewKeys')
      <4> DEFINE F == view'.frontier  q == view'.rows
      <4>1. F.files = FrontierKey(q) /\ F.done = slice'
        BY <2>1, <2>2, <3>2
      <4> HIDE DEF F, q
      <4>2. Below(q, F.done, NewKeys')
        BY <3>1, <4>1, KeyDone DEF F, q
      <4> QED
        BY <4>1, <4>2 DEF q
    <3>3. ASSUME slice' = 0 PROVE Below(view'.rows, slice', NewKeys')
      BY <3>3, RankOfIs DEF Below, Alike
    <3>4. Below(view'.rows, slice', NewKeys')
      BY <2>1, <2>2, <3>2, <3>3
    <3> QED
      BY <2>1, <2>2, <3>4 DEF SliceDone
  <2>3. CASE mode # "Sequential"
    BY <2>1, <2>3 DEF SliceDone
  <2> QED
    BY <2>2, <2>3
<1>4. CASE EmitMatch
  <2>1. emitted \subseteq emitted' /\ UNCHANGED <<stored, changed, slice, pc, mode>>
        /\ pc \in {"slices", "pass"}
    BY <1>4 DEF EmitMatch
  <2>2. NewKeys \subseteq NewKeys'
    <3>1. Keys(emitted) \subseteq Keys(emitted')
      BY <2>1, KeysGrow
    <3> QED
      BY <2>1, <3>1 DEF NewKeys
  <2>3. view'.rows = view.rows
    BY <1>4, EmitShape DEF PairStep
  <2> QED
    BY <2>1, <2>2, <2>3 DEF SliceDone, Below, EachIn
<1>5. CASE EndSlice
  <2>1. pc = "slices" /\ pc' = "sliceMark" /\ UNCHANGED <<stored, emitted, changed, mode>>
    BY <1>5 DEF EndSlice, GoTo
  <2>2. view'.rows = view.rows /\ view'.pairs = CurrentMatchSet(emitted)
    <3>1. view' = [view EXCEPT !.pairs = CurrentMatchSet(emitted)]
      BY <1>5, AbruptIs DEF EndSlice, Persist, Write
    <3> QED
      BY <1>0, <3>1, FieldsKept
  <2>3. NewKeys' = NewKeys /\ Keys(view'.pairs) = NewKeys
    BY <2>1, <2>2, KeysOfSave DEF NewKeys
  <2>4. Below(view.rows, slice', NewKeys)
    BY <1>5, <2>1, SliceEnds DEF SliceDone
  <2> QED
    BY <2>1, <2>2, <2>3, <2>4 DEF SliceDone
<1>6. CASE MarkSlice
  <2>1. pc = "sliceMark" /\ pc' = "slices" /\ UNCHANGED <<stored, emitted, changed, slice, mode>>
    BY <1>0, <1>6 DEF MarkSlice, GoTo
  <2>2. view'.rows = view.rows
    BY <1>6, QuietKeeps DEF Quiet
  <2> QED
    BY <2>1, <2>2 DEF SliceDone, NewKeys
<1>7. CASE EndSlices
  <2>1. /\ pc = "slices" /\ pc' = "pass" /\ UNCHANGED <<view, stored, emitted, changed, slice, mode>>
        /\ slice >= Cardinality(ImageGroups(view.rows)) /\ slice \in Nat
    BY <1>7 DEF EndSlices, GoTo, IInv, TypeOK
  <2>2. EachIn(view.rows, NewKeys)
    <3> SUFFICES ASSUME NEW f \in Images, NEW g \in Images, Alike(view.rows, f, g) PROVE {f, g} \in NewKeys
      BY DEF EachIn
    <3>1. RankOf(view.rows, f) < slice
      BY <2>1, RankOfIs DEF Alike
    <3> QED
      BY <2>1, <3>1 DEF SliceDone, Below
  <2> QED
    BY <2>1, <2>2 DEF SliceDone, NewKeys
<1>8. CASE DiskChanges \/ UNCHANGED vars
  BY <1>2, <1>8 DEF DiskChanges
<1>9. CASE RequestStop \/ DbFails
  BY <1>9, AbruptIs DEF RequestStop, DbFails
<1>10. CASE StartScan \/ OpenFails \/ Kill \/ QuickLoad \/ Throw \/ Unwind \/ HandlerInvalidates \/ HandlerSaves
  BY <1>1, <1>10 DEF StartScan, OpenFails, Kill, QuickLoad, Throw, Unwind, HandlerInvalidates, HandlerSaves, GoTo
<1>11. CASE SkipFile \/ AdmitFile \/ WalkEnds \/ DrainImages \/ DrainVideos \/ Drained
  BY <1>1, <1>11 DEF SkipFile, AdmitFile, NextFile, WalkEnds, DrainImages, DrainVideos, Drained, GoTo
<1>12. CASE SettleImage \/ HarvestVideo
  <2>1. pc' \in {"walk", "drain"}
    BY <1>12 DEF SettleImage, HarvestVideo, IInv, Transactions, UnitInWalk, GoTo
  <2> QED
    BY <1>1, <2>1
<1>13. CASE EndPass \/ ClearFrontier \/ StampBaseline \/ FinalPersist \/ Report \/ Invalidate \/ SettledExit
  BY <1>1, <1>13 DEF EndPass, ClearFrontier, StampBaseline, FinalPersist, Report, Invalidate, SettledExit, GoTo
<1> QED
  BY <1>3, <1>4, <1>5, <1>6, <1>7, <1>8, <1>9, <1>10, <1>11, <1>12, <1>13 DEF Next, Done

\* There is no frontier at first.
LEMMA InitFrontier == Init => FrontierInv
<1> SUFFICES ASSUME Init PROVE FrontierPart /\ SliceDone
  BY DEF FrontierInv
<1>1. pc = "idle" /\ view = EmptyIndex /\ db = EmptyIndex /\ disk \in [Files -> Nat]
  BY IndexAssumption DEF Init
<1>2. /\ EmptyIndex.frontier.files = {}
      /\ \A f \in Files : EmptyIndex.rows[f].ver = 0
  BY DEF EmptyIndex, NoFrontier, NoRow
<1>3. Past(EmptyIndex.frontier, EmptyIndex.rows, present, disk)
  BY <1>1, <1>2 DEF Past
<1>4. DoneIn(EmptyIndex.frontier, EmptyIndex.rows, Keys(EmptyIndex.pairs))
  BY <1>2 DEF DoneIn
<1> QED
  BY <1>1, <1>3, <1>4 DEF FrontierPart, SliceDone, Loaded

\* Each step keeps the invariant of the frontier.
LEMMA StepFrontier ==
    IInv /\ Order /\ PairInv /\ AbruptInv /\ FrontierInv /\ [Next]_vars => FrontierInv'
<1> SUFFICES ASSUME IInv, Order, PairInv, AbruptInv, FrontierInv, [Next]_vars, WholeFolder, Abrupt
             PROVE  FrontierPart' /\ SliceDone'
  BY SettingKept DEF FrontierInv, WholeFolder, Abrupt, AtMost
<1>1. Ordinary /\ Unstopped /\ FrontierPart /\ SliceDone
  BY AbruptIs DEF AbruptInv, FrontierInv
<1>2. FrontierPart'
  BY <1>1, StepFrontierPart
<1> QED
  BY <1>1, <1>2, StepSliceDone

\* So it holds at every step.
LEMMA FrontierInvariant == Spec => [](IInv /\ Order /\ PairInv /\ AbruptInv /\ FrontierInv)
<1>1. Init => IInv /\ Order /\ PairInv /\ AbruptInv /\ FrontierInv
  BY InitInv, InitOrder, InitPairs, InitAbrupt, InitFrontier
<1>2. IInv /\ Order /\ PairInv /\ AbruptInv /\ FrontierInv /\ [Next]_vars
        => (IInv /\ Order /\ PairInv /\ AbruptInv /\ FrontierInv)'
  BY StepInv, StepOrder, StepPairs, StepAbrupt, StepFrontier
<1> QED
  BY <1>1, <1>2, PTL DEF Spec

\* It says that the groups below a frontier need no second visit.
LEMMA DoneIsSound == IInv /\ FrontierInv => FrontierHolds
<1> SUFFICES ASSUME IInv, WholeFolder, FrontierPart, db.frontier.files = FrontierKey(db.rows),
                    NEW m \in PairsAmong(db.rows, ImageGroups(db.rows)),
                    GroupOf(db.rows, m) < db.frontier.done
             PROVE  Key(m) \in Keys(db.pairs)
  BY DEF FrontierHolds, FrontierSound, FrontierInv
<1>1. PICK f, g \in ImageGroups(db.rows) : Alike(db.rows, f, g) /\ m = PairOf(db.rows, f, g)
  BY PairsAre
<1>2. f \in Images /\ g \in Images /\ f \in Files /\ g \in Files
  BY <1>1 DEF ImageGroups, Images
<1>3. GroupOf(db.rows, m) = RankOf(db.rows, f)
  BY <1>1, <1>2, GroupOfPair, KeyOfAll DEF Alike
<1>4. Below(db.rows, db.frontier.done, Keys(db.pairs))
  BY KeyDone DEF FrontierPart
<1>5. Key(m) = {f, g}
  BY <1>1, KeyOfPair
<1> QED
  BY <1>1, <1>2, <1>3, <1>4, <1>5 DEF Below

\* The groups a Sequential pass may skip under analyze_frontier have their pairs
\* in the durable index, for every slice size and however often the process dies:
\* onSlice saves the pairs before it advances the frontier, and a file that was
\* looked at since has a version the frontier's key does not hold.
THEOREM FrontierIsSound == Spec => []FrontierHolds
BY FrontierInvariant, DoneIsSound, PTL

-----------------------------------------------------------------------------
(* The baseline.                                                             *)

Regime == WholeFolder /\ (Abrupt \/ Faulty)

\* A scan that builds on the stored pairs, up to its stamp, and while its live
\* pairs count.
Builds      == mode # "Sequential" /\ ~full
BeforeStamp == pc \notin {"idle", "persist", "report", "invalidate", "settle", "handlerSave"}
LiveSpan    == pc \in {"walk", "drain", "finish", "slices", "sliceMark", "pass"}

\* The alike files of r outside C have their pair in KS.
BasedOn(r, C, KS) == \A f, g \in Files \ C : Alike(r, f, g) => {f, g} \in KS

\* What a building scan does not verify it has, stored and for its next save,
\* in what is durable as in what the connection sees.
Based == Builds /\ BeforeStamp =>
    /\ BasedOn(view.rows, changed, Keys(view.pairs)) /\ BasedOn(db.rows, changed, Keys(db.pairs))
    /\ Loaded => BasedOn(view.rows, changed, NewKeys) /\ BasedOn(db.rows, changed, NewKeys)

\* The pairs of two changed images were emitted when the second was analysed.
LiveDone == Builds /\ LiveSpan =>
    \A f, g \in Images \cap changed : Alike(view.rows, f, g) => {f, g} \in Keys(emitted)

\* A pass that was not stopped leaves no pair unverified or unbased.
Passed == pc \in {"passEnd", "stamp"} /\ ~cancel => BasedOn(view.rows, {}, NewKeys)

\* The baseline is kept only with all the pairs, on its way to the disk.
Kept ==
    /\ pc = "persist" /\ view.baseline /\ ~LeftIncomplete => BasedOn(view.rows, {}, NewKeys)
    /\ pc = "report" /\ view.baseline /\ ~LeftIncomplete => BasedOn(view.rows, {}, Keys(view.pairs))
    /\ pc = "settle" /\ view.baseline => BasedOn(view.rows, {}, Keys(view.pairs))
    /\ pc = "idle" /\ db.baseline /\ ~db.dirty => BasedOn(db.rows, {}, Keys(db.pairs))

\* Without kills the marker is never found set, and a full pass is one that has
\* no baseline to lose; its handler has no open transaction.
Settled == Faulty =>
    /\ pc \in {"idle", "handler", "handlerSave"} => ~db.dirty /\ ~view.dirty
    /\ pc \in {"unwind", "handler", "handlerSave"} => ~tx
    /\ BeforeStamp /\ full => ~db.baseline /\ ~view.baseline
    /\ pc = "handlerSave" /\ view.baseline =>
         BasedOn(view.rows, {}, NewKeys) /\ BasedOn(view.rows, {}, Keys(view.pairs))

FullIs == full => mode # "Sequential"

BaselineInv == Regime => Based /\ LiveDone /\ Passed /\ Kept /\ Settled /\ FullIs

\* What can happen in the settings the baseline is claimed for.
LEMMA RegimeIs ==
    ASSUME Abrupt \/ Faulty
    PROVE  /\ ~May("failEarly")
           /\ May("throw") => Faulty
           /\ Abrupt => ~May("stop") /\ ~May("saveFail") /\ ~May("dbFail") /\ ~May("throw")
           /\ Faulty => ~May("kill") /\ ~May("throwOpen") /\ "Sequential" \notin setting.modes
BY DEF Abrupt, Faulty, AtMost, May

\* Which steps lead into the spans of a scan.
LEMMA Flow ==
    ASSUME IInv, [Next]_vars
    PROVE  /\ ~StartScan => mode' = mode /\ full' = full
           /\ BeforeStamp' => BeforeStamp \/ StartScan \/ OpenFails
           /\ LiveSpan' => LiveSpan \/ QuickLoad
<1> USE DEF vars, diskVars, dbVars, control, found, walkVars, verdicts, budgets, GoTo, BeforeStamp, LiveSpan
<1>1. CASE StartScan \/ OpenFails \/ Kill \/ QuickLoad \/ Throw \/ Unwind \/ HandlerInvalidates \/ HandlerSaves
  BY <1>1 DEF StartScan, OpenFails, Kill, QuickLoad, Throw, Unwind, HandlerInvalidates, HandlerSaves
<1>2. CASE SkipFile \/ AdmitFile \/ WalkEnds \/ DrainImages \/ DrainVideos \/ Drained
  BY <1>2 DEF SkipFile, AdmitFile, NextFile, WalkEnds, DrainImages, DrainVideos, Drained
<1>3. CASE SettleImage \/ HarvestVideo
  BY <1>3 DEF SettleImage, HarvestVideo, IInv, Transactions, UnitInWalk
<1>4. CASE FinishWalk \/ EmitMatch \/ EndSlice \/ MarkSlice \/ EndSlices \/ EndPass
  BY <1>4 DEF FinishWalk, EmitMatch, EndSlice, MarkSlice, EndSlices, EndPass
<1>5. CASE ClearFrontier \/ StampBaseline \/ FinalPersist \/ Report \/ Invalidate \/ SettledExit
  BY <1>5 DEF ClearFrontier, StampBaseline, FinalPersist, Report, Invalidate, SettledExit
<1>6. CASE RequestStop \/ DbFails \/ DiskChanges \/ UNCHANGED vars
  BY <1>6 DEF RequestStop, DbFails, DiskChanges
<1> QED
  BY <1>1, <1>2, <1>3, <1>4, <1>5, <1>6 DEF Next, Done

\* Rows that no longer have a fingerprint, or files that changed, need no pair.
LEMMA BasedCarried ==
    ASSUME NEW r, NEW q, NEW C, NEW D, NEW KS, NEW LS, C \subseteq D, BasedOn(r, C, KS),
           \A f \in Files \ D : HasFp(q, f) => q[f] = r[f],
           \A f, g \in Files \ D : HasFp(q, f) /\ HasFp(q, g) /\ {f, g} \in KS => {f, g} \in LS
    PROVE  BasedOn(q, D, LS)
<1> SUFFICES ASSUME NEW f \in Files \ D, NEW g \in Files \ D, Alike(q, f, g) PROVE {f, g} \in LS
  BY DEF BasedOn
<1>1. HasFp(q, f) /\ HasFp(q, g) /\ q[f] = r[f] /\ q[g] = r[g]
  BY DEF Alike
<1>2. Alike(r, f, g)
  BY <1>1 DEF Alike, HasFp
<1> QED
  BY <1>1, <1>2 DEF BasedOn

\* Forgetting rows leaves the pairs of the others.
LEMMA ForgetBased ==
    ASSUME NEW v \in Index, NEW gone, NEW C, NEW D, C \subseteq D
    PROVE  LET w == Forgetting(v, gone) IN
           /\ BasedOn(v.rows, C, Keys(v.pairs)) => BasedOn(w.rows, D, Keys(w.pairs))
           /\ \A KS, LS : BasedOn(v.rows, C, KS) /\ KS \subseteq LS => BasedOn(w.rows, D, LS)
<1> DEFINE w == Forgetting(v, gone)
<1>1. /\ \A f \in Files : w.rows[f] = IF f \in gone THEN NoRow ELSE v.rows[f]
      /\ w.pairs = {m \in v.pairs : Key(m) \cap gone = {}}
  BY ForgetFields
<1>2. ~(NoRow.state = "indexed")
  BY DEF NoRow
<1> HIDE DEF w
<1>3. \A f \in Files : HasFp(w.rows, f) => w.rows[f] = v.rows[f] /\ f \notin gone
  BY <1>1, <1>2 DEF HasFp
<1>4. ASSUME NEW f \in Files, NEW g \in Files, HasFp(w.rows, f), HasFp(w.rows, g), {f, g} \in Keys(v.pairs)
      PROVE  {f, g} \in Keys(w.pairs)
  <2>1. PICK m \in v.pairs : Key(m) = {f, g}
    BY <1>4 DEF Keys
  <2>2. m \in w.pairs
    BY <1>1, <1>3, <1>4, <2>1
  <2> QED
    BY <2>1, <2>2 DEF Keys
<1>5. ASSUME BasedOn(v.rows, C, Keys(v.pairs)) PROVE BasedOn(w.rows, D, Keys(w.pairs))
  BY <1>3, <1>4, <1>5, BasedCarried
<1>6. ASSUME NEW KS, NEW LS, BasedOn(v.rows, C, KS), KS \subseteq LS PROVE BasedOn(w.rows, D, LS)
  BY <1>3, <1>6, BasedCarried
<1> QED
  BY <1>5, <1>6 DEF w

\* What a step of the scan does to what the connection sees and the worker has.
LEMMA MovesKeepBase ==
    ASSUME IInv, Order, NEW x, Moves(x)
    PROVE  /\ changed \subseteq changed'
           /\ \A f \in Files \ changed' : HasFp(view'.rows, f) => view'.rows[f] = view.rows[f]
           /\ \A f, g \in Files \ changed' : {f, g} \in NewKeys => {f, g} \in NewKeys'
           /\ \/ Loaded /\ NewKeys \subseteq Keys(view'.pairs)
              \/ \A f, g \in Files :
                   HasFp(view'.rows, f) /\ HasFp(view'.rows, g) /\ {f, g} \in Keys(view.pairs)
                     => {f, g} \in Keys(view'.pairs)
<1>0. view \in Index /\ view.rows \in [Files -> Row]
  BY IndexParts DEF IInv, TypeOK
<1> DEFINE Grow == \A f, g \in Files \ changed' : {f, g} \in NewKeys => {f, g} \in NewKeys'
<1>1. ASSUME emitted \subseteq emitted', changed \subseteq changed', stored' = stored PROVE Grow
  BY <1>1, NewKeysGrow
<1> HIDE DEF Grow
<1>2. CASE PairStep
  <2>1. emitted \subseteq emitted' /\ changed' = changed /\ stored' = stored /\ view'.rows = view.rows
    BY <1>2 DEF PairStep
  <2>2. CASE view'.pairs = view.pairs
    BY <1>1, <2>1, <2>2 DEF Grow
  <2>3. CASE Loaded /\ view'.pairs = CurrentMatchSet(emitted')
    <3>1. NewKeys \subseteq Keys(view'.pairs)
      BY <2>1, <2>3, SaveKeys
    <3> QED
      BY <1>1, <2>1, <2>3, <3>1 DEF Grow
  <2> QED
    BY <1>2, <2>2, <2>3 DEF PairStep, Loaded
<1>3. CASE AdmitStep
  <2>1. view'.rows = [view.rows EXCEPT ![at] = Skeleton(disk[at])] /\ view'.pairs = view.pairs
        /\ changed' = changed \cup {at} /\ emitted' = emitted /\ stored' = stored /\ at \in Files
    BY <1>3 DEF AdmitStep
  <2> QED
    BY <1>0, <1>1, <2>1 DEF Grow
<1>4. CASE SettleStep(x)
  <2>1. emitted \subseteq emitted' /\ changed' = changed /\ stored' = stored /\ Loaded
        /\ view'.rows = [view.rows EXCEPT ![x] = Analysed(x)] /\ x \in changed
    BY <1>4 DEF SettleStep, Loaded, Order, Waiting
  <2>2. \A f \in Files \ changed' : view'.rows[f] = view.rows[f]
    BY <1>0, <2>1
  <2>3. CASE view'.pairs = view.pairs
    BY <1>1, <2>1, <2>2, <2>3 DEF Grow
  <2>4. ASSUME NEW E, emitted \subseteq E, view'.pairs = CurrentMatchSet(E)
        PROVE  NewKeys \subseteq Keys(view'.pairs)
    BY <2>4, SaveKeys
  <2> QED
    BY <1>1, <1>4, <2>1, <2>2, <2>3, <2>4 DEF SettleStep, Grow
<1>5. CASE FinishStep
  <2>1. view' = Forgetting(view, Gone) /\ emitted' = emitted /\ changed' = changed /\ stored' = stored
    BY <1>5 DEF FinishStep
  <2>2. \A f \in Files : HasFp(view'.rows, f) => view'.rows[f] = view.rows[f] /\ f \notin Gone
    BY <1>0, <2>1, ForgetFields DEF HasFp, NoRow
  <2>3. ASSUME NEW f \in Files, NEW g \in Files, HasFp(view'.rows, f), HasFp(view'.rows, g),
               {f, g} \in Keys(view.pairs)
        PROVE  {f, g} \in Keys(view'.pairs)
    <3>1. PICK m \in view.pairs : Key(m) = {f, g}
      BY <2>3 DEF Keys
    <3>2. m \in view'.pairs
      BY <1>0, <2>1, <2>2, <2>3, <3>1, ForgetFields
    <3> QED
      BY <3>1, <3>2 DEF Keys
  <2> QED
    BY <1>1, <2>1, <2>2, <2>3 DEF Grow
<1> QED
  BY <1>2, <1>3, <1>4, <1>5 DEF Moves

\* Each step keeps the pairs a scan builds on.
LEMMA StepBased ==
    ASSUME IInv, Order, Abrupt \/ Faulty, Based, Kept, [Next]_vars PROVE Based'
<1> SUFFICES ASSUME Builds', BeforeStamp'
             PROVE  /\ BasedOn(view'.rows, changed', Keys(view'.pairs))
                    /\ BasedOn(db'.rows, changed', Keys(db'.pairs))
                    /\ Loaded' => /\ BasedOn(view'.rows, changed', NewKeys')
                                  /\ BasedOn(db'.rows, changed', NewKeys')
  BY DEF Based
<1>0. view \in Index
  BY DEF IInv, TypeOK
<1>1. CASE StartScan
  <2>1. view' = db' /\ Stays(db', db) /\ changed' = {} /\ ~Loaded' /\ pc = "idle"
    <3>1. FreshStep /\ pc' = "load" /\ pc = "idle"
      BY <1>1, FreshShape DEF StartScan, GoTo
    <3> QED
      BY <3>1 DEF FreshStep, FreshWorker, Loaded
  <2>2. view = db
    BY <2>1 DEF IInv, Transactions, TxScope, TxDiscipline
  <2>3. mode' # "Sequential" /\ ~full' /\ full' = (mode' # "Sequential" /\ FullPassDue)
    BY <1>1 DEF StartScan, Builds
  <2>4. db.baseline /\ ~db.dirty
    BY <2>2, <2>3 DEF FullPassDue
  <2>5. BasedOn(db.rows, {}, Keys(db.pairs))
    BY <2>1, <2>4 DEF Kept
  <2> QED
    BY <2>1, <2>5 DEF Stays
<1>2. CASE ~StartScan
  <2>0. Builds /\ (BeforeStamp \/ OpenFails)
    BY <1>2, Flow DEF Builds
  <2>1. ~OpenFails /\ ~EarlyStep
    BY RegimeIs DEF OpenFails, EarlyStep
  <2>2. /\ BasedOn(view.rows, changed, Keys(view.pairs)) /\ BasedOn(db.rows, changed, Keys(db.pairs))
        /\ Loaded => BasedOn(view.rows, changed, NewKeys) /\ BasedOn(db.rows, changed, NewKeys)
    BY <2>0, <2>1 DEF Based
  <2>3. ASSUME NEW x, Moves(x), db' = view' \/ Stays(db', db), Loaded' => Loaded
        PROVE  /\ BasedOn(view'.rows, changed', Keys(view'.pairs))
               /\ BasedOn(db'.rows, changed', Keys(db'.pairs))
               /\ Loaded' => /\ BasedOn(view'.rows, changed', NewKeys')
                             /\ BasedOn(db'.rows, changed', NewKeys')
    <3>1. /\ changed \subseteq changed'
          /\ \A f \in Files \ changed' : HasFp(view'.rows, f) => view'.rows[f] = view.rows[f]
          /\ \A f, g \in Files \ changed' : {f, g} \in NewKeys => {f, g} \in NewKeys'
      BY <2>3, MovesKeepBase
    <3>2. BasedOn(view'.rows, changed', Keys(view'.pairs))
      <4>1. CASE Loaded /\ NewKeys \subseteq Keys(view'.pairs)
        <5>1. BasedOn(view.rows, changed, NewKeys)
          BY <2>2, <4>1
        <5> QED
          BY <3>1, <4>1, <5>1, BasedCarried
      <4>2. CASE \A f, g \in Files :
                   HasFp(view'.rows, f) /\ HasFp(view'.rows, g) /\ {f, g} \in Keys(view.pairs)
                     => {f, g} \in Keys(view'.pairs)
        BY <2>2, <3>1, <4>2, BasedCarried
      <4> QED
        BY <2>3, <4>1, <4>2, MovesKeepBase
    <3>3. Loaded' => BasedOn(view'.rows, changed', NewKeys')
      BY <2>2, <2>3, <3>1, BasedCarried
    <3>4. BasedOn(db.rows, changed', Keys(db.pairs)) /\ (Loaded' => BasedOn(db.rows, changed', NewKeys'))
      BY <2>2, <2>3, <3>1, BasedCarried
    <3> QED
      BY <2>3, <3>2, <3>3, <3>4 DEF Stays
  <2>4. CASE FreshStep
    BY <2>0, <2>1, <2>4 DEF FreshStep, BeforeStamp
  <2>5. CASE QuickLoad
    <3>1. /\ view' = Forgetting(view, (UNION Keys(view.pairs)) \ present) /\ db' = view'
          /\ stored' = view'.pairs /\ changed' = {} /\ emitted' = {} /\ changed = {}
      BY <2>5, LoadEffect DEF Order, LoadEmpty
    <3>2. BasedOn(view'.rows, {}, Keys(view'.pairs))
      BY <1>0, <2>2, <3>1, ForgetBased
    <3>3. NewKeys' = Keys(view'.pairs)
      BY <3>1 DEF NewKeys, Keys
    <3> QED
      BY <3>1, <3>2, <3>3
  <2>6. CASE PairStep
    BY <2>3, <2>6 DEF PairStep, Moves
  <2>7. CASE AdmitStep
    BY <2>3, <2>7 DEF AdmitStep, Moves, Stays, Loaded
  <2>8. ASSUME NEW f \in Files, SettleStep(f)
        PROVE  /\ BasedOn(view'.rows, changed', Keys(view'.pairs))
               /\ BasedOn(db'.rows, changed', Keys(db'.pairs))
               /\ Loaded' => /\ BasedOn(view'.rows, changed', NewKeys')
                             /\ BasedOn(db'.rows, changed', NewKeys')
    BY <2>3, <2>8 DEF SettleStep, Moves, Stays, Loaded
  <2>9. CASE FinishStep
    BY <2>3, <2>9 DEF FinishStep, Moves, Loaded
  <2>10. CASE BackStep
    <3>1. view' = db /\ db' = db /\ UNCHANGED <<stored, emitted, changed>> /\ Loaded
      BY <2>10 DEF BackStep
    <3> QED
      BY <2>2, <3>1 DEF NewKeys
  <2> QED
    BY <2>1, <2>4, <2>5, <2>6, <2>7, <2>8, <2>9, <2>10, Shapes DEF Shape
<1> QED
  BY <1>1, <1>2

\* Each step keeps that changed images were compared as they were analysed.
LEMMA StepLiveDone ==
    ASSUME IInv, Order, LiveDone, [Next]_vars PROVE LiveDone'
<1> SUFFICES ASSUME Builds', LiveSpan', NEW f \in Images, NEW g \in Images, f \in changed', g \in changed',
                    Alike(view'.rows, f, g)
             PROVE  {f, g} \in Keys(emitted')
  BY DEF LiveDone
<1>0. view \in Index /\ view.rows \in [Files -> Row] /\ f \in Files /\ g \in Files
      /\ HasFp(view'.rows, f) /\ HasFp(view'.rows, g)
  BY IndexParts DEF IInv, TypeOK, Images, Alike
<1>1. CASE QuickLoad
  BY <1>1, LoadEffect
<1>2. CASE ~QuickLoad
  <2>1. LiveSpan /\ Builds
    <3>1. LiveSpan
      BY <1>2, Flow
    <3>2. ~StartScan
      BY <3>1 DEF StartScan, LiveSpan
    <3> QED
      BY <3>1, <3>2, Flow DEF Builds
  <2>2. ASSUME emitted \subseteq emitted', f \in changed, g \in changed,
               view'.rows[f] = view.rows[f], view'.rows[g] = view.rows[g]
        PROVE  {f, g} \in Keys(emitted')
    <3>1. Alike(view.rows, f, g)
      BY <2>2 DEF Alike, HasFp
    <3>2. {f, g} \in Keys(emitted)
      BY <2>1, <2>2, <3>1 DEF LiveDone
    <3> QED
      BY <2>2, <3>2, KeysGrow
  <2>3. CASE FreshStep \/ EarlyStep
    BY <2>1, <2>3 DEF FreshStep, EarlyStep, FreshWorker, LiveSpan
  <2>4. CASE PairStep
    BY <2>2, <2>4 DEF PairStep
  <2>5. CASE AdmitStep
    <3>1. view'.rows = [view.rows EXCEPT ![at] = Skeleton(disk[at])] /\ at \in Files
          /\ changed' = changed \cup {at} /\ emitted' = emitted
      BY <2>5 DEF AdmitStep
    <3>2. f # at /\ g # at
      BY <1>0, <3>1 DEF HasFp, Skeleton
    <3> QED
      BY <1>0, <2>2, <3>1, <3>2
  <2>6. ASSUME NEW x \in Files, SettleStep(x) PROVE {f, g} \in Keys(emitted')
    <3>1. view'.rows = [view.rows EXCEPT ![x] = Analysed(x)] /\ emitted \subseteq emitted' /\ changed' = changed
          /\ (x \in Images => emitted' = emitted \cup LivePairs(view'.rows, x))
      BY <2>6 DEF SettleStep
    <3>2. CASE f # x /\ g # x
      BY <1>0, <2>2, <3>1, <3>2
    <3>3. CASE f = x \/ g = x
      <4> DEFINE m == PairOf(view'.rows, f, g)
      <4>1. m \in PairsAmong(view'.rows, changed) /\ Key(m) = {f, g}
        BY <3>1, PairsAre, KeyOfPair
      <4> HIDE DEF m
      <4>2. m \in LivePairs(view'.rows, x)
        BY <2>1, <3>3, <4>1 DEF LivePairs, Builds
      <4>3. m \in emitted'
        BY <3>1, <3>3, <4>2
      <4> QED
        BY <4>1, <4>3 DEF Keys
    <3> QED
      BY <3>2, <3>3
  <2>7. CASE FinishStep
    <3>1. view' = Forgetting(view, Gone) /\ UNCHANGED <<emitted, changed>>
      BY <2>7 DEF FinishStep
    <3>2. view'.rows[f] = view.rows[f] /\ view'.rows[g] = view.rows[g]
      BY <1>0, <3>1, ForgetFields DEF HasFp, NoRow
    <3> QED
      BY <2>2, <3>1, <3>2
  <2>8. CASE BackStep
    BY <2>8 DEF BackStep, LiveSpan
  <2> QED
    BY <1>2, <2>3, <2>4, <2>5, <2>6, <2>7, <2>8, Shapes DEF Shape
<1> QED
  BY <1>1, <1>2

\* A scan that found nothing changed, and is stopped or fails, leaves a baseline
\* it found alone.
LEMMA NothingChanged ==
    ASSUME IInv, Faulty, Based, Settled, FullIs, BeforeStamp, Loaded, changed = {}
    PROVE  /\ view.baseline =>
                BasedOn(view.rows, {}, NewKeys) /\ BasedOn(view.rows, {}, Keys(view.pairs))
           /\ db.baseline => BasedOn(db.rows, {}, NewKeys)
<1>1. mode # "Sequential"
  BY RegimeIs, SettingType DEF IInv, TypeOK
<1>2. CASE full
  BY <1>2 DEF Settled
<1>3. CASE ~full
  <2>1. Builds
    BY <1>1, <1>3 DEF Builds
  <2> QED
    BY <2>1 DEF Based
<1> QED
  BY <1>2, <1>3

\* Each step keeps that a full pass is not a sequential one.
LEMMA StepFullIs == ASSUME IInv, FullIs, [Next]_vars PROVE FullIs'
<1>1. CASE StartScan
  BY <1>1 DEF StartScan, FullIs
<1>2. CASE ~StartScan
  BY <1>2, Flow DEF FullIs
<1> QED
  BY <1>1, <1>2

\* A pass over: every pair among the rows is verified, or based.
LEMMA PassEnds ==
    ASSUME IInv, Regime, AbruptInv, FrontierInv, Based, LiveDone, FullIs, EndPass, ~cancel
    PROVE  BasedOn(view.rows, {}, NewKeys)
<1> SUFFICES ASSUME NEW f \in Files, NEW g \in Files, Alike(view.rows, f, g)
             PROVE  {f, g} \in NewKeys
  BY DEF BasedOn
<1> DEFINE m == PairOf(view.rows, f, g)
<1>1. pc = "pass" /\ PassTodo = {}
  BY DEF EndPass
<1>2. m \in PairsAmong(view.rows, InScope) /\ Key(m) = {f, g}
  <2>1. InScope = Files
    BY ScopeIsAll DEF Regime
  <2> QED
    BY <2>1, PairsAre, KeyOfPair
<1> HIDE DEF m
<1>3. ASSUME m \in emitted PROVE {f, g} \in NewKeys
  BY <1>2, <1>3 DEF NewKeys, Keys
<1>4. (f \in Videos /\ g \in Videos) \/ (f \in Images /\ g \in Images)
  BY DEF Alike, Similar, Images
<1>5. CASE mode = "Sequential"
  <2>1. CASE f \in Videos /\ g \in Videos
    <3>1. m \in emitted
      BY <1>1, <1>2, <1>5, <2>1 DEF PassTodo
    <3> QED
      BY <1>3, <3>1
  <2>2. CASE f \in Images /\ g \in Images
    <3>1. WholeFolder /\ Abrupt
      BY <1>5, RegimeIs DEF Regime, IInv, TypeOK
    <3>2. EachIn(view.rows, NewKeys)
      BY <1>1, <1>5, <3>1 DEF FrontierInv, SliceDone
    <3> QED
      BY <2>2, <3>2 DEF EachIn
  <2> QED
    BY <1>4, <2>1, <2>2
<1>6. CASE full
  <2>1. m \in emitted
    BY <1>1, <1>2, <1>6 DEF PassTodo, Included, FullIs
  <2> QED
    BY <1>3, <2>1
<1>7. CASE Builds
  <2>0. mode # "Sequential"
    BY <1>7 DEF Builds
  <2>1. CASE f \notin changed /\ g \notin changed
    <3>1. BasedOn(view.rows, changed, NewKeys)
      BY <1>1, <1>7 DEF Based, BeforeStamp, Loaded
    <3> QED
      BY <2>1, <3>1 DEF BasedOn
  <2>2. CASE f \in Videos /\ g \in Videos /\ (f \in changed \/ g \in changed)
    <3>1. m \in emitted
      BY <1>1, <1>2, <2>0, <2>2 DEF PassTodo, Included
    <3> QED
      BY <1>3, <3>1
  <2>3. CASE f \in Images /\ g \in Images /\ f \in changed /\ g \in changed
    <3>1. {f, g} \in Keys(emitted)
      BY <1>1, <1>7, <2>3 DEF LiveDone, LiveSpan
    <3> QED
      BY <3>1 DEF NewKeys
  <2>4. CASE f \in Images /\ g \in Images /\ (f \in changed) # (g \in changed)
    <3>1. Key(m) \cap changed # {} /\ Key(m) \subseteq Images
      BY <1>2, <2>4
    <3>2. Cardinality(Key(m) \cap changed) = 1
      <4>1. Key(m) \cap changed = {f} \/ Key(m) \cap changed = {g}
        BY <1>2, <2>4
      <4> QED
        BY <4>1, FS_Singleton
    <3>3. m \in emitted
      BY <1>1, <1>2, <2>0, <3>1, <3>2 DEF PassTodo, Included
    <3> QED
      BY <1>3, <3>3
  <2> QED
    BY <1>4, <2>1, <2>2, <2>3, <2>4
<1> QED
  BY <1>5, <1>6, <1>7 DEF Builds

\* Each step keeps that a pass which was not stopped ends with all pairs.
LEMMA StepPassed ==
    ASSUME IInv, Regime, AbruptInv, FrontierInv, Based, LiveDone, FullIs, Passed, [Next]_vars
    PROVE  Passed'
<1> USE DEF vars, diskVars, dbVars, control, found, walkVars, verdicts, budgets, GoTo
<1>1. ASSUME pc' \notin {"passEnd", "stamp"} PROVE Passed'
  BY <1>1 DEF Passed
<1>2. CASE EndPass
  BY <1>2, PassEnds DEF EndPass, Passed, NewKeys
<1>3. CASE ClearFrontier
  <2>1. view'.rows = view.rows /\ NewKeys' = NewKeys
    BY <1>3, QuietKeeps DEF Quiet, NewKeys
  <2>2. pc = "passEnd" /\ cancel' = cancel
    BY <1>3 DEF ClearFrontier
  <2> QED
    BY <2>1, <2>2 DEF Passed
<1>4. CASE MarkSlice \/ RequestStop
  BY <1>1, <1>4 DEF MarkSlice, RequestStop, Passed
<1>5. CASE DiskChanges \/ UNCHANGED vars
  BY <1>5 DEF DiskChanges, Passed, NewKeys
<1>6. CASE StartScan \/ OpenFails \/ Kill \/ QuickLoad \/ Throw \/ Unwind \/ HandlerInvalidates \/ HandlerSaves
  BY <1>1, <1>6 DEF StartScan, OpenFails, Kill, QuickLoad, Throw, Unwind, HandlerInvalidates, HandlerSaves
<1>7. CASE SkipFile \/ AdmitFile \/ WalkEnds \/ DrainImages \/ DrainVideos \/ Drained
  BY <1>1, <1>7 DEF SkipFile, AdmitFile, NextFile, WalkEnds, DrainImages, DrainVideos, Drained
<1>8. CASE SettleImage \/ HarvestVideo
  <2>1. pc' \in {"walk", "drain"}
    BY <1>8 DEF SettleImage, HarvestVideo, IInv, Transactions, UnitInWalk
  <2> QED
    BY <1>1, <2>1
<1>9. CASE FinishWalk \/ EmitMatch \/ EndSlice \/ EndSlices \/ DbFails
  BY <1>1, <1>9 DEF FinishWalk, EmitMatch, EndSlice, EndSlices, DbFails
<1>10. CASE StampBaseline \/ FinalPersist \/ Report \/ Invalidate \/ SettledExit
  BY <1>1, <1>10 DEF StampBaseline, FinalPersist, Report, Invalidate, SettledExit
<1> QED
  BY <1>2, <1>3, <1>4, <1>5, <1>6, <1>7, <1>8, <1>9, <1>10 DEF Next, Done

\* Who may set or lose the baseline, and when.
LEMMA BaselineMoves ==
    ASSUME IInv, Order, Abrupt \/ Faulty, [Next]_vars, ~StartScan
    PROVE  /\ \/ view'.baseline \in {view.baseline, db.baseline, FALSE}
              \/ StampBaseline
           /\ db'.baseline \in {db.baseline, view'.baseline}
<1>0. view \in Index /\ db \in Index
  BY DEF IInv, TypeOK
<1>1. CASE FreshStep
  BY <1>1 DEF FreshStep, Stays
<1>2. CASE EarlyStep \/ BackStep
  BY <1>2 DEF EarlyStep, BackStep
<1>3. CASE QuickLoad \/ FinishStep
  <2>1. PICK gone : view' = Forgetting(view, gone)
    BY <1>3 DEF QuickLoad, FinishStep
  <2>2. view'.baseline = view.baseline
    BY <1>0, <2>1, ForgetFields
  <2> QED
    BY <1>3, <2>2 DEF QuickLoad, FinishStep
<1>4. CASE PairStep
  <2>1. ASSUME Invalidate \/ HandlerInvalidates PROVE view'.baseline \in {view.baseline, FALSE}
    <3> DEFINE v == [view EXCEPT !.baseline = FALSE]
    <3>1. v.baseline = FALSE
      BY <1>0, FieldsKept
    <3>2. view' = view \/ view' = v
      BY <2>1 DEF Invalidate, HandlerInvalidates, Write
    <3> HIDE DEF v
    <3> QED
      BY <3>1, <3>2
  <2> QED
    BY <1>4, <2>1 DEF PairStep, Stays
<1>5. CASE AdmitStep \/ \E f \in Files : SettleStep(f)
  BY <1>5 DEF AdmitStep, SettleStep
<1> QED
  BY <1>1, <1>2, <1>3, <1>4, <1>5, Shapes DEF Shape

\* A full pass of a scan that nothing kills has no baseline before its stamp.
LEMMA StepFullPass ==
    ASSUME IInv, Order, Faulty, Settled, [Next]_vars, BeforeStamp', full'
    PROVE  ~db'.baseline /\ ~view'.baseline
<1>1. CASE StartScan
  <2>1. pc = "idle" /\ full' = (mode' # "Sequential" /\ FullPassDue) /\ FreshStep
    BY <1>1, FreshShape DEF StartScan
  <2>2. view = db /\ ~view.dirty
    BY <2>1 DEF IInv, Transactions, TxScope, TxDiscipline, Settled
  <2>3. ~view.baseline
    BY <2>1, <2>2 DEF FullPassDue
  <2> QED
    BY <2>1, <2>2, <2>3 DEF FreshStep, Stays
<1>2. CASE ~StartScan
  <2>1. full /\ BeforeStamp
    BY <1>2, Flow, RegimeIs DEF OpenFails
  <2>2. ~db.baseline /\ ~view.baseline
    BY <2>1 DEF Settled
  <2>3. ~StampBaseline
    BY DEF StampBaseline, GoTo, BeforeStamp
  <2> QED
    BY <1>2, <2>2, <2>3, BaselineMoves
<1> QED
  BY <1>1, <1>2

\* Without deaths, each step keeps that no marker is left between scans, and that a full pass has no
\* baseline to lose.
LEMMA StepSettled ==
    ASSUME IInv, Order, Faulty, Based, Settled, FullIs, [Next]_vars PROVE Settled'
<1> DEFINE Clean == pc \in {"idle", "handler", "handlerSave"} => ~db.dirty /\ ~view.dirty
           Shut  == pc \in {"unwind", "handler", "handlerSave"} => ~tx
           Full  == BeforeStamp /\ full => ~db.baseline /\ ~view.baseline
           Saves == pc = "handlerSave" /\ view.baseline =>
                      BasedOn(view.rows, {}, NewKeys) /\ BasedOn(view.rows, {}, Keys(view.pairs))
<1> USE DEF vars, diskVars, dbVars, control, found, walkVars, verdicts, budgets
<1>0. Clean /\ Shut /\ Saves /\ view \in Index
  BY DEF Settled, IInv, TypeOK
<1>1. Full'
  BY StepFullPass
<1>2. SUFFICES Clean' /\ Shut' /\ Saves'
  BY <1>1 DEF Settled
<1>3. ASSUME pc' \notin {"idle", "unwind", "handler", "handlerSave"} PROVE Clean' /\ Shut' /\ Saves'
  BY <1>3
<1>4. ASSUME UNCHANGED <<view, db, tx, pc, stored, emitted, changed>> PROVE Clean' /\ Shut' /\ Saves'
  BY <1>0, <1>4 DEF NewKeys
<1>5. CASE SettledExit \/ Unwind
  <2> DEFINE v == [view EXCEPT !.dirty = FALSE]
  <2>1. ~tx
    BY <1>0, <1>5 DEF SettledExit, Unwind, IInv, Transactions, TxScope
  <2>2. view' = v /\ db' = v /\ tx' = tx /\ pc' \in {"idle", "handler"}
    BY <1>5, <2>1 DEF SettledExit, Unwind, Write, GoTo
  <2>3. v.dirty = FALSE
    BY <1>0 DEF Index
  <2> HIDE DEF v
  <2> QED
    BY <2>1, <2>2, <2>3
<1>6. CASE HandlerInvalidates
  <2>1. pc = "handler" /\ pc' = "handlerSave" /\ UNCHANGED <<stored, emitted, changed>> /\ ~tx
    BY <1>0, <1>6 DEF HandlerInvalidates, GoTo
  <2>2. ~view.dirty /\ ~db.dirty /\ NewKeys' = NewKeys
    BY <1>0, <2>1 DEF NewKeys
  <2>3. CASE changed = {}
    <3>1. view' = view /\ db' = view /\ tx' = tx
      BY <1>6, <2>1, <2>3 DEF HandlerInvalidates, Write
    <3>2. view.baseline => BasedOn(view.rows, {}, NewKeys) /\ BasedOn(view.rows, {}, Keys(view.pairs))
      BY <2>1, <2>3, NothingChanged DEF BeforeStamp, Loaded
    <3> QED
      BY <2>1, <2>2, <3>1, <3>2
  <2>4. CASE changed # {}
    <3> DEFINE v == [view EXCEPT !.baseline = FALSE]
    <3>1. view' = v /\ db' = v /\ tx' = tx
      BY <1>6, <2>1, <2>4 DEF HandlerInvalidates, Write
    <3>2. v.baseline = FALSE /\ v.dirty = view.dirty
      BY <1>0 DEF Index
    <3> HIDE DEF v
    <3> QED
      BY <2>1, <2>2, <3>1, <3>2
  <2> QED
    BY <2>3, <2>4
<1>7. CASE HandlerSaves
  <2> DEFINE v == [view EXCEPT !.pairs = CurrentMatchSet(emitted)]
  <2>1. pc = "handlerSave" /\ pc' = "idle" /\ view' = db' /\ db' \in {db, v}
    BY <1>7 DEF HandlerSaves, GoTo
  <2>2. v.dirty = view.dirty
    BY <1>0 DEF Index
  <2> HIDE DEF v
  <2> QED
    BY <1>0, <2>1, <2>2
<1>8. CASE Throw
  <2>1. ~tx'
    BY <1>8, RegimeIs DEF Throw, Rollback, IInv, Transactions, TxScope
  <2> QED
    BY <1>8, <2>1 DEF Throw, GoTo
<1>9. CASE OpenFails \/ Kill
  BY <1>9, RegimeIs DEF OpenFails, Kill
<1>10. CASE DiskChanges \/ RequestStop \/ UNCHANGED vars
  BY <1>4, <1>10 DEF DiskChanges, RequestStop
<1>11. CASE StartScan \/ QuickLoad \/ SkipFile \/ AdmitFile \/ WalkEnds \/ DrainImages \/ DrainVideos \/ Drained
  BY <1>3, <1>11 DEF StartScan, QuickLoad, SkipFile, AdmitFile, NextFile, WalkEnds, DrainImages, DrainVideos,
                     Drained, GoTo
<1>12. CASE SettleImage \/ HarvestVideo
  <2>1. pc' \in {"walk", "drain"}
    BY <1>12 DEF SettleImage, HarvestVideo, IInv, Transactions, UnitInWalk, GoTo
  <2> QED
    BY <1>3, <2>1
<1>13. CASE FinishWalk \/ DbFails \/ EmitMatch \/ EndSlice \/ MarkSlice \/ EndSlices \/ EndPass
  BY <1>3, <1>13 DEF FinishWalk, DbFails, EmitMatch, EndSlice, MarkSlice, EndSlices, EndPass, GoTo
<1>14. CASE ClearFrontier \/ StampBaseline \/ FinalPersist \/ Report \/ Invalidate
  BY <1>3, <1>14 DEF ClearFrontier, StampBaseline, FinalPersist, Report, Invalidate, GoTo
<1> QED
  BY <1>5, <1>6, <1>7, <1>8, <1>9, <1>10, <1>11, <1>12, <1>13, <1>14 DEF Next, Done

\* Each step keeps that a baseline without a marker is true.
LEMMA StepKept ==
    ASSUME IInv, Order, Regime, AbruptInv, Based, Passed, Kept, Settled, FullIs, [Next]_vars
    PROVE  Kept'
<1> USE DEF vars, diskVars, dbVars, control, found, walkVars, verdicts, budgets, GoTo
<1>0. view \in Index /\ (cancel => Faulty) /\ (May("dbFail") => Faulty) /\ cancel \in BOOLEAN
  <2>1. Abrupt \/ Faulty
    BY DEF Regime
  <2> QED
    BY <2>1, RegimeIs DEF AbruptInv, Unstopped, IInv, TypeOK
<1>1. ASSUME pc' \notin {"persist", "report", "settle", "idle"} PROVE Kept'
  BY <1>1 DEF Kept
<1>2. CASE RequestStop \/ DiskChanges \/ UNCHANGED vars
  <2>1. UNCHANGED <<view, db, pc, stored, emitted, changed, completed>> /\ (cancel => cancel')
    BY <1>2 DEF RequestStop, DiskChanges
  <2>2. NewKeys' = NewKeys /\ (LeftIncomplete => LeftIncomplete')
    BY <2>1 DEF NewKeys, LeftIncomplete
  <2> QED
    BY <2>1, <2>2 DEF Kept
<1>3. CASE QuickLoad
  <2>1. CASE pc' = "persist"
    <3>1. Faulty /\ view = db /\ pc = "load" /\ changed = {} /\ changed' = {} /\ emitted' = {}
          /\ stored' = view'.pairs
          /\ view' = Forgetting(view, (UNION Keys(view.pairs)) \ present)
      BY <1>0, <1>3, <2>1, LoadEffect DEF Order, LoadEmpty
    <3>2. view'.baseline = view.baseline
      BY <1>0, <3>1, ForgetFields
    <3>3. mode # "Sequential"
      BY <3>1, RegimeIs DEF IInv, TypeOK
    <3>4. CASE full
      <4>1. ~view.baseline
        BY <3>1, <3>4 DEF Settled, BeforeStamp
      <4> QED
        BY <2>1, <3>2, <4>1 DEF Kept
    <3>5. CASE ~full
      <4>1. BasedOn(view.rows, {}, Keys(view.pairs))
        BY <3>1, <3>3, <3>5 DEF Based, Builds, BeforeStamp
      <4>2. BasedOn(view'.rows, {}, Keys(view'.pairs))
        BY <1>0, <3>1, <4>1, ForgetBased
      <4>3. NewKeys' = Keys(view'.pairs)
        BY <3>1 DEF NewKeys, Keys
      <4> QED
        BY <2>1, <4>2, <4>3 DEF Kept
    <3> QED
      BY <3>4, <3>5
  <2>2. CASE pc' # "persist"
    BY <1>1, <1>3, <2>2 DEF QuickLoad
  <2> QED
    BY <2>1, <2>2
<1>4. CASE DbFails
  <2>1. /\ Faulty /\ view' = db /\ UNCHANGED <<stored, emitted, changed>> /\ pc' = "persist"
        /\ completed' = FALSE /\ BeforeStamp /\ Loaded
    BY <1>0, <1>4 DEF DbFails, Rollback, BeforeStamp, Loaded
  <2>2. changed # {} => LeftIncomplete'
    BY <2>1 DEF LeftIncomplete
  <2>3. changed = {} /\ db.baseline => BasedOn(db.rows, {}, NewKeys)
    BY <2>1, NothingChanged
  <2>4. NewKeys' = NewKeys
    BY <2>1 DEF NewKeys
  <2> QED
    BY <2>1, <2>2, <2>3, <2>4 DEF Kept
<1>5. CASE StampBaseline
  <2>1. /\ pc = "stamp" /\ pc' = "persist" /\ UNCHANGED <<stored, emitted, changed, cancel>>
        /\ completed' = ~cancel
    BY <1>5 DEF StampBaseline
  <2>2. view'.rows = view.rows /\ NewKeys' = NewKeys
    BY <1>5, <2>1, QuietKeeps DEF Quiet, NewKeys
  <2>3. CASE ~cancel
    BY <2>1, <2>2, <2>3 DEF Passed, Kept
  <2>4. CASE cancel
    <3>1. view' = view /\ Faulty /\ BeforeStamp /\ Loaded
      BY <1>0, <1>5, <2>1, <2>4 DEF StampBaseline, Write, BeforeStamp, Loaded
    <3>2. changed # {} => LeftIncomplete'
      BY <2>1, <2>4 DEF LeftIncomplete
    <3>3. changed = {} /\ view.baseline => BasedOn(view.rows, {}, NewKeys)
      BY <3>1, NothingChanged
    <3> QED
      BY <2>1, <2>2, <3>1, <3>2, <3>3 DEF Kept
  <2> QED
    BY <2>3, <2>4
<1>6. CASE FinalPersist
  <2>1. pc = "persist" /\ UNCHANGED <<stored, emitted, changed, cancel, completed>>
    BY <1>6 DEF FinalPersist
  <2>2. CASE Persist(emitted) /\ pc' = "report"
    <3> DEFINE v == [view EXCEPT !.pairs = CurrentMatchSet(emitted)]
    <3>1. view' = v /\ v.rows = view.rows /\ v.pairs = CurrentMatchSet(emitted) /\ v.baseline = view.baseline
      BY <1>0, <2>2, FieldsKept DEF Persist, Write
    <3> HIDE DEF v
    <3>2. Keys(view'.pairs) = NewKeys
      BY <3>1, KeysOfSave DEF NewKeys
    <3>3. LeftIncomplete' = LeftIncomplete
      BY <2>1 DEF LeftIncomplete
    <3> QED
      BY <2>1, <2>2, <3>1, <3>2, <3>3 DEF Kept
  <2>3. CASE pc' = "invalidate"
    BY <1>1, <2>3
  <2> QED
    BY <1>6, <2>2, <2>3 DEF FinalPersist
<1>7. CASE Report
  <2>1. pc = "report" /\ UNCHANGED <<view, db>> /\ pc' = (IF LeftIncomplete THEN "invalidate" ELSE "settle")
    BY <1>7 DEF Report
  <2> QED
    BY <2>1 DEF Kept
<1>8. CASE Invalidate
  <2> DEFINE v == [view EXCEPT !.baseline = FALSE]
  <2>1. view' = v /\ v.baseline = FALSE /\ pc' = "settle"
    BY <1>0, <1>8, FieldsKept DEF Invalidate, Write
  <2> HIDE DEF v
  <2> QED
    BY <2>1 DEF Kept
<1>9. CASE SettledExit
  <2> DEFINE v == [view EXCEPT !.dirty = FALSE]
  <2>1. pc = "settle" /\ pc' = "idle" /\ ~tx
    BY <1>9 DEF SettledExit, IInv, Transactions, TxScope
  <2>2. db' = v
    BY <1>9, <2>1 DEF SettledExit, Write
  <2>3. Stays(v, view)
    BY <1>0, FieldsKept
  <2> HIDE DEF v
  <2> QED
    BY <2>1, <2>2, <2>3 DEF Kept, Stays
<1>10. CASE HandlerSaves
  <2>1. pc = "handlerSave" /\ pc' = "idle" /\ view' = db'
    BY <1>10 DEF HandlerSaves
  <2>2. CASE Abrupt
    <3>1. db' = db /\ db.dirty
      BY <1>10, <2>1, <2>2, AbruptIs DEF HandlerSaves, AbruptInv, Unstopped
    <3> QED
      BY <2>1, <3>1 DEF Kept
  <2>3. CASE Faulty
    <3>1. ~tx /\ view = db
      BY <2>1, <2>3 DEF Settled, IInv, Transactions, TxDiscipline
    <3> DEFINE v == [view EXCEPT !.pairs = CurrentMatchSet(emitted)]
    <3>2. v.rows = view.rows /\ v.pairs = CurrentMatchSet(emitted) /\ v.baseline = view.baseline
      BY <1>0, FieldsKept
    <3>3. db' \in {v, db}
      BY <1>10, <3>1 DEF HandlerSaves
    <3> HIDE DEF v
    <3>4. Keys(v.pairs) = NewKeys
      BY <3>2, KeysOfSave DEF NewKeys
    <3>5. view.baseline => BasedOn(view.rows, {}, NewKeys) /\ BasedOn(view.rows, {}, Keys(view.pairs))
      BY <2>1, <2>3 DEF Settled
    <3> QED
      BY <2>1, <3>1, <3>2, <3>3, <3>4, <3>5 DEF Kept
  <2> QED
    BY <2>2, <2>3 DEF Regime
<1>11. CASE Kill
  <2>1. pc' = "idle" /\ db' = db /\ pc # "idle" /\ Abrupt
    BY <1>11, RegimeIs DEF Kill, Rollback, Regime
  <2>2. db.dirty
    BY <2>1 DEF IInv, TypeOK, Marked, AbruptInv, Unstopped
  <2> QED
    BY <2>1, <2>2 DEF Kept
<1>12. CASE StartScan \/ OpenFails \/ Throw \/ Unwind \/ HandlerInvalidates
  BY <1>1, <1>12 DEF StartScan, OpenFails, Throw, Unwind, HandlerInvalidates
<1>13. CASE SkipFile \/ AdmitFile \/ WalkEnds \/ DrainImages \/ DrainVideos \/ Drained
  BY <1>1, <1>13 DEF SkipFile, AdmitFile, NextFile, WalkEnds, DrainImages, DrainVideos, Drained
<1>14. CASE SettleImage \/ HarvestVideo
  <2>1. pc' \in {"walk", "drain"}
    BY <1>14 DEF SettleImage, HarvestVideo, IInv, Transactions, UnitInWalk
  <2> QED
    BY <1>1, <2>1
<1>15. CASE FinishWalk \/ EmitMatch \/ EndSlice \/ MarkSlice \/ EndSlices \/ EndPass \/ ClearFrontier
  BY <1>1, <1>15 DEF FinishWalk, EmitMatch, EndSlice, MarkSlice, EndSlices, EndPass, ClearFrontier
<1> QED
  BY <1>2, <1>3, <1>4, <1>5, <1>6, <1>7, <1>8, <1>9, <1>10, <1>11, <1>12, <1>13, <1>14, <1>15
     DEF Next, Done

\* There is no baseline at first.
LEMMA InitBaseline == Init => BaselineInv
<1> SUFFICES ASSUME Init PROVE Based /\ LiveDone /\ Passed /\ Kept /\ Settled /\ FullIs
  BY DEF BaselineInv
<1>1. pc = "idle" /\ db = EmptyIndex /\ view = EmptyIndex /\ full = FALSE
  BY DEF Init
<1>2. ~EmptyIndex.baseline /\ ~EmptyIndex.dirty
  BY DEF EmptyIndex
<1> QED
  BY <1>1, <1>2 DEF Based, LiveDone, LiveSpan, Passed, Kept, Settled, FullIs, BeforeStamp

\* Each step keeps the invariant of the baseline.
LEMMA StepBaseline ==
    IInv /\ Order /\ AbruptInv /\ FrontierInv /\ BaselineInv /\ [Next]_vars => BaselineInv'
<1> SUFFICES ASSUME IInv, Order, AbruptInv, FrontierInv, Regime, [Next]_vars,
                    Based, LiveDone, Passed, Kept, Settled, FullIs
             PROVE  (Based /\ LiveDone /\ Passed /\ Kept /\ Settled /\ FullIs)'
  <2>1. [Next]_vars => (Regime' <=> Regime)
    BY SettingKept DEF Regime, WholeFolder, Abrupt, Faulty, AtMost
  <2> QED
    BY <2>1 DEF BaselineInv
<1>1. Settled'
  <2>1. CASE Faulty
    BY <2>1, StepSettled
  <2>2. CASE ~Faulty
    <3>1. ~Faulty'
      BY <2>2, SettingKept DEF Faulty, AtMost
    <3> QED
      BY <3>1 DEF Settled
  <2> QED
    BY <2>1, <2>2
<1> QED
  BY <1>1, StepBased, StepLiveDone, StepPassed, StepKept, StepFullIs DEF Regime

\* So it holds at every step.
LEMMA BaselineInvariant ==
    Spec => [](IInv /\ Order /\ PairInv /\ AbruptInv /\ FrontierInv /\ BaselineInv)
<1>1. Init => IInv /\ Order /\ PairInv /\ AbruptInv /\ FrontierInv /\ BaselineInv
  BY InitInv, InitOrder, InitPairs, InitAbrupt, InitFrontier, InitBaseline
<1>2. IInv /\ Order /\ PairInv /\ AbruptInv /\ FrontierInv /\ BaselineInv /\ [Next]_vars
        => (IInv /\ Order /\ PairInv /\ AbruptInv /\ FrontierInv /\ BaselineInv)'
  BY StepInv, StepOrder, StepPairs, StepAbrupt, StepFrontier, StepBaseline
<1> QED
  BY <1>1, <1>2, PTL DEF Spec

\* It says that a baseline without a marker tells the truth.
LEMMA KeptIsSound == BaselineInv => BaselineHolds
<1> SUFFICES ASSUME Kept, pc = "idle", db.baseline, ~db.dirty, NEW m \in PairsAmong(db.rows, Files)
             PROVE  Key(m) \in Keys(db.pairs)
  BY DEF BaselineHolds, BaselineSound, BaselineInv, Regime, Keys
<1>1. PICK f, g \in Files : Alike(db.rows, f, g) /\ m = PairOf(db.rows, f, g)
  BY PairsAre
<1>2. BasedOn(db.rows, {}, Keys(db.pairs)) /\ Key(m) = {f, g}
  BY <1>1, KeyOfPair DEF Kept
<1> QED
  BY <1>1, <1>2 DEF BasedOn

\* match_baseline without scan_dirty means every similar pair is stored: for Live
\* and Hybrid scans that build on each other while files change, are stopped or
\* fail, and for scans of every mode whose process dies.
THEOREM BaselineIsSound == Spec => []BaselineHolds
BY BaselineInvariant, KeptIsSound, PTL
================================================================================
